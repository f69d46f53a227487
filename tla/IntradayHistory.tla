--------------------------- MODULE IntradayHistory ---------------------------
(***************************************************************************)
(* The five-minute history of one instrument behind the intraday signals.  *)
(* The exchange publishes the rows of several data sets independently,     *)
(* late, out of order, and may revise them; a cycle reads one data set     *)
(* after another, keeps the bars every set has, inserts the new ones into  *)
(* the store and decides on the last bars of the store.  Every row has its *)
(* numbers: a bar with an invalid one (algopack_intraday.py:131-138) is    *)
(* left out of the store, and its instrument of that cycle's decisions     *)
(* (intraday.py:250, 322-325), which is not modelled.                      *)
(***************************************************************************)
EXTENDS Integers, FiniteSets, Sequences, SequencesExt

CONSTANTS
  DataSets,        \* tradestats, orderstats, obstats
  MaxBar,          \* bars of the day; a bound of the model
  HistoryBars,     \* history_bars
  Freshness,       \* fifteen minutes, in bars
  MaxRevisions, MaxCycles      \* bounds of the model

HistoryAssumption == HistoryBars \in Nat \ {0} /\ MaxBar \in Nat /\ MaxCycles \in Nat

VARIABLES
  now,             \* the last completed five-minute bar
  published,       \* for each data set and bar the version of its row, 0 when there is none
  revisions,
  cycle,           \* cycles begun; also the time at which a cycle receives its bars
  asOf,            \* as_of of the running cycle, 0 when none runs
  read,            \* the data sets the cycle has read, and what it found
  store,           \* intraday_bars and intraday_bar_receipts
  plans            \* the decisions written so far, with the history they used

vars == <<now, published, revisions, cycle, asOf, read, store, plans>>

Bar == 1 .. MaxBar
NoRow == 0

Init ==
  /\ now = 0 /\ revisions = 0 /\ cycle = 0 /\ asOf = 0
  /\ published = [d \in DataSets |-> [b \in Bar |-> NoRow]]
  /\ read = <<>>
  /\ store = {}
  /\ plans = {}

--------------------------------------------------------------------------
(* The exchange.                                                           *)

Tick ==
  /\ now < MaxBar /\ now' = now + 1
  /\ UNCHANGED <<published, revisions, cycle, asOf, read, store, plans>>

Publish(d, b) ==
  /\ b <= now /\ published[d][b] = NoRow
  /\ published' = [published EXCEPT ![d][b] = 1]
  /\ UNCHANGED <<now, revisions, cycle, asOf, read, store, plans>>

Revise(d, b) ==
  /\ published[d][b] # NoRow /\ revisions < MaxRevisions
  /\ published' = [published EXCEPT ![d][b] = @ + 1]
  /\ revisions' = revisions + 1
  /\ UNCHANGED <<now, cycle, asOf, read, store, plans>>

--------------------------------------------------------------------------
(* The cycle.                                                              *)

\* _day_rows(): the sets are read one after another; reading may fail, and the
\* plan is then made from the store alone.
Start ==
  /\ asOf = 0 /\ cycle < MaxCycles /\ now > 0
  /\ asOf' = now /\ cycle' = cycle + 1 /\ read' = <<>>
  /\ UNCHANGED <<now, published, revisions, store, plans>>

Read(d) ==
  /\ asOf # 0 /\ d \notin DOMAIN read
  /\ read' = [e \in DOMAIN read \cup {d} |-> IF e = d THEN published[d] ELSE read[e]]
  /\ UNCHANGED <<now, published, revisions, cycle, asOf, store, plans>>

\* The bars every data set has, and their last HistoryBars.
Common == {b \in 1 .. asOf : \A d \in DataSets : read[d][b] # NoRow}
LastOf(bars) == {b \in bars : Cardinality({c \in bars : c > b}) < HistoryBars}

\* mutant: only the newest common bar is collected, as latest() does
WindowOfLatest == {b \in Common : \A c \in Common : c <= b}

\* history(): the window of this request.
Window == LastOf(Common)

\* add(): a bar that is stored is never replaced.
Added ==
  {[bar |-> b, row |-> [d \in DataSets |-> read[d][b]], received |-> cycle] :
     b \in {c \in Window : \A s \in store : s.bar # c}}

\* recent(): the last bars up to as_of that had been received.
Recent(stored, at, received) ==
  LET known == {s \in stored : s.bar <= at /\ s.received <= received}
      last == LastOf({s.bar : s \in known})
  IN {s \in known : s.bar \in last}

\* evaluate_candidate(), up to the indicators: what a window is refused for.
Verdict(window, at) ==
  LET bars == {s.bar : s \in window}
      newest == CHOOSE b \in bars : \A c \in bars : c <= b
  IN IF Cardinality(bars) # HistoryBars THEN "history"
     ELSE IF \E b \in bars : b # newest /\ b + 1 \notin bars THEN "contiguity"
     ELSE IF at - newest > Freshness THEN "freshness" ELSE "candidate"

Decide(stored) ==
  LET window == Recent(stored, asOf, cycle)
  IN /\ plans' = plans \cup {[asOf |-> asOf, received |-> cycle, window |-> window,
                               verdict |-> Verdict(window, asOf)]}
     /\ asOf' = 0 /\ read' = <<>>

\* build_intraday_plan(): the bars are stored, then the decision is made.  The
\* store's transaction stands when the cycle is killed before the plan.
Plan ==
  /\ asOf # 0
  /\ \/ /\ DOMAIN read = DataSets
        /\ LET stored == Added \cup {s \in store : \A a \in Added : a.bar # s.bar}
           IN /\ store' = stored
              /\ Decide(stored) \/ (asOf' = 0 /\ read' = <<>> /\ UNCHANGED plans)
     \/ DOMAIN read # DataSets /\ Decide(store) /\ UNCHANGED store
  /\ UNCHANGED <<now, published, revisions, cycle>>

Next ==
  \/ Tick
  \/ \E d \in DataSets, b \in Bar : Publish(d, b) \/ Revise(d, b)
  \/ Start
  \/ \E d \in DataSets : Read(d)
  \/ Plan

Spec == Init /\ [][Next]_vars

--------------------------------------------------------------------------
(* Properties.                                                             *)

TypeOK ==
  /\ now \in 0 .. MaxBar /\ asOf \in 0 .. now /\ cycle \in 0 .. MaxCycles
  /\ \A s \in store : s.bar \in 1 .. now /\ s.received \in 1 .. cycle
                      /\ \A d \in DataSets : s.row[d] # NoRow
  /\ \A s, t \in store : s.bar = t.bar => s = t

\* A decision can be derived again from the store at any later time: what was
\* read late, backfilled or revised afterwards does not enter the window of an
\* earlier decision (intraday.py:156, docs/INTRADAY_GAPS_TTL_RU.md).
DecisionsCanBeReplayed ==
  \A p \in plans : Recent(store, p.asOf, p.received) = p.window

\* A window is refused for a gap only when a data set did not have the missing
\* bar in this very cycle: a gap the exchange has filled meanwhile is
\* backfilled, whatever earlier cycles had read (algopack_intraday.py:85).
GapsAreBackfilled ==
  [][ \A p \in plans' \ plans :
        p.verdict = "contiguity" /\ DOMAIN read = DataSets =>
          LET bars == {s.bar : s \in p.window}
          IN \E b \in Bar, d \in DataSets :
               /\ read[d][b] = NoRow /\ b \notin bars
               /\ \E low, high \in bars : low < b /\ b < high ]_vars
==============================================================================
