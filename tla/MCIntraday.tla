----------------------------- MODULE MCIntraday -----------------------------
(***************************************************************************)
(* The three machines of the intraday strategy, which do not act on each  *)
(* other's state: the cycle (a day with a kill, and a day on which an      *)
(* operator executes plans beside the timer), the history of the bars, and *)
(* the entries read from the operations of the day.  Which of them moves   *)
(* is chosen at the beginning; the variables of the others stay as they    *)
(* are, so that the states add up.                                         *)
(***************************************************************************)
EXTENDS IntradayCycle

CONSTANTS DataSets, MaxBar, HistoryBars, Freshness, MaxRevisions    \* of the history

VARIABLES
  part,            \* the machine that moves
  now, published, revisions, cycle, asOf, read, store, plans,
  fills, cursor, pages, result

history_vars == <<now, published, revisions, cycle, asOf, read, store, plans>>
entries_vars == <<fills, cursor, pages, result>>
intraday_vars == <<part, vars, history_vars, entries_vars>>

History == INSTANCE IntradayHistory

\* Fills of one or two units of either side, read in pages of two.
Entries == INSTANCE ExecutedEntries WITH
  Quantities <- {-2, -1, 1, 2}, Prices <- {1, 3}, MaxFills <- 4, PageSize <- 2, MaxPages <- 3

ASSUME HistoryAssumption == History!HistoryAssumption

------------------------------------------------------------------------------
NoPosition == [s \in Secs |-> 0]
NoCycle == Init /\ position = NoPosition
NoHistory ==
  /\ now = 0 /\ published = <<>> /\ revisions = 0 /\ cycle = 0
  /\ asOf = 0 /\ read = <<>> /\ store = {} /\ plans = {}
NoEntries == fills = <<>> /\ cursor = 0 /\ pages = 0 /\ result = <<>>

\* A day with a kill and no rerun begins with the same lots of every instrument.
\* A day with a rerun and no kill is one of the first instrument: it is held, and
\* it is entered again.  A process that stays where it is has done what one that
\* is killed has.
OfTheFirst == \A signal \in marked' : signal[1] = 1

IntradayInit ==
  \/ /\ part = "day" /\ Init /\ NoHistory /\ NoEntries
     /\ \A s, t \in Secs : position[s] = position[t]
  \/ /\ part = "rerun" /\ Init /\ NoHistory /\ NoEntries
     /\ \A s \in Secs : position[s] # 0 <=> s = 1
  \/ part = "history" /\ NoCycle /\ History!Init /\ NoEntries
  \/ part = "entries" /\ NoCycle /\ NoHistory /\ Entries!Init

IntradayNext ==
  /\ \/ part = "day" /\ Next /\ reruns' = reruns /\ UNCHANGED <<history_vars, entries_vars>>
     \/ /\ part = "rerun" /\ Next /\ kills' = kills /\ OfTheFirst
        /\ UNCHANGED <<history_vars, entries_vars>>
     \/ part = "history" /\ History!Next /\ UNCHANGED <<vars, entries_vars>>
     \/ part = "entries" /\ Entries!Next /\ UNCHANGED <<vars, history_vars>>
  /\ UNCHANGED part

IntradaySpec == IntradayInit /\ [][IntradayNext]_intraday_vars

------------------------------------------------------------------------------
(* The properties are those of the modules, each of the part that moves.   *)

\* The history of the day is right: a decision is derived again from it at any
\* time, and a window is only refused for a gap that the exchange still has
\* (intraday.py:140-160, algopack_intraday.py:85).
HistoryIsReplayable ==
  /\ [](part = "history" => History!TypeOK /\ History!DecisionsCanBeReplayed)
  /\ History!GapsAreBackfilled

\* What the exits of the day are computed from is right (intraday.py:460-520):
\* the reading is the day up to a moment, the entry is of the open position.
EntriesAreRead ==
  part = "entries" =>
    Entries!TypeOK /\ Entries!EntryIsOfTheOpenPosition /\ Entries!ReadingIsAPrefix
==============================================================================
