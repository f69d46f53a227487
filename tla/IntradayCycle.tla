---------------------------- MODULE IntradayCycle ----------------------------
(***************************************************************************)
(* The intraday robot on its sandbox account: the cycle the timer starts   *)
(* every five minutes (run-intraday-cycle.sh) cancels what is still        *)
(* active, reconciles the journal, reads a snapshot, makes a plan from it  *)
(* and executes the plan.  Beside it an operator may execute a written     *)
(* plan again or reconcile the journal.  Any command can be killed between *)
(* any two of its steps.                                                   *)
(***************************************************************************)
EXTENDS SandboxExecution

CONSTANTS
  Timer, Operator, \* the two processes
  Bars,            \* the times of the last completed bar that cycles may see
  MaxEntries,      \* max_entries_per_day
  MaxPositions,    \* max_concurrent_positions
  MaxLots,         \* the lots max_position_notional_rub pays for
  Capital,         \* lots that cash, exposure and turnover may leave to a plan
  Holdings,        \* the lots of an instrument the account may hold when the day begins
  MaxCycles, MaxReruns, MaxKills   \* bounds of the model, not of the code

ASSUME DayAssumption ==
  /\ MaxEntries \in Nat /\ MaxLots \in Nat \ {0}
  /\ Capital \subseteq Nat /\ Holdings \subseteq Int

VARIABLES
  clock,           \* 0: entries are open, 1: they are closed, 2: everything is flattened
  marked,          \* intraday_signals: the signals of the day that were planned
  opening,         \* intraday_sessions: the day's first equity, 0 when there is none
  reruns, kills

vars == <<orders, position, rows, artifacts, proc, clock, marked, opening, reruns, kills>>

Equity == {1, 2}             \* at or below the loss limit of the level above, or at it

Init ==
  /\ orders = <<>> /\ rows = <<>> /\ artifacts = <<>>
  /\ position \in [Secs -> Holdings]
  /\ proc = [p \in Proc |-> Idle]
  /\ clock = 0 /\ marked = {} /\ opening = 0
  /\ reruns = 0 /\ kills = 0

Kept == UNCHANGED <<clock, marked, opening, reruns, kills>>

--------------------------------------------------------------------------
(* build_intraday_plan().                                                  *)

Held(pos) == {s \in Secs : pos[s] # 0}

\* An order that closes the whole position of s.
Close(pos, s, id, rule) ==
  [id |-> id, sec |-> s, side |-> IF pos[s] > 0 THEN -1 ELSE 1,
   lots |-> IF pos[s] > 0 THEN pos[s] ELSE -pos[s], margin |-> FALSE, rule |-> rule]

\* The orders of a set of instruments by name.
ByName(set) == {f \in SetToSeqs(set) : \A i, j \in DOMAIN f : i < j => f[i] < f[j]}

\* _flatten_orders(): the logical order is the same all day.
FlattenOrders(pos, names) ==
  [i \in DOMAIN names |-> Close(pos, names[i], <<"flat", names[i]>>, "mandatory flat")]

\* _position_exit_orders(): a rule (stop, take, time, an entry that is not
\* found) closes the positions of ruled, a signal against the position the rest.
Exits(pos, ruled, signals) == ruled \cup {s \in Held(pos) : signals[s] * pos[s] < 0}

ExitOrders(pos, names, plan) ==
  [i \in DOMAIN names |-> Close(pos, names[i], <<"exit", names[i], plan>>, "managed exit")]

\* The signals an order may be made of.
Eligible(pos, signals, bar) ==
  {s \in Secs : /\ signals[s] # 0 /\ pos[s] = 0
                /\ signals[s] = -1 => s \in Shortable
                /\ <<s, bar, signals[s]>> \notin marked}

\* The loop over the signals, best first, until the slots or the capital are
\* used up; the last order is of the lots that are left.
Entered(pos, capital, ranking) ==
  {i \in DOMAIN ranking : /\ i <= MaxEntries - Cardinality(marked)
                          /\ i <= MaxPositions - Cardinality(Held(pos))
                          /\ (i - 1) * MaxLots < capital}

EntryOrder(s, side, bar, left) ==
  [id |-> <<"entry", s, bar, side>>, sec |-> s, side |-> side,
   lots |-> IF MaxLots < left THEN MaxLots ELSE left, margin |-> side = -1, rule |-> "entry"]

EntryOrders(pos, signals, bar, capital, ranking) ==
  [i \in Entered(pos, capital, ranking) |->
     EntryOrder(ranking[i], signals[ranking[i]], bar, capital - (i - 1) * MaxLots)]

WritePlan(p, intents, phase) ==
  /\ artifacts' = [artifacts EXCEPT ![proc[p].job].intents = intents,
                                    ![proc[p].job].phase = phase]
  /\ Move(p, "check", Stay)

\* A price or the write fails, or active orders remain: the cycle ends without a plan.
NoPlan(p) == End(p) /\ UNCHANGED artifacts

Plan(p) ==
  /\ At(p, "plan")
  /\ LET pos == Job(p).position IN
     \E equity \in Equity :
       /\ opening' = IF opening = 0 THEN equity ELSE opening
       /\ \/ NoPlan(p) /\ UNCHANGED marked
          \/ /\ clock = 2 \/ equity < opening'
             /\ \E names \in ByName(Held(pos)) :
                  WritePlan(p, FlattenOrders(pos, names), IF clock = 2 THEN "force_flat" ELSE "loss")
             /\ UNCHANGED marked
          \/ /\ clock # 2 /\ ~ equity < opening' /\ Job(p).open = 0
             /\ \E signals \in [Secs -> {-1, 0, 1}], ruled \in SUBSET Held(pos) :
                  LET exits == Exits(pos, ruled, signals) IN
                  \/ /\ exits # {}
                     /\ \E names \in ByName(exits) :
                          WritePlan(p, ExitOrders(pos, names, proc[p].job), "exit")
                     /\ UNCHANGED marked
                  \/ /\ exits = {} /\ clock = 1
                     /\ WritePlan(p, <<>>, "monitor") /\ UNCHANGED marked
                  \/ /\ exits = {} /\ clock = 0
                     /\ \E bar \in Bars, capital \in Capital :
                          \E ranking \in SetToSeqs(Eligible(pos, signals, bar)) :
                            LET plan == EntryOrders(pos, signals, bar, capital, ranking)
                            IN /\ marked' = marked \cup {<<plan[i].sec, bar, plan[i].side>> : i \in DOMAIN plan}
                               /\ WritePlan(p, plan, "entries") \/ NoPlan(p)
  /\ UNCHANGED <<orders, position, rows, clock, reruns, kills>>

--------------------------------------------------------------------------
(* run-intraday-cycle.sh, one step per command it runs or request it sends. *)

\* sandbox-reconcile: the active orders are read.
StartCycle(p) ==
  /\ At(p, "idle") /\ p = Timer /\ Len(artifacts) < MaxCycles
  /\ Move(p, "cancel_active", [todo |-> Active])
  /\ UNCHANGED <<orders, position, rows, artifacts>> /\ Kept

\* Each of them is cancelled; a cancellation that fails ends the cycle.
CancelOne(p) ==
  /\ At(p, "cancel_active")
  /\ \E r \in proc[p].todo :
       \/ CancelActive(r) /\ Move(p, "cancel_active", [todo |-> proc[p].todo \ {r}])
       \/ End(p) /\ UNCHANGED <<orders, position>>
  /\ UNCHANGED <<rows, artifacts>> /\ Kept

\* The list is read again and has to be empty.
VerifyNoneActive(p) ==
  /\ At(p, "cancel_active") /\ proc[p].todo = {}
  /\ \/ Active = {} /\ Move(p, "lookup", Stay)
     \/ End(p)
  /\ UNCHANGED <<orders, position, rows, artifacts>> /\ Kept

\* sandbox-journal-reconcile, and the start of the snapshot: the portfolio is read.
ReconcileJournal(p) ==
  /\ LookupRow(p, IF p = Timer THEN "portfolio" ELSE "idle") \/ RecordFound(p)
  /\ Kept

ReadPortfolio(p) ==
  /\ At(p, "portfolio")
  /\ artifacts' = Append(artifacts, [completed |-> Completed, position |-> position,
       open |-> 0, at |-> clock, intents |-> <<>>, phase |-> "none"])
  /\ Move(p, "orders", [job |-> Len(artifacts) + 1])
  /\ UNCHANGED <<orders, position, rows>> /\ Kept

\* The active orders are read after the portfolio: the two are of different moments.
ReadOrders(p) ==
  /\ At(p, "orders")
  /\ \/ /\ artifacts' = [artifacts EXCEPT ![proc[p].job].open = Cardinality(Active),
                                          ![proc[p].job].at = clock]
        /\ Move(p, "plan", Stay)
     \/ End(p) /\ UNCHANGED artifacts
  /\ UNCHANGED <<orders, position, rows>> /\ Kept

\* intraday-sandbox-execute of the plan the cycle just wrote.
Check(p) ==
  /\ At(p, "check")
  /\ IF Executable(proc[p].job, clock) THEN Begin(p, proc[p].job) ELSE End(p)
  /\ UNCHANGED <<orders, position, rows, artifacts>> /\ Kept

Execute(p) == ExecuteStep(p) /\ Kept

\* An operator executes a written plan again, or only reconciles the journal.
Rerun(p) ==
  /\ At(p, "idle") /\ p = Operator /\ reruns < MaxReruns
  /\ \/ \E a \in DOMAIN artifacts : Executable(a, clock) /\ Begin(p, a)
     \/ Unresolved # {} /\ Move(p, "lookup", Stay)
  /\ reruns' = reruns + 1
  /\ UNCHANGED <<orders, position, rows, artifacts, clock, marked, opening, kills>>

Kill(p) ==
  /\ ~ At(p, "idle") /\ kills < MaxKills
  /\ End(p) /\ kills' = kills + 1
  /\ UNCHANGED <<orders, position, rows, artifacts, clock, marked, opening, reruns>>

Tick ==
  /\ clock < 2 /\ clock' = clock + 1
  /\ UNCHANGED <<orders, position, rows, artifacts, proc, marked, opening, reruns, kills>>

Market == BrokerStep /\ UNCHANGED <<rows, artifacts, proc>> /\ Kept

Step(p) ==
  \/ CancelOne(p) \/ VerifyNoneActive(p) \/ ReconcileJournal(p)
  \/ ReadPortfolio(p) \/ ReadOrders(p) \/ Plan(p) \/ Check(p) \/ Execute(p)

Next ==
  \/ \E p \in Proc : StartCycle(p) \/ Rerun(p) \/ Step(p) \/ Kill(p)
  \/ Tick
  \/ Market

Spec == Init /\ [][Next]_vars

--------------------------------------------------------------------------
(* Properties.                                                             *)

TypeOK ==
  /\ position \in [Secs -> Int]
  /\ Len(rows) = Len(orders)
  /\ \A r \in DOMAIN rows :
       /\ rows[r].status \in Statuses /\ rows[r].filled \in 0 .. rows[r].intent.lots
       /\ orders[r].state \in States /\ orders[r].filled \in 0 .. orders[r].lots
  /\ clock \in 0 .. 2 /\ opening \in {0} \cup Equity
  /\ \A p \in Proc : proc[p].seen.status \in Statuses /\ proc[p].todo \subseteq Request

\* A request is reserved only while no order of the account can still be
\* filled, and the lots projected for its instrument are those the account
\* holds: no plan is executed on a position that has changed since
\* (sandbox_execution.py:129-149, the snapshot and the reservations of two processes).
SizedOnWhatIsHeld ==
  [][ Len(rows') > Len(rows) =>
        /\ \A r \in Request : orders[r].state \notin {"travelling", "new"}
        /\ \E p \in Proc : /\ proc'[p].pc = "post" /\ proc[p].pc = "execute"
                           /\ LET s == Intent(p).sec IN proc[p].projected[s] = position[s] ]_vars

\* A fill of an order that closes a position brings the position nearer to
\* zero, never past it: an exit is not turned into a new exposure by a stale
\* snapshot, a repeated command or a kill (intraday.py, _flatten_orders and
\* _position_exit_order).
ExitsOnlyReduce ==
  [][ \A r \in Request :
        orders'[r].filled > orders[r].filled /\ rows[r].intent.rule # "entry" =>
          LET s == orders[r].sec
          IN position'[s] * position'[s] < position[s] * position[s] ]_vars

\* The day never sees more entry orders than max_entries_per_day, and none for
\* the same signal twice, over all cycles, reruns and kills (intraday.py:410-440).
EntriesAreBounded ==
  LET entries == {r \in DOMAIN rows : rows[r].intent.rule = "entry"}
  IN /\ Cardinality(entries) <= MaxEntries
     /\ \A r, q \in entries : rows[r].intent.id = rows[q].intent.id => r = q

\* A row the journal calls final has the state and the lots the broker has: a
\* cancellation, a time to live or a lost answer is never taken for the end
\* (tinvest_sandbox.py:823-867).
FinalRowsAreTrue ==
  \A r \in Completed : orders[r].state = rows[r].status /\ orders[r].filled = rows[r].filled

\* docs/CONFIG_REFERENCE_RU.md:125 and docs/USER_GUIDE_RU.md:167: from
\* force_flat_moscow on all positions are closed.  A step with which a batch that
\* flattens ends leaves an order sent for every position it found.
EveryPositionIsClosed ==
  \A p \in Proc :
    /\ \/ At(p, "settled")
       \/ At(p, "execute") /\ proc[p].next \notin Batch(proc[p].job)
    /\ proc'[p].pc = "idle" /\ kills' = kills /\ Job(p).phase = "force_flat"
    => \A s \in Held(Job(p).position) :
         \E r \in DOMAIN rows : rows[r].plan = proc[p].job /\ rows[r].intent.sec = s

\* What a plan does to the account is right whoever executes it and whenever:
\* it is sized on what is held, and an exit does not pass zero
\* (sandbox_execution.py:129-149, intraday.py).
PlansFitThePosition == SizedOnWhatIsHeld /\ ExitsOnlyReduce

\* The journal and the limits of the day hold over all its commands
\* (tinvest_sandbox.py:823-867, intraday.py:410-440).
DayIsInOrder == TypeOK /\ EntriesAreBounded /\ FinalRowsAreTrue
==============================================================================
