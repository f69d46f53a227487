--------------------------- MODULE ProdOnceObserver ---------------------------
(***************************************************************************)
(* observe() of prod_once_observer.py beside the trade of ProdLongOnce: it *)
(* holds no lock and writes nothing, and reads one thing after another     *)
(* (control files, journals, order, positions, stops, active orders) while *)
(* the runner, the recovery, `reconcile`, a restoration and the broker go  *)
(* on.  What it reports as OK wakes nobody up.                             *)
(***************************************************************************)
EXTENDS ProdLongOnce

VARIABLES
  observer,  \* where the observation is, and what it has read
  moments    \* of an observation: how the trade stood while it was going on

observer_vars == <<observer, moments>>

Unclaimed == "WAITING_SIGNAL"      \* or NOT_ENROLLED, or DISABLED: all OK
Told == {"untouched", "unfilled", "protected", "flat"}
OK == {Unclaimed, "NO_FILL", "FLAT_EXIT_UNATTRIBUTED", "PROTECTED"}

NoObservation == [pc |-> "idle", candidate |-> NoCandidate, id |-> "none",
                  seen |-> "absent", holding |-> "none", stop |-> "none"]

ObserverTypeOK ==
  /\ TypeOK
  /\ observer \in
       [pc : {"idle", "durable", "journals", "lookup", "positions", "stops", "orders", "FAIL"}
               \cup OK,
        candidate : MaybeCandidate, id : {"none", "known"}, seen : Statuses,
        holding : {"none", "free"}, stop : {"none", "own"}]
  /\ moments \subseteq Told

------------------------------------------------------------------------------
Observing(pc) == observer.pc = pc
mine == observer.candidate
Step(pc) == observer' = [observer EXCEPT !.pc = pc]
Report(pc) == observer' = [NoObservation EXCEPT !.pc = pc]

(* The control files, first.                                               *)

Control ==
  /\ Observing("idle")
  /\ observer' = [NoObservation EXCEPT !.candidate = claim,
                    !.pc = IF claim = NoCandidate
                           THEN IF fences = {} THEN "durable" ELSE "FAIL"
                           ELSE IF "buy-dispatch" \in fences THEN "journals" ELSE "FAIL"]

has_durable_attempt == ledger # NoRows.ledger \/ protection # NoRows.protection

Durable ==                      \* no claim may hide a row that survives
  /\ Observing("durable")
  /\ Report(IF has_durable_attempt THEN "FAIL" ELSE Unclaimed)

JournalRows ==
  /\ Observing("journals")
  /\ IF ledger[mine] = "absent" \/ protection[mine] = "absent" THEN Report("FAIL")
     ELSE observer' = [observer EXCEPT !.pc = "lookup",
            !.id = IF protection[mine] \in {"UNVERIFIED", "ACTIVE"} THEN "known" ELSE "none"]

(* A reading that no later one can make good is the end of it: the others  *)
(* are only made, and change nothing.                                      *)

LookupParent ==
  /\ Observing("lookup")
  /\ IF Decoded(mine) \notin TERMINAL THEN Report("FAIL")
     ELSE observer' = [observer EXCEPT !.pc = "positions", !.seen = Decoded(mine)]

Positions ==
  /\ Observing("positions")
  /\ IF stop[mine] = "triggered" THEN Report("FAIL")          \* the lot is blocked
     ELSE observer' = [observer EXCEPT !.pc = "stops",
                         !.holding = IF Holds(mine) THEN "free" ELSE "none"]

Stops ==
  /\ Observing("stops")
  /\ IF stop[mine] = "active" /\ observer.id = "none" THEN Report("FAIL")   \* not its own
     ELSE observer' = [observer EXCEPT !.pc = "orders",
                         !.stop = IF stop[mine] = "active" THEN "own" ELSE "none"]

pending == order[mine] = "new" \/ stop[mine] = "triggered"

VerdictByRow ==                 \* mutant: the id in the journal stands for the stop
  CASE observer.seen \in {"cancelled", "rejected"} -> "NO_FILL"
    [] observer.seen = "filled" /\ observer.holding = "none" -> "FLAT_EXIT_UNATTRIBUTED"
    [] observer.seen = "filled" /\ observer.holding = "free" /\ observer.id = "known" ->
         "PROTECTED"
    [] OTHER -> "FAIL"

Verdict ==
  CASE observer.seen \in {"cancelled", "rejected"}
         /\ observer.holding = "none" /\ observer.stop = "none" /\ ~ pending -> "NO_FILL"
    [] observer.seen = "filled"
         /\ observer.holding = "none" /\ observer.stop = "none" /\ ~ pending ->
         "FLAT_EXIT_UNATTRIBUTED"
    [] observer.seen = "filled" /\ observer.holding = "free" /\ ~ pending
         /\ observer.stop = "own" /\ "stop-dispatch" \in fences -> "PROTECTED"
    [] OTHER -> "FAIL"

Orders == Observing("orders") /\ Report(Verdict)

(* A read that fails, or the report that is written: the next one starts   *)
(* from nothing.                                                           *)
Over == ~ Observing("idle") /\ observer' = NoObservation

Observe ==
  \/ Control \/ Durable \/ JournalRows \/ LookupParent \/ Positions \/ Stops \/ Orders \/ Over

------------------------------------------------------------------------------
(* How the trade stands; there is one BUY at most (OneOfEach).  A report   *)
(* tells of the moments in which nothing is under way.                     *)
Bought == {c \in Candidates : sent[<<"buy", c>>] > 0}

Moment ==
  IF Bought = {} THEN "untouched"
  ELSE LET c == CHOOSE c \in Bought : TRUE IN
       CASE order[c] \in {"none", "new"} -> "open"
         [] order[c] \in {"cancelled", "rejected"} -> "unfilled"
         [] order[c] = "fill" /\ stop[c] = "active" -> "protected"
         [] order[c] = "fill" /\ stop[c] = "executed" -> "flat"
         [] OTHER -> "exposed"

(* The moments count from the first read to the report, and for no alarm.  *)
Remember ==
  moments' = CASE observer'.pc \in {"idle", "FAIL"} -> {}
               [] observer.pc \in OK /\ observer'.pc \in OK -> moments
               [] OTHER -> moments \cup (Told \cap {Moment'})

ObservedInit == Init /\ observer = NoObservation /\ moments = {}

ObservedNext ==
  \/ Next /\ UNCHANGED observer /\ Remember
  \/ Observe /\ UNCHANGED vars /\ Remember

ObservedSpec == ObservedInit /\ [][ObservedNext]_<<vars, observer_vars>>

------------------------------------------------------------------------------
(* Its reads are made at different times, and yet a report that wakes      *)
(* nobody up describes the trade as it stood at one moment while it was    *)
(* made: it never puts together a position of then and a stop of now into  *)
(* a state there never was (prod_once_observer.py:85, "fail-closed").      *)
ReportIsAMoment ==
  /\ Observing("NO_FILL") => "unfilled" \in moments
  /\ Observing("PROTECTED") => "protected" \in moments
  /\ Observing("FLAT_EXIT_UNATTRIBUTED") => "flat" \in moments

(* A trade whose claim or journals are lost is never taken for no trade    *)
(* (prod_once_observer.py:42, "must not hide a surviving ... entry").      *)
LostEvidenceIsReported == Observing(Unclaimed) => "untouched" \in moments

(* A report that wakes nobody up is true of the trade, the one that says   *)
(* that there is none included.                                            *)
ReportIsTrue == ObserverTypeOK /\ ReportIsAMoment /\ LostEvidenceIsReported
==============================================================================
