----------------------------- MODULE ProdLongOnce -----------------------------
(***************************************************************************)
(* The single-use LONG of the production account: run_once() and           *)
(* recover_stop_only() of prod_long_once.py, with the supervised entry     *)
(* (supervised_execution.py, live_execution.py) and the protection journal *)
(* (live_protection.py) they call.                                         *)
(*                                                                         *)
(* Two SQLite journals, that backups copy and restore as a pair, say how   *)
(* far the trade is.  Files in a directory of their own, created           *)
(* exclusively and synced before the request they announce, say what was   *)
(* claimed and sent.  Commands, backups and restorations exclude each      *)
(* other (production_session); `live_operator reconcile` does not.         *)
(*                                                                         *)
(* A gate that is not modelled (grant, limits, market, time) may fail      *)
(* whenever it is evaluated: that is Raise, Refuse, or the step the code   *)
(* has for it.                                                             *)
(***************************************************************************)
EXTENDS OneShotBroker

CONSTANTS
  NoCandidate,
  MaxPolls         \* bound: lookups before wait_seconds are over

ASSUME PollsAssumption == MaxPolls \in Nat \ {0}
ASSUME NoCandidateAssumption == NoCandidate \notin Candidates

VARIABLES
  claim,       \* the candidate in claim.json, or NoCandidate
  fences,      \* the other files of the claim directory
  ledger,      \* the rows of the execution journal
  protection,  \* the rows of the protection journal
  backup,      \* the copy of both that a backup holds
  process,     \* the command that holds the session lock, and where it is
  reading      \* the answer `reconcile` is about to record

once_vars == <<claim, fences, ledger, protection, backup, process, reading>>
vars == <<broker_vars, once_vars>>

MaybeCandidate == Candidates \cup {NoCandidate}
TERMINAL == {"filled", "cancelled", "rejected"}
Pending == {"request_pending", "unknown", "accepted"}
Statuses == {"absent"} \cup Pending \cup TERMINAL

Fences == {"buy-dispatch", "stop-dispatch", "cancel-dispatch", "result"}

(* UNVERIFIED is an UNKNOWN row that has the id of its stop.               *)
Protections == {"absent", "PLANNED", "POST_PENDING", "UNKNOWN", "UNVERIFIED", "ACTIVE"}

Places ==    \* where a command can be: between two of its reads, writes or sends
  {"idle", "preflight", "claim", "prepare", "reserve", "gate", "buy_fence", "buy",
   "submitted", "record", "parent", "poll", "cancel_fence", "cancel", "cancelling",
   "cancelled", "record_final", "decide", "activate", "stop_gate", "stop_fence",
   "stop", "stop_posted", "reconcile", "finish", "failed"}

NotInTry == {"idle", "preflight", "claim"}

NoCommand == [command |-> "none", pc |-> "idle", candidate |-> NoCandidate,
              seen |-> "absent", polls |-> 0]
NoReading == [candidate |-> NoCandidate, status |-> "absent"]

NoRows == [ledger |-> [c \in Candidates |-> "absent"],
           protection |-> [c \in Candidates |-> "absent"]]

TypeOK ==
  /\ BrokerTypeOK
  /\ claim \in MaybeCandidate
  /\ fences \subseteq Fences
  /\ ledger \in [Candidates -> Statuses]
  /\ protection \in [Candidates -> Protections]
  /\ backup \in [ledger : [Candidates -> Statuses], protection : [Candidates -> Protections]]
  /\ process \in [command : {"none", "run", "recover"}, pc : Places,
                  candidate : MaybeCandidate, seen : Statuses, polls : 0..MaxPolls]
  /\ reading \in [candidate : MaybeCandidate, status : Statuses]

------------------------------------------------------------------------------
At(pc) == process.pc = pc
Goto(pc) == process' = [process EXCEPT !.pc = pc]
Return == process' = NoCommand
See(seen, pc) == process' = [process EXCEPT !.seen = seen, !.pc = pc]
Start(command, c, pc) ==
  process' = [command |-> command, pc |-> pc, candidate |-> c,
              seen |-> "absent", polls |-> 0]

me == process.candidate
Placed == order[me] # "none"
Recorded(status) == ledger' = [ledger EXCEPT ![me] = status]
Protection(state) == protection' = [protection EXCEPT ![me] = state]

Recordable(c, status) == ledger[c] \in Pending \/ ledger[c] = status
Unresolved == {c \in Candidates : ledger[c] \in Pending}

(* Claim.dispatch(): the claim is checked, and the file is created only    *)
(* where there is none.                                                    *)
dispatch(name) ==
  /\ claim = me
  /\ name \notin fences
  /\ fences' = fences \cup {name}

(* An exception inside the try of run_once() leaves a result, one outside  *)
(* it, or in recover_stop_only(), nothing; neither does a kill.            *)

Raise ==
  /\ process.command = "run" /\ process.pc \notin NotInTry
  /\ ~ At("stop_gate") /\ ~ At("stop_fence") /\ ~ At("stop_posted")
  /\ fences' = fences \cup {"result"}
  /\ Return
  /\ UNCHANGED <<broker_vars, claim, ledger, protection, backup, reading>>

Kill ==
  /\ ~ At("idle")
  /\ Return
  /\ UNCHANGED <<broker_vars, claim, fences, ledger, protection, backup, reading>>

------------------------------------------------------------------------------
(* run_once() up to the claim, under the lock.                             *)
Run(c) ==
  /\ At("idle")
  /\ claim = NoCandidate /\ fences = {}
  /\ ledger = NoRows.ledger
  /\ Start("run", c, "preflight")
  /\ UNCHANGED <<broker_vars, claim, fences, ledger, protection, backup, reading>>

(* capture(): no position in the instrument, no active order, no stop.     *)
captured == ~ Holds(me) /\ ~ ActiveOrders /\ stop[me] # "active"

Preflight ==
  /\ At("preflight") /\ captured /\ Goto("claim")
  /\ UNCHANGED <<broker_vars, claim, fences, ledger, protection, backup, reading>>

CreateClaim ==
  /\ At("claim")
  /\ claim' = me
  /\ Goto("prepare")
  /\ UNCHANGED <<broker_vars, fences, ledger, protection, backup, reading>>

------------------------------------------------------------------------------
(* run_supervised_entry(), execute_live_intent() and OnceBroker.           *)
Prepare ==
  /\ At("prepare")
  /\ \/ protection[me] # "absent" /\ UNCHANGED protection
     \/ protection = NoRows.protection /\ Protection("PLANNED")
  /\ Goto("reserve")
  /\ UNCHANGED <<broker_vars, claim, fences, ledger, backup, reading>>

Reserve ==
  /\ At("reserve")
  /\ Unresolved = {} /\ ledger[me] = "absent"
  /\ captured /\ claim = me
  /\ Recorded("request_pending")
  /\ Goto("gate")
  /\ UNCHANGED <<broker_vars, claim, fences, protection, backup, reading>>

NotSubmitted ==
  /\ At("gate")
  /\ Recordable(me, "rejected")
  /\ Recorded("rejected")
  /\ Goto("failed")
  /\ UNCHANGED <<broker_vars, claim, fences, protection, backup, reading>>

GatePassed ==
  /\ At("gate")
  /\ protection[me] = "PLANNED"
  /\ Goto("buy_fence")
  /\ UNCHANGED <<broker_vars, claim, fences, ledger, protection, backup, reading>>

BuyFenceUnsynced ==             \* mutant: the fence does not reach the disk
  /\ At("buy_fence")
  /\ claim = me /\ "buy-dispatch" \notin fences
  /\ Goto("buy")
  /\ UNCHANGED <<broker_vars, claim, fences, ledger, protection, backup, reading>>

BuyFence ==
  /\ At("buy_fence")
  /\ dispatch("buy-dispatch")
  /\ Goto("buy")
  /\ UNCHANGED <<broker_vars, claim, ledger, protection, backup, reading>>

Submit ==
  /\ At("buy")
  /\ Send("buy", me)
  /\ Goto("submitted")
  /\ UNCHANGED <<claim, fences, ledger, protection, backup, reading>>

------------------------------------------------------------------------------
(* ... from the answer of the BUY to its end.                              *)
Lookup(from, to) ==
  /\ At(from)
  /\ Placed
  /\ See(Decoded(me), to)
  /\ UNCHANGED <<broker_vars, claim, fences, ledger, protection, backup, reading>>

LookupSubmitted == Lookup("submitted", "record")
LookupFinal == Lookup("cancelled", "record_final")

AfterRecord ==
  CASE At("record_final") -> "decide"
    [] At("record") /\ process.polls = 0 -> "parent"
    [] OTHER -> IF process.seen \in TERMINAL THEN "decide" ELSE "poll"

RecordSeen ==
  /\ At("record") \/ At("record_final")
  /\ Recordable(me, process.seen)
  /\ Recorded(process.seen)
  /\ Goto(AfterRecord)
  /\ UNCHANGED <<broker_vars, claim, fences, protection, backup, reading>>

ReadParent ==
  /\ At("parent")
  /\ See(ledger[me], IF ledger[me] \in TERMINAL THEN "decide" ELSE "poll")
  /\ UNCHANGED <<broker_vars, claim, fences, ledger, protection, backup, reading>>

PollForever ==                  \* mutant: there is no deadline
  /\ At("poll")
  /\ Placed
  /\ See(Decoded(me), "record")
  /\ UNCHANGED <<broker_vars, claim, fences, ledger, protection, backup, reading>>

Poll ==
  /\ At("poll")
  /\ process.polls < MaxPolls
  /\ Placed
  /\ process' = [process EXCEPT !.pc = "record", !.seen = Decoded(me), !.polls = @ + 1]
  /\ UNCHANGED <<broker_vars, claim, fences, ledger, protection, backup, reading>>

WaitIsOver ==
  /\ At("poll")
  /\ Goto("cancel_fence")
  /\ UNCHANGED <<broker_vars, claim, fences, ledger, protection, backup, reading>>

CancelFence ==
  /\ At("cancel_fence")
  /\ dispatch("cancel-dispatch")
  /\ Goto("cancel")
  /\ UNCHANGED <<broker_vars, claim, ledger, protection, backup, reading>>

Cancel ==                       \* unless a fresh lookup finds that the order ended
  /\ At("cancel")
  /\ Placed
  /\ IF Decoded(me) \in TERMINAL
     THEN Goto("cancelled") /\ UNCHANGED broker_vars
     ELSE Goto("cancelling") /\ Send("cancel", me)
  /\ UNCHANGED <<claim, fences, ledger, protection, backup, reading>>

CancelTrusted ==                \* mutant: the acknowledgement is taken for the outcome
  /\ At("cancelling")
  /\ Arrived("cancel", me)
  /\ See("cancelled", "record_final")
  /\ UNCHANGED <<broker_vars, claim, fences, ledger, protection, backup, reading>>

CancelAnswered ==
  /\ At("cancelling")
  /\ Arrived("cancel", me)
  /\ Goto("cancelled")
  /\ UNCHANGED <<broker_vars, claim, fences, ledger, protection, backup, reading>>

NotFilled ==
  /\ At("decide") /\ process.seen \in {"cancelled", "rejected"}
  /\ Goto("finish")
  /\ UNCHANGED <<broker_vars, claim, fences, ledger, protection, backup, reading>>

Filled ==
  /\ At("decide") /\ process.seen = "filled"
  /\ Goto("activate")
  /\ UNCHANGED <<broker_vars, claim, fences, ledger, protection, backup, reading>>

------------------------------------------------------------------------------
(* recover_stop_only(), and activate() with reconcile().                   *)
Recoverable(c) ==
  /\ claim = c
  /\ "buy-dispatch" \in fences /\ "stop-dispatch" \notin fences
  /\ protection[c] = "PLANNED"
  /\ ledger[c] = "filled" /\ order[c] = "fill"

Recover(c) ==
  /\ At("idle")
  /\ Recoverable(c)
  /\ Start("recover", c, "activate")
  /\ UNCHANGED <<broker_vars, claim, fences, ledger, protection, backup, reading>>

ReserveStop ==
  /\ At("activate")
  /\ protection[me] = "PLANNED" /\ ledger[me] = "filled"
  /\ Holds(me) /\ stop[me] \notin {"active", "triggered"}
  /\ Protection("POST_PENDING")
  /\ Goto(IF process.command = "run" THEN "stop_gate" ELSE "stop_fence")
  /\ UNCHANGED <<broker_vars, claim, fences, ledger, backup, reading>>

(* GuardedProtectionBroker, which the recovery does without: a gate that   *)
(* fails here proves that nothing was sent ...                             *)
StopNotDispatched ==
  /\ At("stop_gate")
  /\ protection[me] = "POST_PENDING"
  /\ Protection("PLANNED")
  /\ Goto("failed")
  /\ UNCHANGED <<broker_vars, claim, fences, ledger, backup, reading>>

StopGatePassed ==
  /\ At("stop_gate")
  /\ Goto("stop_fence")
  /\ UNCHANGED <<broker_vars, claim, fences, ledger, protection, backup, reading>>

(* ... and one that fails in OnceProtection, or an answer that is lost,    *)
(* does not.                                                               *)
StopFence ==
  /\ At("stop_fence")
  /\ dispatch("stop-dispatch")
  /\ Goto("stop")
  /\ UNCHANGED <<broker_vars, claim, ledger, protection, backup, reading>>

PostStop ==
  /\ At("stop")
  /\ Send("stop", me)
  /\ Goto("stop_posted")
  /\ UNCHANGED <<claim, fences, ledger, protection, backup, reading>>

StopUnknown ==
  /\ At("stop_fence") \/ At("stop") \/ At("stop_posted")
  /\ Protection("UNKNOWN")
  /\ Goto("failed")
  /\ UNCHANGED <<broker_vars, claim, fences, ledger, backup, reading>>

StopAnswered ==
  /\ At("stop_posted")
  /\ Arrived("stop", me) /\ stop[me] # "none"
  /\ Protection("UNVERIFIED")
  /\ Goto("reconcile")
  /\ UNCHANGED <<broker_vars, claim, fences, ledger, backup, reading>>

StopVerified ==
  /\ At("reconcile")
  /\ stop[me] = "active"
  /\ Protection("ACTIVE")
  /\ IF process.command = "run" THEN Goto("finish") ELSE Return
  /\ UNCHANGED <<broker_vars, claim, fences, ledger, backup, reading>>

Finish ==
  /\ At("finish")
  /\ fences' = fences \cup {"result"}
  /\ Return
  /\ UNCHANGED <<broker_vars, claim, ledger, protection, backup, reading>>

------------------------------------------------------------------------------
(* What can befall the state of the bot while no command runs.  Of the     *)
(* backups there is one that may be recent, and the one of the enrolment.  *)
Backup ==
  /\ At("idle")
  /\ backup' = [ledger |-> ledger, protection |-> protection]
  /\ UNCHANGED <<broker_vars, claim, fences, ledger, protection, process, reading>>

Restore ==
  /\ At("idle")
  /\ \E rows \in {backup, NoRows} :
       ledger' = rows.ledger /\ protection' = rows.protection
  /\ UNCHANGED <<broker_vars, claim, fences, backup, process, reading>>

ClaimLost ==                    \* claim.json alone, the fences beside it stay
  /\ At("idle")
  /\ claim # NoCandidate
  /\ claim' = NoCandidate
  /\ UNCHANGED <<broker_vars, fences, ledger, protection, backup, process, reading>>

------------------------------------------------------------------------------
(* `live_operator reconcile`: reconcile_live_journal(), without the lock.  *)
ReconcileLookup(c) ==
  /\ reading = NoReading
  /\ ledger[c] \in Pending
  /\ \E status \in {"unknown"} \cup (IF order[c] = "none" THEN {} ELSE {Decoded(c)}) :
       reading' = [candidate |-> c, status |-> status]
  /\ UNCHANGED <<broker_vars, claim, fences, ledger, protection, backup, process>>

ReconcileRecord ==
  /\ reading # NoReading
  /\ ledger' = IF Recordable(reading.candidate, reading.status)
               THEN [ledger EXCEPT ![reading.candidate] = reading.status] ELSE ledger
  /\ reading' = NoReading
  /\ UNCHANGED <<broker_vars, claim, fences, protection, backup, process>>

Outside == Broker /\ UNCHANGED once_vars

------------------------------------------------------------------------------
Init ==
  /\ BrokerInit
  /\ claim = NoCandidate /\ fences = {}
  /\ ledger = NoRows.ledger /\ protection = NoRows.protection /\ backup = NoRows
  /\ process = NoCommand /\ reading = NoReading

Command ==
  \/ Preflight \/ CreateClaim \/ Prepare \/ Reserve \/ NotSubmitted \/ GatePassed
  \/ BuyFence \/ Submit \/ LookupSubmitted \/ RecordSeen \/ ReadParent \/ Poll
  \/ WaitIsOver \/ CancelFence \/ Cancel \/ CancelAnswered \/ LookupFinal
  \/ NotFilled \/ Filled \/ ReserveStop \/ StopNotDispatched \/ StopGatePassed
  \/ StopFence \/ PostStop \/ StopUnknown \/ StopAnswered \/ StopVerified \/ Finish
  \/ Raise \/ Kill

Next ==
  \/ \E c \in Candidates : Run(c) \/ Recover(c) \/ ReconcileLookup(c)
  \/ Command \/ ReconcileRecord
  \/ Backup \/ Restore \/ ClaimLost
  \/ Outside

Spec == Init /\ [][Next]_vars
FairSpec == Spec /\ WF_vars(Command)

------------------------------------------------------------------------------
(* Whatever is killed, restored and lost in between, one BUY is sent, and  *)
(* one stop and one cancellation for it (docs/PROD_LONG_ONCE_RU.md: "any   *)
(* existing claim forbids a new purchase").                                *)
OneOfEach ==
  /\ \A r \in Requests : sent[r] <= 1
  /\ \A kind \in Kinds : \A c, d \in Candidates :
       sent[<<kind, c>>] > 0 /\ sent[<<kind, d>>] > 0 => c = d

(* What the journals say of the broker is so, also when a backup brought   *)
(* them back.                                                              *)
JournalsAreTrue ==
  \A c \in Candidates :
    /\ ledger[c] \in {"filled", "cancelled"} => Decoded(c) = ledger[c]
    /\ protection[c] \in {"UNVERIFIED", "ACTIVE"} => stop[c] # "none"
    /\ Recoverable(c) => stop[c] = "none" /\ sent[<<"stop", c>>] = 0

(* One attempt, and two journals that know how far it came, also when a    *)
(* backup brought them back (prod_long_once.py:298-420).                   *)
AttemptIsSafe == TypeOK /\ OneOfEach /\ JournalsAreTrue

(* The module implements the one attempt that the runner promises: here it *)
(* is spent by the fence of the BUY, which outlives the claim.             *)
Total(kind) ==
  IF \A c \in Candidates : sent[<<kind, c>>] = 0 THEN 0
  ELSE IF \E c \in Candidates :
            \A d \in Candidates : sent[<<kind, d>>] = IF d = c THEN 1 ELSE 0
       THEN 1 ELSE 2

attempt ==
  IF "buy-dispatch" \notin fences THEN "armed"
  ELSE IF At("buy") THEN "trying" ELSE "spent"

filled == \E c \in Candidates : order[c] = "fill"

OneAttempt == INSTANCE OneShot WITH
  attempt <- attempt, buys <- Total("buy"), filled <- filled, stops <- Total("stop")

OneAttemptSpec == OneAttempt!Spec

(* Every command ends, and with it the session lock, which keeps backups   *)
(* and deployments out.                                                    *)
CommandEnds == ~ At("idle") ~> At("idle")
==============================================================================
