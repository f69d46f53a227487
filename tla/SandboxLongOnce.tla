---------------------------- MODULE SandboxLongOnce ----------------------------
(***************************************************************************)
(* The single-use LONG of the sandbox (long_auto_once.py), with its broker *)
(* (long_auto_sandbox.py) and the commands of long_auto_operator.py.       *)
(*                                                                         *)
(* One SQLite row says how far the attempt is.  Two files outside the      *)
(* state directory, created exclusively and never removed, survive a loss  *)
(* or a restoration of that row: the claim anchor and the stop-dispatch    *)
(* fence.  The commands that write exclude each other and backups          *)
(* (writer_lock); a database is lost or restored only while none runs.     *)
(* `status` and `reconcile` write nothing.                                 *)
(***************************************************************************)
EXTENDS OneShotBroker

CONSTANTS
  NoCandidate,
  MaxPolls         \* bound: readings of a pending entry, `polls` in the code

ASSUME PollsAssumption == MaxPolls \in Nat \ {0}
ASSUME NoCandidateAssumption == NoCandidate \notin Candidates

VARIABLES
  ledger,    \* the SQLite file and its one row
  backup,    \* the copy of it that a backup holds
  anchor,    \* the candidate in the claim anchor, or NoCandidate
  fence,     \* the stop-dispatch fence exists
  process    \* the command that holds the writer lock, and where it is

once_vars == <<ledger, backup, anchor, fence, process>>
vars == <<broker_vars, once_vars>>

MaybeCandidate == Candidates \cup {NoCandidate}
ENDED == {"filled", "cancelled", "rejected"}
TERMINAL == {"FILLED_PROTECTED", "ENTRY_NOT_FILLED"}
DISPATCHED == {"STOP_PENDING", "FILLED_PROTECTED", "QUARANTINED"}
Claimed == {"CLAIMED", "ENTRY_OBSERVED", "CANCEL_PENDING"} \cup TERMINAL \cup DISPATCHED
Entries == {"none", "accepted"} \cup ENDED   \* the order record in the row

(* No file; a file that init did not finish; no row yet; the row.          *)
Ledgers ==
  [state : {"missing", "unfinished", "WAITING"}, candidate : {NoCandidate}, entry : {"none"}]
    \cup [state : Claimed, candidate : Candidates, entry : Entries]

NoRow(state) == [state |-> state, candidate |-> NoCandidate, entry |-> "none"]

Places ==    \* where a command can be: between two of its reads, writes or sends
  {"idle", "init", "preflight", "claim", "anchor", "submit_preflight", "submit",
   "submitted", "observed", "lookup", "poll", "cancel_pending", "cancel_lookup",
   "cancel", "cancelling", "final", "decide", "protect", "fence", "stop",
   "stop_posted", "verified"}

NotInTry == {"idle", "init", "preflight", "claim", "anchor"}

NoCommand == [pc |-> "idle", candidate |-> NoCandidate, seen |-> "none", polls |-> 0]

TypeOK ==
  /\ BrokerTypeOK
  /\ ledger \in Ledgers /\ backup \in Ledgers
  /\ anchor \in MaybeCandidate
  /\ fence \in BOOLEAN
  /\ process \in [pc : Places, candidate : MaybeCandidate, seen : Entries, polls : 0..MaxPolls]

------------------------------------------------------------------------------
(* OnceLedger: opening it checks the file, and the row against the files   *)
(* that survive it.                                                        *)
_check_anchor ==
  IF ledger.state \notin Claimed
  THEN anchor = NoCandidate
  ELSE anchor = ledger.candidate /\ (fence => ledger.state \in DISPATCHED)

Opens == ledger.state \notin {"missing", "unfinished"} /\ _check_anchor

mutation_guard == Opens /\ ledger.state # "WAITING"

Recorded(state) == ledger' = [ledger EXCEPT !.state = state]
Observed(state) == ledger' = [ledger EXCEPT !.state = state, !.entry = process.seen]

At(pc) == process.pc = pc
Goto(pc) == process' = [process EXCEPT !.pc = pc]
See(seen, pc) == process' = [process EXCEPT !.seen = seen, !.pc = pc]
Return == process' = NoCommand

(* An exception inside the try of a command quarantines the attempt; a     *)
(* kill, or an exception outside, leaves what is written.                  *)
Raise ==
  /\ process.pc \notin NotInTry
  /\ Recorded("QUARANTINED")
  /\ Return
  /\ UNCHANGED <<broker_vars, backup, anchor, fence>>

Kill ==
  /\ ~ At("idle")
  /\ Return
  /\ UNCHANGED <<broker_vars, ledger, backup, anchor, fence>>

------------------------------------------------------------------------------
(* init-sandbox.                                                           *)
InitCreates ==
  /\ At("idle")
  /\ anchor = NoCandidate /\ ledger.state = "missing"
  /\ ledger' = NoRow("unfinished")
  /\ Goto("init")
  /\ UNCHANGED <<broker_vars, backup, anchor, fence>>

InitFills ==
  /\ At("init")
  /\ ledger' = NoRow("WAITING")
  /\ Return
  /\ UNCHANGED <<broker_vars, backup, anchor, fence>>

------------------------------------------------------------------------------
(* sandbox-cycle: _run_sandbox_candidate() up to the BUY.                  *)

Run(c) ==
  /\ At("idle")
  /\ Opens /\ ledger.state = "WAITING"
  /\ process' = [NoCommand EXCEPT !.pc = "preflight", !.candidate = c]
  /\ UNCHANGED <<broker_vars, ledger, backup, anchor, fence>>

preflight ==
  LET c == process.candidate IN ~ Holds(c) /\ ~ ActiveOrders /\ stop[c] # "active"

Preflight ==
  /\ At("preflight") /\ preflight /\ Goto("claim")
  /\ UNCHANGED <<broker_vars, ledger, backup, anchor, fence>>

Claim ==
  /\ At("claim")
  /\ ledger.state = "WAITING"
  /\ ledger' = [state |-> "CLAIMED", candidate |-> process.candidate, entry |-> "none"]
  /\ Goto("anchor")
  /\ UNCHANGED <<broker_vars, backup, anchor, fence>>

Anchor ==
  /\ At("anchor")
  /\ anchor = NoCandidate
  /\ anchor' = process.candidate
  /\ Goto("submit_preflight")
  /\ UNCHANGED <<broker_vars, ledger, backup, fence>>

SubmitPreflight ==
  /\ At("submit_preflight") /\ preflight /\ Goto("submit")
  /\ UNCHANGED <<broker_vars, ledger, backup, anchor, fence>>

Submit ==
  /\ At("submit")
  /\ mutation_guard
  /\ Send("buy", process.candidate)
  /\ Goto("submitted")
  /\ UNCHANGED <<ledger, backup, anchor, fence>>

------------------------------------------------------------------------------
(* ... from the answer of the BUY to its end.                              *)
Placed == order[process.candidate] # "none"

SubmitAnswered ==
  /\ At("submitted")
  /\ Arrived("buy", process.candidate) /\ Placed
  /\ See(Decoded(process.candidate), "observed")
  /\ UNCHANGED <<broker_vars, ledger, backup, anchor, fence>>

EntryObserved ==
  /\ At("observed")
  /\ Observed("ENTRY_OBSERVED")
  /\ Goto("lookup")
  /\ UNCHANGED <<broker_vars, backup, anchor, fence>>

Lookup ==
  /\ At("lookup") /\ Placed
  /\ LET seen == Decoded(process.candidate) IN
       See(seen, IF process.polls < MaxPolls THEN "poll"
                 ELSE IF seen \in ENDED THEN "final" ELSE "cancel_pending")
  /\ UNCHANGED <<broker_vars, ledger, backup, anchor, fence>>

PollForever ==                  \* mutant: the readings are not counted
  /\ At("poll")
  /\ Observed("ENTRY_OBSERVED")
  /\ Goto(IF process.seen \in ENDED THEN "final" ELSE "lookup")
  /\ UNCHANGED <<broker_vars, backup, anchor, fence>>

Poll ==
  /\ At("poll")
  /\ Observed("ENTRY_OBSERVED")
  /\ process' = [process EXCEPT !.pc = IF process.seen \in ENDED THEN "final" ELSE "lookup",
                                !.polls = @ + 1]
  /\ UNCHANGED <<broker_vars, backup, anchor, fence>>

CancelPending ==
  /\ At("cancel_pending")
  /\ Observed("CANCEL_PENDING")
  /\ Goto("cancel_lookup")
  /\ UNCHANGED <<broker_vars, backup, anchor, fence>>

(* cancel_unfilled_verified().                                             *)
CancelLookup ==
  /\ At("cancel_lookup") /\ Placed
  /\ LET seen == Decoded(process.candidate) IN
       See(seen, IF seen \in ENDED THEN "final" ELSE "cancel")
  /\ UNCHANGED <<broker_vars, ledger, backup, anchor, fence>>

Cancel ==
  /\ At("cancel")
  /\ mutation_guard
  /\ Send("cancel", process.candidate)
  /\ Goto("cancelling")
  /\ UNCHANGED <<ledger, backup, anchor, fence>>

CancelTrusted ==                \* mutant: the acknowledgement is taken for the outcome
  /\ At("cancelling")
  /\ Arrived("cancel", process.candidate)
  /\ See("cancelled", "final")
  /\ UNCHANGED <<broker_vars, ledger, backup, anchor, fence>>

CancelVerified ==
  /\ At("cancelling")
  /\ Arrived("cancel", process.candidate)
  /\ Decoded(process.candidate) \in {"cancelled", "filled"}
  /\ See(Decoded(process.candidate), "final")
  /\ UNCHANGED <<broker_vars, ledger, backup, anchor, fence>>

Final ==
  /\ At("final")
  /\ Observed("ENTRY_OBSERVED")
  /\ Goto("decide")
  /\ UNCHANGED <<broker_vars, backup, anchor, fence>>

EntryNotFilled ==
  /\ At("decide") /\ process.seen \in {"cancelled", "rejected"}
  /\ Observed("ENTRY_NOT_FILLED")
  /\ Return
  /\ UNCHANGED <<broker_vars, backup, anchor, fence>>

StopPending ==
  /\ At("decide") /\ process.seen = "filled"
  /\ Observed("STOP_PENDING")
  /\ Goto("protect")
  /\ UNCHANGED <<broker_vars, backup, anchor, fence>>

------------------------------------------------------------------------------
(* protect(), and the recovery that leads to it.                           *)
RecoverAny ==                   \* mutant: recovers what a previous command left undecided
  ledger.state \in {"ENTRY_OBSERVED", "STOP_PENDING"} /\ ledger.entry = "filled"

Recoverable == ledger.state = "ENTRY_OBSERVED" /\ ledger.entry = "filled"

Recover ==
  /\ At("idle")
  /\ Opens /\ Recoverable
  /\ Recorded("STOP_PENDING")
  /\ process' = [NoCommand EXCEPT !.pc = "protect", !.candidate = ledger.candidate,
                                  !.seen = ledger.entry]
  /\ UNCHANGED <<broker_vars, backup, anchor, fence>>

(* Its reads are one: between them nothing but their own failure can be    *)
(* seen, as no stop of the candidate was sent.                             *)
Protect ==
  /\ At("protect")
  /\ Decoded(process.candidate) = process.seen
  /\ Holds(process.candidate) /\ ~ ActiveOrders /\ stop[process.candidate] # "active"
  /\ Goto("fence")
  /\ UNCHANGED <<broker_vars, ledger, backup, anchor, fence>>

FenceForgotten ==               \* mutant: the dispatch leaves no trace outside the database
  /\ At("fence")
  /\ mutation_guard /\ ~ fence
  /\ Goto("stop")
  /\ UNCHANGED <<broker_vars, ledger, backup, anchor, fence>>

Fence ==
  /\ At("fence")
  /\ mutation_guard
  /\ ledger.state = "STOP_PENDING" /\ ~ fence
  /\ fence' = TRUE
  /\ Goto("stop")
  /\ UNCHANGED <<broker_vars, ledger, backup, anchor>>

PostStop ==
  /\ At("stop")
  /\ Send("stop", process.candidate)
  /\ Goto("stop_posted")
  /\ UNCHANGED <<ledger, backup, anchor, fence>>

(* verify_protection() runs twice; the second reading decides.             *)
Verify ==
  /\ At("stop_posted")
  /\ Arrived("stop", process.candidate) /\ stop[process.candidate] = "active"
  /\ Goto("verified")
  /\ UNCHANGED <<broker_vars, ledger, backup, anchor, fence>>

FilledProtected ==
  /\ At("verified")
  /\ Observed("FILLED_PROTECTED")
  /\ Return
  /\ UNCHANGED <<broker_vars, backup, anchor, fence>>

------------------------------------------------------------------------------
(* Backups, and what can befall the state directory.                       *)
Backup ==
  /\ At("idle") /\ backup' = ledger
  /\ UNCHANGED <<broker_vars, ledger, anchor, fence, process>>

LedgerLost ==
  /\ At("idle") /\ ledger' = NoRow("missing")
  /\ UNCHANGED <<broker_vars, backup, anchor, fence, process>>

Restore ==
  /\ At("idle") /\ backup.state # "missing" /\ ledger' = backup
  /\ UNCHANGED <<broker_vars, backup, anchor, fence, process>>

Outside == Broker /\ UNCHANGED once_vars

------------------------------------------------------------------------------
Init ==
  /\ BrokerInit
  /\ ledger = NoRow("missing") /\ backup = NoRow("missing")
  /\ anchor = NoCandidate /\ fence = FALSE
  /\ process = NoCommand

Command ==
  \/ InitFills \/ Preflight \/ Claim \/ Anchor \/ SubmitPreflight \/ Submit
  \/ SubmitAnswered \/ EntryObserved \/ Lookup \/ Poll
  \/ CancelPending \/ CancelLookup \/ Cancel \/ CancelVerified
  \/ Final \/ EntryNotFilled \/ StopPending
  \/ Protect \/ Fence \/ PostStop \/ Verify \/ FilledProtected
  \/ Raise \/ Kill

Start == InitCreates \/ Recover \/ \E c \in Candidates : Run(c)

Next == Command \/ Start \/ Backup \/ LedgerLost \/ Restore \/ Outside

Spec == Init /\ [][Next]_vars
FairSpec == Spec /\ WF_vars(Command)

------------------------------------------------------------------------------
(* Whatever is killed, lost and restored in between, and whichever signals *)
(* later mornings select, one BUY is sent for the whole enrolment, and one *)
(* stop and one cancellation for it (the claim of long_auto_once.py, its   *)
(* anchor and its fence).                                                  *)
OneOfEach ==
  /\ \A r \in Requests : sent[r] <= 1
  /\ \A kind \in Kinds : \A c, d \in Candidates :
       sent[<<kind, c>>] > 0 /\ sent[<<kind, d>>] > 0 => c = d

(* What a row says of the past is so, also when a backup brought it back:  *)
(* the two outcomes that commands take for final, the record of an entry   *)
(* that ended, and that a row which recover-stop accepts has no stop sent. *)
LedgerIsTrue ==
  LET c == ledger.candidate IN
  /\ ledger.entry \in ENDED => Decoded(c) = ledger.entry
  /\ ledger.state = "ENTRY_NOT_FILLED" => order[c] \in {"cancelled", "rejected"}
  /\ ledger.state = "FILLED_PROTECTED" => order[c] = "fill" /\ stop[c] # "none" /\ fence
  /\ Opens /\ Recoverable => \A d \in Candidates : sent[<<"stop", d>>] = 0

(* One attempt, and a ledger that knows how far it came: both survive the  *)
(* loss and the restoration of the ledger (long_auto_once.py:170-230).     *)
AttemptIsSafe == TypeOK /\ OneOfEach /\ LedgerIsTrue

(* A lot that no stop ever protected, while no command runs, is never      *)
(* reported as a state that needs nobody (`status` of long_auto_operator). *)
Healthy == Opens /\ ledger.state \in TERMINAL \cup {"WAITING"}

NoSilentExposure ==
  At("idle") /\ (\E c \in Candidates : order[c] = "fill" /\ stop[c] = "none") => ~ Healthy

(* The whole module implements the one attempt that the runner promises.   *)
Total(kind) ==
  IF \A c \in Candidates : sent[<<kind, c>>] = 0 THEN 0
  ELSE IF \E c \in Candidates :
            \A d \in Candidates : sent[<<kind, d>>] = IF d = c THEN 1 ELSE 0
       THEN 1 ELSE 2

attempt ==
  IF anchor = NoCandidate THEN "armed"
  ELSE IF process.pc \in {"submit_preflight", "submit"} THEN "trying" ELSE "spent"

filled == \E c \in Candidates : order[c] = "fill"

OneAttempt == INSTANCE OneShot WITH
  attempt <- attempt, buys <- Total("buy"), filled <- filled, stops <- Total("stop")

OneAttemptSpec == OneAttempt!Spec

(* Every command of the runner ends: its waits have a bound and its        *)
(* requests a timeout, so the writer lock is released.                     *)
CommandEnds == ~ At("idle") ~> At("idle")
==============================================================================
