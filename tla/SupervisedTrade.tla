--------------------------- MODULE SupervisedTrade ---------------------------
(***************************************************************************)
(* One supervised trade on the production account: the paired entry of     *)
(* supervised_execution.py with its native stop (live_protection.py), the  *)
(* synthetic take-profit (take_profit.py) and the protection-only recovery *)
(* (protection_recovery.py), started by the commands of                    *)
(* supervised_operator.py, while `live_operator reconcile` may run beside  *)
(* them.                                                                   *)
(*                                                                         *)
(* At most one command runs at a time (the flock of prod_session.py); it   *)
(* may raise or be killed between any two of its steps (Abort), which      *)
(* keeps what its SQLite transactions wrote and what it sent.  A guard     *)
(* that is not modelled (market, limits, kill-switch, review, network) may *)
(* fail at any step, and failing is Abort except where the code handles    *)
(* it.                                                                     *)
(***************************************************************************)
EXTENDS LiveBroker

CONSTANT MaxPolls    \* bound: reads of the order before wait_seconds are over

ASSUME PollsAssumption == MaxPolls \in Nat

Commands == {"execute", "recover", "exit"}
Rows == {"entry", "exit"}
OrderOfRow == [entry |-> "buy", exit |-> "sell"]

TERMINAL == {"filled", "cancelled", "rejected"}
Pending == {"request_pending", "unknown", "accepted"}

VARIABLES
  ledger,      \* the rows of the execution journal
  protection,  \* the row of the protection journal
  approval,    \* per command: its confirmed preview, and the time it has left
  enrolled,    \* the production ledger exists and has its identity
  session,     \* the command that holds the lock, and where it is
  reading      \* the answer `reconcile` is about to record

permits == <<approval, enrolled>>
trade_vars == <<ledger, protection, permits, session, reading>>
vars == <<broker_vars, trade_vars>>

Places ==    \* where a command can be: between two of its reads, writes or sends
  {"idle", "reserve", "gate", "submitted", "record", "parent", "poll",
   "cancelling", "cancelled", "record_final", "decide",
   "activate", "stop_gate", "stop_posted", "list_stops",
   "exit_reserve", "exit_gate", "stop_cancelling"}

NoCommand == [command |-> "none", pc |-> "idle", seen |-> "none", polls |-> 0]
NoReading == [row |-> "none", status |-> "none"]

ProtectionStates ==
  {"absent", "PLANNED", "POST_PENDING", "UNKNOWN", "ACTIVE",
   "EXIT_CANCEL_PENDING", "EXIT_STOP_CANCELLED", "CLOSED_TAKE_PROFIT"}

TypeOK ==
  /\ BrokerTypeOK
  /\ ledger \in [Rows -> {"absent"} \cup Pending \cup TERMINAL]
  /\ protection \in [state : ProtectionStates, stop_id : BOOLEAN]
  /\ approval \in [Commands -> {"none", "open", "short", "expired"}]
  /\ enrolled \in BOOLEAN
  /\ session \in [command : Commands \cup {"none"}, pc : Places,
                  seen : {"none"} \cup Pending \cup TERMINAL, polls : 0..MaxPolls]
  /\ reading \in {NoReading} \cup [row : Rows, status : Pending \cup TERMINAL]

------------------------------------------------------------------------------
(* The execution journal, see ExecutionJournal for its transactions.       *)
Unresolved == {r \in Rows : ledger[r] \in Pending}

RecordableAlways(r, status) == TRUE     \* mutant: a late answer reopens a terminal row

Recordable(r, status) == ledger[r] \in Pending \/ ledger[r] = status

(* What a strict read of an order gives; it raises while there is no order. *)
Decoded(o) ==
  CASE order[o] = "new" -> "accepted"
    [] order[o] = "fill" -> "filled"
    [] OTHER -> order[o]

Owned ==    \* the lots the ledger says the bot owns
  (IF ledger["entry"] = "filled" THEN 1 ELSE 0)
    - (IF ledger["exit"] = "filled" THEN 1 ELSE 0)

------------------------------------------------------------------------------
(* The command and its approval.                                           *)
At(pc) == session.pc = pc
Goto(pc) == session' = [session EXCEPT !.pc = pc]
Return == session' = NoCommand

Start(command, pc) == session' = [NoCommand EXCEPT !.command = command, !.pc = pc]

(* The review of the exact preview, asked again before every mutation.     *)
Reviewed(command) == approval[command] \in {"open", "short"}
Confirmed == Reviewed(session.command)

(* The local gate before a mutation: the entry needs the time to protect   *)
(* it and a protection that is still planned.                              *)
SubmitGate ==
  IF session.command = "execute"
  THEN approval["execute"] = "open" /\ protection.state = "PLANNED"
  ELSE Confirmed

Row == IF session.command = "execute" THEN "entry" ELSE "exit"

Abort ==
  /\ ~ At("idle")
  /\ Return
  /\ UNCHANGED <<broker_vars, ledger, protection, permits, reading>>

TimePasses(command) ==
  /\ approval[command] \in {"open", "short"}
  /\ approval' = [approval EXCEPT ![command] = IF @ = "open" THEN "short" ELSE "expired"]
  /\ UNCHANGED <<broker_vars, ledger, protection, enrolled, session, reading>>

------------------------------------------------------------------------------
(* preview: no lock, and nothing is asked of the trade.  Each preview has  *)
(* an identity of its own, so that after the plan of one is prepared the   *)
(* next would be another trade.                                            *)
Preview ==
  /\ protection.state = "absent"
  /\ approval' = [approval EXCEPT !["execute"] = "open"]
  /\ UNCHANGED <<broker_vars, ledger, protection, enrolled, session, reading>>

(* enroll: a previewed trade opens the production ledger, once.  A preview *)
(* names the ledger of its day, and one that is older names none.          *)
PairedPreview == Reviewed("execute")

Enroll ==
  /\ At("idle")
  /\ PairedPreview
  /\ ~ enrolled /\ ~ ActiveOrders
  /\ enrolled' = TRUE
  /\ approval' = [approval EXCEPT !["execute"] = "none"]
  /\ UNCHANGED <<broker_vars, ledger, protection, session, reading>>

(* execute: operate() and the beginning of run_supervised_entry(), which   *)
(* asks for the time that protecting the entry may take.                   *)
Admitted == PairedPreview /\ enrolled

Execute ==
  /\ At("idle")
  /\ Admitted /\ approval["execute"] = "open"
  /\ protection' = IF protection.state = "absent"
                   THEN [state |-> "PLANNED", stop_id |-> FALSE] ELSE protection
  /\ Start("execute", "reserve")
  /\ UNCHANGED <<broker_vars, ledger, permits, reading>>

(* execute_live_intent(): the reservation, authorized on a broker state    *)
(* that is read inside its transaction.  capture() is a sequence of reads; *)
(* it is one here because nothing of the trade can change at the broker    *)
(* while a reservation is possible: before the entry nothing was sent, and *)
(* before the exit the stop is verified to be cancelled.                   *)
OwnedAsHeld == IF Owned = 1 THEN HoldsFreeLot ELSE Owned = 0 /\ Lots = 0

Authorized ==
  /\ Confirmed
  /\ ~ ActiveOrders /\ ~ StopIsActive
  /\ Row = "exit" => Owned = 1
  /\ OwnedAsHeld

Reserve ==
  /\ At("reserve")
  /\ Unresolved = {} /\ ledger[Row] = "absent"
  /\ Authorized
  /\ ledger' = [ledger EXCEPT ![Row] = "request_pending"]
  /\ Goto("gate")
  /\ UNCHANGED <<broker_vars, protection, permits, reading>>

(* A terminal order is not sent again.  The entry goes on with what the    *)
(* ledger says; the exit raises.                                           *)
AlreadyDone ==
  /\ At("reserve")
  /\ Unresolved = {} /\ ledger[Row] \in TERMINAL
  /\ session.command = "execute"
  /\ Goto("parent")
  /\ UNCHANGED <<broker_vars, ledger, protection, permits, reading>>

(* read_parent(): the ledger, which `reconcile` may have changed meanwhile. *)
ReadParent ==
  /\ At("parent")
  /\ session' = [session EXCEPT !.seen = ledger["entry"],
                   !.pc = IF ledger["entry"] \in TERMINAL THEN "decide" ELSE "poll"]
  /\ UNCHANGED <<broker_vars, ledger, protection, permits, reading>>

NotSubmitted ==
  /\ At("gate")
  /\ Recordable(Row, "rejected")
  /\ ledger' = [ledger EXCEPT ![Row] = "rejected"]
  /\ Return
  /\ UNCHANGED <<broker_vars, protection, permits, reading>>

Submit ==
  /\ At("gate")
  /\ SubmitGate
  /\ Send(OrderOfRow[Row])
  /\ Goto("submitted")
  /\ UNCHANGED <<ledger, protection, permits, reading>>

(* lookup() in submit(), in the polling loop and after the cancellation.   *)
Lookup(from, to) ==
  /\ At(from)
  /\ OrderOfRow[Row] \in Placed
  /\ session' = [session EXCEPT !.pc = to, !.seen = Decoded(OrderOfRow[Row])]
  /\ UNCHANGED <<broker_vars, ledger, protection, permits, reading>>

LookupSubmitted == Lookup("submitted", "record")
LookupFinal == Lookup("cancelled", "record_final")

PollForever ==                  \* mutant: the deadline is renewed by every read
  /\ At("poll")
  /\ "buy" \in Placed
  /\ session' = [session EXCEPT !.pc = "record", !.seen = Decoded("buy"),
                                !.polls = MaxPolls]
  /\ UNCHANGED <<broker_vars, ledger, protection, permits, reading>>

Poll ==
  /\ At("poll")
  /\ session.polls < MaxPolls
  /\ "buy" \in Placed
  /\ session' = [session EXCEPT !.pc = "record", !.seen = Decoded("buy"),
                                !.polls = @ + 1]
  /\ UNCHANGED <<broker_vars, ledger, protection, permits, reading>>

AfterRecord ==
  IF session.command = "exit" \/ At("record_final") THEN "decide"
  ELSE IF session.polls = 0 THEN "parent"
  ELSE IF session.seen \in TERMINAL THEN "decide" ELSE "poll"

RecordSeen ==
  /\ At("record") \/ At("record_final")
  /\ Recordable(Row, session.seen)
  /\ ledger' = [ledger EXCEPT ![Row] = session.seen]
  /\ Goto(AfterRecord)
  /\ UNCHANGED <<broker_vars, protection, permits, reading>>

(* The time to wait is over: cancel this order and no other.               *)
Cancel ==
  /\ At("poll")
  /\ Confirmed
  /\ IF order["buy"] \in {"fill", "cancelled", "rejected"}
     THEN UNCHANGED broker_vars /\ Goto("cancelled")
     ELSE Send("cancel_buy") /\ Goto("cancelling")
  /\ UNCHANGED <<ledger, protection, permits, reading>>

CancelAnswered ==
  /\ At("cancelling")
  /\ Arrived("cancel_buy")
  /\ Goto("cancelled")
  /\ UNCHANGED <<broker_vars, ledger, protection, permits, reading>>

Filled ==
  /\ At("decide") /\ session.command = "execute"
  /\ session.seen = "filled"
  /\ Goto("activate")
  /\ UNCHANGED <<broker_vars, ledger, protection, permits, reading>>

NotFilled ==                    \* returned, or raised for the operator
  /\ At("decide")
  /\ session.seen # "filled"
  /\ Return
  /\ UNCHANGED <<broker_vars, ledger, protection, permits, reading>>

------------------------------------------------------------------------------
(* ProtectionJournal.activate() and reconcile().                           *)
ReserveStop ==
  /\ At("activate")
  /\ protection.state = "PLANNED"
  /\ ledger["entry"] = "filled" /\ Owned = 1
  /\ HoldsFreeLot /\ ~ StopIsActive
  /\ protection' = [protection EXCEPT !.state = "POST_PENDING"]
  /\ Goto("stop_gate")
  /\ UNCHANGED <<broker_vars, ledger, permits, reading>>

StopNotDispatched ==
  /\ At("stop_gate")
  /\ protection = [state |-> "POST_PENDING", stop_id |-> FALSE]
  /\ protection' = [protection EXCEPT !.state = "PLANNED"]
  /\ Return
  /\ UNCHANGED <<broker_vars, ledger, permits, reading>>

PostStop ==
  /\ At("stop_gate")
  /\ Confirmed
  /\ Send("stop")
  /\ Goto("stop_posted")
  /\ UNCHANGED <<ledger, protection, permits, reading>>

StopUnknownPlanned ==           \* mutant: a lost answer is taken for no dispatch
  /\ At("stop_posted")
  /\ protection' = [state |-> "PLANNED", stop_id |-> FALSE]
  /\ Return
  /\ UNCHANGED <<broker_vars, ledger, permits, reading>>

StopUnknown ==
  /\ At("stop_posted")
  /\ protection' = [state |-> "UNKNOWN", stop_id |-> FALSE]
  /\ Return
  /\ UNCHANGED <<broker_vars, ledger, permits, reading>>

StopAnswered ==
  /\ At("stop_posted")
  /\ Arrived("stop")
  /\ protection' = [state |-> "UNKNOWN", stop_id |-> TRUE]
  /\ Goto("activate")
  /\ UNCHANGED <<broker_vars, ledger, permits, reading>>

ReconcileAnyStop ==             \* mutant: the stop is looked up without its id
  /\ At("activate")
  /\ protection.state # "PLANNED"
  /\ protection' = [protection EXCEPT !.state = "UNKNOWN"]
  /\ Goto("list_stops")
  /\ UNCHANGED <<broker_vars, ledger, permits, reading>>

ReconcileStop ==
  /\ At("activate")
  /\ protection.state # "PLANNED" /\ protection.stop_id
  /\ protection' = [protection EXCEPT !.state = "UNKNOWN"]
  /\ Goto("list_stops")
  /\ UNCHANGED <<broker_vars, ledger, permits, reading>>

StopVerified ==
  /\ At("list_stops")
  /\ StopIsActive
  /\ protection' = [protection EXCEPT !.state = "ACTIVE"]
  /\ Return
  /\ UNCHANGED <<broker_vars, ledger, permits, reading>>

------------------------------------------------------------------------------
(* protection-preview and protection-apply: _check() and apply_recovery(). *)
MayRecover ==
  /\ protection = [state |-> "PLANNED", stop_id |-> FALSE]
  /\ ledger["entry"] \notin {"absent", "cancelled", "rejected"}
  /\ order["buy"] = "fill"
  /\ ~ ActiveOrders /\ HoldsFreeLot /\ ~ StopInHistory

ProtectionPreview ==
  /\ At("idle")
  /\ MayRecover
  /\ approval' = [approval EXCEPT !["recover"] = "open"]
  /\ UNCHANGED <<broker_vars, ledger, protection, enrolled, session, reading>>

RecoveryConfirmed == Reviewed("recover")

ProtectionApply ==
  /\ At("idle")
  /\ RecoveryConfirmed
  /\ MayRecover
  /\ ledger' = [ledger EXCEPT !["entry"] = "filled"]
  /\ Start("recover", "activate")
  /\ UNCHANGED <<broker_vars, protection, permits, reading>>

------------------------------------------------------------------------------
(* exit-preview and exit-execute: active_stop(), precheck() and run_exit().*)
MayExit ==
  /\ ledger["entry"] = "filled"
  /\ protection = [state |-> "ACTIVE", stop_id |-> TRUE]
  /\ StopIsActive
  /\ ~ ActiveOrders /\ Owned = 1 /\ OwnedAsHeld

ExitPreview ==
  /\ At("idle")
  /\ MayExit
  /\ approval' = [approval EXCEPT !["exit"] = "open"]
  /\ UNCHANGED <<broker_vars, ledger, protection, enrolled, session, reading>>

ExitExecute ==
  /\ At("idle")
  /\ approval["exit"] = "open"
  /\ MayExit
  /\ Start("exit", "exit_reserve")
  /\ UNCHANGED <<broker_vars, ledger, protection, permits, reading>>

ReserveExit ==
  /\ At("exit_reserve")
  /\ protection = [state |-> "ACTIVE", stop_id |-> TRUE]
  /\ protection' = [protection EXCEPT !.state = "EXIT_CANCEL_PENDING"]
  /\ Goto("exit_gate")
  /\ UNCHANGED <<broker_vars, ledger, permits, reading>>

CancelStop ==
  /\ At("exit_gate")
  /\ Confirmed
  /\ Send("cancel_stop")
  /\ Goto("stop_cancelling")
  /\ UNCHANGED <<ledger, protection, permits, reading>>

StopCancelledUnverified ==      \* mutant: the history of the stop is not read
  /\ At("stop_cancelling")
  /\ Arrived("cancel_stop")
  /\ protection' = [protection EXCEPT !.state = "EXIT_STOP_CANCELLED"]
  /\ Goto("reserve")
  /\ UNCHANGED <<broker_vars, ledger, permits, reading>>

StopCancelled ==
  /\ At("stop_cancelling")
  /\ Arrived("cancel_stop")
  /\ stop = "cancelled"
  /\ protection' = [protection EXCEPT !.state = "EXIT_STOP_CANCELLED"]
  /\ Goto("reserve")
  /\ UNCHANGED <<broker_vars, ledger, permits, reading>>

Closed ==
  /\ At("decide") /\ session.command = "exit"
  /\ session.seen = "filled"
  /\ protection' = [protection EXCEPT !.state = "CLOSED_TAKE_PROFIT"]
  /\ Return
  /\ UNCHANGED <<broker_vars, ledger, permits, reading>>

------------------------------------------------------------------------------
(* `live_operator reconcile`: reconcile_live_journal(), outside the lock.  *)
(* A read that fails, or finds no order, is an UNKNOWN answer.             *)
ReconcileLookup(r) ==
  /\ reading = NoReading
  /\ ledger[r] \in Pending
  /\ \E status \in {"unknown"} \cup {Decoded(o) : o \in {OrderOfRow[r]} \cap Placed} :
       reading' = [row |-> r, status |-> status]
  /\ UNCHANGED <<broker_vars, ledger, protection, permits, session>>

ReconcileRecord ==
  /\ reading # NoReading
  /\ ledger' = IF Recordable(reading.row, reading.status)
               THEN [ledger EXCEPT ![reading.row] = reading.status] ELSE ledger
  /\ reading' = NoReading
  /\ UNCHANGED <<broker_vars, protection, permits, session>>

------------------------------------------------------------------------------
(* The sender of a request that is lost waits until it times out. *)
Awaits(c) ==
  \/ At("cancelling") /\ c = "cancel_buy"
  \/ At("stop_posted") /\ c = "stop"
  \/ At("stop_cancelling") /\ c = "cancel_stop"

Outside ==
  /\ \/ Broker
     \/ \E c \in Requests : ~ Awaits(c) /\ Lose(c)
  /\ UNCHANGED trade_vars

Init ==
  /\ BrokerInit
  /\ ledger = [r \in Rows |-> "absent"]
  /\ protection = [state |-> "absent", stop_id |-> FALSE]
  /\ approval = [c \in Commands |-> "none"]
  /\ enrolled = FALSE
  /\ session = NoCommand
  /\ reading = NoReading

Command ==
  \/ Reserve \/ AlreadyDone \/ ReadParent \/ NotSubmitted \/ Submit
  \/ LookupSubmitted \/ Poll \/ RecordSeen \/ Cancel \/ CancelAnswered \/ LookupFinal \/ Filled \/ NotFilled
  \/ ReserveStop \/ StopNotDispatched \/ PostStop \/ StopUnknown \/ StopAnswered
  \/ ReconcileStop \/ StopVerified
  \/ ReserveExit \/ CancelStop \/ StopCancelled \/ Closed

Next ==
  \/ Preview \/ Enroll \/ Execute
  \/ ProtectionPreview \/ ProtectionApply \/ ExitPreview \/ ExitExecute
  \/ Command \/ Abort
  \/ \E c \in Commands : TimePasses(c)
  \/ \E r \in Rows : ReconcileLookup(r)
  \/ ReconcileRecord
  \/ Outside

Spec == Init /\ [][Next]_vars

(* A command that is running raises or goes on: every request of the        *)
(* transport has a timeout and the wait for a fill has a deadline.          *)
FairSpec == Spec /\ WF_vars(Command \/ Abort)

------------------------------------------------------------------------------
(* Properties.                                                             *)

StopMaySell == stop \in {"active", "triggered"} \/ (stop = "none" /\ "stop" \in in_flight)
SaleMaySell == order["sell"] = "new" \/ (order["sell"] = "none" /\ "sell" \in in_flight)

(* "Never keeps two live sell orders on one lot" (take_profit.py:1), those  *)
(* still on their way to the broker included, and never sells a lot that    *)
(* was not bought: whatever command is killed, repeated or answered late.   *)
NeverTwoSellers ==
  /\ ~ (StopMaySell /\ SaleMaySell)
  /\ Lots \in {0, 1}
  /\ StopMaySell \/ SaleMaySell => order["buy"] = "fill"

(* "Unknown delivery never permits another submit" (execution_journal.py:1, *)
(* live_protection.py:263): an order or stop whose answer was lost is not   *)
(* sent again by a replay of execute, by a recovery or by a second exit.    *)
NothingPostedTwice == \A c \in {"buy", "stop", "sell"} : sent[c] <= 1

(* What the two journals say after any crash is so at the broker: a         *)
(* terminal row is the final state of its order, and each protection state  *)
(* that lets a command act is true of the stop (take_profit.py:158-173,     *)
(* live_protection.py:227-273).                                             *)
Final(r) ==
  IF OrderOfRow[r] \in Placed
  THEN Decoded(OrderOfRow[r]) = ledger[r]
  ELSE ledger[r] = "rejected" /\ sent[OrderOfRow[r]] = 0

JournalsAgreeWithBroker ==
  /\ \A r \in Rows : ledger[r] \in TERMINAL => Final(r)
  /\ protection.state = "PLANNED" => sent["stop"] = 0
  /\ protection.stop_id => StopInHistory
  /\ protection.state = "ACTIVE" => protection.stop_id /\ ledger["entry"] = "filled"
  /\ protection.state = "EXIT_STOP_CANCELLED" => stop = "cancelled"
  /\ protection.state = "CLOSED_TAKE_PROFIT" => stop = "cancelled" /\ order["sell"] = "fill"

(* The three together, over every kill, replay and late answer: one lot is  *)
(* bought once and sold at most once, and both journals know it.            *)
TradeIsSafe == TypeOK /\ NeverTwoSellers /\ NothingPostedTwice /\ JournalsAgreeWithBroker

(* A stop whose POST is ambiguous is left to the operator: no command       *)
(* adopts it, plans it anew or treats it as active                          *)
(* (protection_recovery.py:145, live_protection.py:262).                    *)
AmbiguousStopIsLeftAlone ==
  [][\/ ~ (protection.state \in {"POST_PENDING", "UNKNOWN"} /\ ~ protection.stop_id)
     \/ At("stop_gate") \/ At("stop_posted")
     \/ UNCHANGED protection]_vars

(* The lock of a command, which also keeps deployments out, is released     *)
(* however the broker answers.                                              *)
LockIsReleased == ~ At("idle") ~> At("idle")

(* An exit whose cancellation failed is reserved for the operator: "exit    *)
(* already reserved; no mutation retried" (take_profit.py:154-155).         *)
StopCancelledOnce == sent["cancel_stop"] <= 1

------------------------------------------------------------------------------
(* The trade implements the custody of one lot ...                         *)
LotState ==
  CASE order["buy"] # "fill" -> "none"
    [] order["buy"] = "fill" /\ Lots = 1 -> "held"
    [] OTHER -> "sold"

Seller ==
  CASE SaleMaySell -> "sale"
    [] ~ SaleMaySell /\ (sent["sell"] > 0 \/ stop = "executed") -> "over"
    [] ~ SaleMaySell /\ sent["sell"] = 0 /\ StopMaySell -> "stop"
    [] ~ SaleMaySell /\ sent["sell"] = 0 /\ ~ StopMaySell /\ stop # "executed" ->
         IF sent["stop"] > 0 THEN "released" ELSE "nobody"

Custody == INSTANCE LotCustody WITH lot <- LotState, seller <- Seller
CustodySpec == Custody!Spec

(* ... and its two journal rows the ledger that ExecutionJournal           *)
(* implements.                                                             *)
AnyAccount(r) == "prod"
Ledger == INSTANCE OrderLedger WITH
            Order <- Rows, Outcome <- TERMINAL, AccountOf <- AnyAccount,
            open <- Unresolved,
            closed <- {[order |-> r, outcome |-> ledger[r]] :
                         r \in {q \in Rows : ledger[q] \in TERMINAL}}
LedgerSpec == Ledger!Spec
==============================================================================
