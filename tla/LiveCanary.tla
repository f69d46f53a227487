------------------------------ MODULE LiveCanary ------------------------------
(***************************************************************************)
(* `prod-live-execute` beside the supervised trade: live_operator.py sends *)
(* the confirmed SELL of a production plan for the lot that the supervised *)
(* entry bought.  It shares the execution journal with supervised execute  *)
(* and protection-apply, and not their session lock.                       *)
(*                                                                         *)
(* The row "exit" is the SELL of that plan here, so that the take-profit   *)
(* command, which has the row in SupervisedTrade, is left out.             *)
(***************************************************************************)
EXTENDS SupervisedTrade

VARIABLE sale    \* the process of live_operator: the plan of its SELL, where it is,
                 \* the answer it got

all_vars == <<vars, sale>>

NoSale == [plan |-> "none", pc |-> "idle", seen |-> "none"]

CanaryTypeOK ==
  /\ TypeOK
  /\ sale \in [plan : {"none", "written", "previewed", "expired"},
               pc : {"idle", "reserve", "gate", "posted", "record"},
               seen : {"none"} \cup Pending \cup TERMINAL]

------------------------------------------------------------------------------
Selling(pc) == sale.pc = pc
Resume(pc) == sale' = [sale EXCEPT !.pc = pc]
SaleReturns == sale' = [sale EXCEPT !.pc = "idle", !.seen = "none"]
unlocked == <<protection, permits, session, reading>>

(* The hourly cycle plans the SELL on a snapshot that holds the lot.  The  *)
(* next plan has an order of its own, so that it replaces only a plan      *)
(* whose order was never reserved.                                         *)
PlanWritten ==
  /\ Selling("idle") /\ ledger["exit"] = "absent"
  /\ Lots = 1
  /\ sale' = [sale EXCEPT !.plan = "written"]
  /\ UNCHANGED vars

ReadablePlan == sale.plan \in {"written", "previewed"}

SalePreview ==
  /\ Selling("idle")
  /\ ReadablePlan
  /\ sale' = [sale EXCEPT !.plan = "previewed"]
  /\ UNCHANGED vars

(* Five minutes later the plan, and sooner or later the admission, is over; *)
(* once the order is posted nobody asks for them.                           *)
AdmissionEnds ==
  /\ ReadablePlan
  /\ ledger["exit"] = "absent" \/ Selling("gate")
  /\ sale' = [sale EXCEPT !.plan = "expired"]
  /\ UNCHANGED vars

SaleConfirmed == sale.plan = "previewed"

SaleStart ==
  /\ Selling("idle")
  /\ SaleConfirmed
  /\ Resume("reserve")
  /\ UNCHANGED vars

(* execute_live_intent(): the broker is read inside the transaction.       *)
SaleReserveBesidePending ==     \* mutant: the unresolved row is looked for before the transaction
  /\ Selling("reserve")
  /\ ledger["exit"] = "absent"
  /\ SaleConfirmed
  /\ ~ ActiveOrders /\ ~ StopIsActive /\ Lots = 1
  /\ ledger' = [ledger EXCEPT !["exit"] = "request_pending"]
  /\ Resume("gate")
  /\ UNCHANGED <<broker_vars, unlocked>>

SaleReserve ==
  /\ Selling("reserve")
  /\ Unresolved = {} /\ ledger["exit"] = "absent"
  /\ SaleConfirmed
  /\ ~ ActiveOrders /\ ~ StopIsActive
  /\ Owned = 1 /\ OwnedAsHeld
  /\ ledger' = [ledger EXCEPT !["exit"] = "request_pending"]
  /\ Resume("gate")
  /\ UNCHANGED <<broker_vars, unlocked>>

SaleNotSubmitted ==             \* final_gate() or the permission refuses: nothing was sent
  /\ Selling("gate")
  /\ Recordable("exit", "rejected")
  /\ ledger' = [ledger EXCEPT !["exit"] = "rejected"]
  /\ SaleReturns
  /\ UNCHANGED <<broker_vars, unlocked>>

SaleSubmit ==
  /\ Selling("gate")
  /\ SaleConfirmed
  /\ Send("sell")
  /\ Resume("posted")
  /\ UNCHANGED <<ledger, unlocked>>

SaleUnknown ==
  /\ Selling("posted")
  /\ sale' = [sale EXCEPT !.pc = "record", !.seen = "unknown"]
  /\ UNCHANGED vars

SaleAnswered ==
  /\ Selling("posted")
  /\ "sell" \in Placed
  /\ sale' = [sale EXCEPT !.pc = "record", !.seen = Decoded("sell")]
  /\ UNCHANGED vars

SaleRecord ==
  /\ Selling("record")
  /\ ledger' = IF Recordable("exit", sale.seen)
               THEN [ledger EXCEPT !["exit"] = sale.seen] ELSE ledger
  /\ SaleReturns
  /\ UNCHANGED <<broker_vars, unlocked>>

SaleKilled ==
  /\ ~ Selling("idle")
  /\ SaleReturns
  /\ UNCHANGED vars

Sale ==
  \/ PlanWritten \/ SalePreview \/ AdmissionEnds \/ SaleStart
  \/ SaleReserve \/ SaleNotSubmitted \/ SaleSubmit \/ SaleUnknown \/ SaleAnswered
  \/ SaleRecord \/ SaleKilled

------------------------------------------------------------------------------
(* Supervised execute and protection-apply, as they are.  Their approvals  *)
(* do not run out here: each gate that asks for one may refuse anyway.     *)
Entry ==
  \/ Preview \/ Enroll \/ Execute \/ ProtectionPreview \/ ProtectionApply
  \/ Reserve \/ AlreadyDone \/ ReadParent \/ NotSubmitted \/ Submit
  \/ LookupSubmitted \/ Poll \/ RecordSeen \/ Cancel \/ CancelAnswered \/ LookupFinal \/ Filled \/ NotFilled
  \/ ReserveStop \/ StopNotDispatched \/ PostStop \/ StopUnknown \/ StopAnswered
  \/ ReconcileStop \/ StopVerified
  \/ Abort

CanaryInit == Init /\ sale = NoSale

CanaryNext ==
  \/ Sale
  \/ /\ \/ Entry \/ Outside \/ ReconcileRecord
        \/ \E r \in Rows : ReconcileLookup(r)
     /\ UNCHANGED sale

CanarySpec == CanaryInit /\ [][CanaryNext]_all_vars

------------------------------------------------------------------------------
(* "sell would touch manual holdings or create a short"                    *)
(* (live_execution.py:292, the gate of every SELL): the bot sells what it  *)
(* bought, once.                                                           *)
NeverOversold == Lots >= 0

(* What keeps the two writers apart is the journal alone: at most one      *)
(* order of the account is unresolved, and so a sale is only on its way    *)
(* when the entry is over and its lot is there.                            *)
SaleAfterEntry ==
  /\ Cardinality(Unresolved) <= 1
  /\ SaleMaySell => order["buy"] = "fill" /\ ledger["entry"] = "filled"

(* The journals stay true, and nothing is sent twice, although the sale    *)
(* holds no lock (live_operator.py:385).                                   *)
CanaryIsSafe ==
  CanaryTypeOK /\ SaleAfterEntry /\ NothingPostedTwice /\ JournalsAgreeWithBroker
==============================================================================
