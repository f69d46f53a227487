---------------------------- MODULE SandboxBroker ----------------------------
(***************************************************************************)
(* The T-Invest sandbox account as the bot sees it.  A request that was    *)
(* sent may arrive late or never; an order that has arrived may be filled  *)
(* lot by lot, refused or cancelled, and then never changes again.  This   *)
(* is not code of the repository: it is what the adapter in                *)
(* integrations/tinvest_sandbox.py is written against.                     *)
(***************************************************************************)
EXTENDS Integers, Sequences, FiniteSets

CONSTANTS
  Secs             \* the instruments, 1..n in the order of their names

VARIABLES
  orders,          \* every order request the bot has reserved, in that order
  position         \* the signed lots the account holds

Request == DOMAIN orders

States == {"unsent", "travelling", "lost", "new", "filled", "cancelled", "rejected"}
Terminal == {"filled", "cancelled", "rejected"}

\* GetSandboxOrders: the orders that are still active.
Active == {r \in Request : orders[r].state = "new"}

\* GetSandboxOrderState.  An order the broker does not know is an HTTP error,
\* which the adapter turns into the status unknown.
StateOf(r) ==
  CASE orders[r].state \in Terminal -> orders[r].state
    [] orders[r].state = "new" -> IF orders[r].filled = 0 THEN "accepted" ELSE "partially_filled"
    [] OTHER -> "unknown"

InState(r, state) == orders' = [orders EXCEPT ![r].state = state]

Arrive(r) ==
  /\ orders[r].state = "travelling"
  /\ \E state \in {"new", "rejected", "lost"} : InState(r, state)
  /\ UNCHANGED position

FillLot(r) ==
  LET o == orders[r]
      filled == o.filled + 1
  IN /\ o.state = "new"
     /\ orders' = [orders EXCEPT ![r] =
          [o EXCEPT !.filled = filled, !.state = IF filled = o.lots THEN "filled" ELSE @]]
     /\ position' = [position EXCEPT ![o.sec] = @ + o.side]

\* CancelSandboxOrder answers only for an active order.
CancelActive(r) == r \in Active /\ InState(r, "cancelled") /\ UNCHANGED position

BrokerStep == \E r \in Request : Arrive(r) \/ FillLot(r)
==============================================================================
