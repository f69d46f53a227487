------------------------------ MODULE LiveBroker ------------------------------
(***************************************************************************)
(* The T-Invest production account, as the code of the repository uses it: *)
(* one instrument, one lot, one BUY, one native stop and one SELL, each    *)
(* under its own idempotency key, so that the broker takes a repeated      *)
(* request for the order it already has.  A request that was sent may      *)
(* arrive late, after its sender timed out or died, or never.              *)
(***************************************************************************)
EXTENDS Integers, FiniteSets

Orders == {"buy", "sell"}
Requests == Orders \cup {"stop", "cancel_buy", "cancel_stop"}

VARIABLES
  order,      \* the state of each of the two orders
  stop,       \* the state of the native stop and its child order
  in_flight,  \* the requests that were sent and did not arrive yet
  sent        \* how many times each request was sent: 0, 1 or 2 for more

broker_vars == <<order, stop, in_flight, sent>>

BrokerTypeOK ==
  /\ order \in [Orders -> {"none", "new", "fill", "cancelled", "rejected"}]
  /\ stop \in {"none", "active", "triggered", "executed", "expired", "cancelled"}
  /\ in_flight \subseteq Requests
  /\ sent \in [Requests -> 0..2]

BrokerInit ==
  /\ order = [o \in Orders |-> "none"]
  /\ stop = "none"
  /\ in_flight = {}
  /\ sent = [c \in Requests |-> 0]

(* A request leaves the bot.  The transport never repeats a mutation. *)
Send(c) ==
  /\ in_flight' = in_flight \cup {c}
  /\ sent' = [sent EXCEPT ![c] = IF @ = 0 THEN 1 ELSE 2]
  /\ UNCHANGED <<order, stop>>

Arrived(c) == c \notin in_flight
Placed == {o \in Orders : order[o] # "none"}   \* GetOrderState finds these

------------------------------------------------------------------------------
(* What the read methods of the API return.                                *)
Lots ==
  (IF order["buy"] = "fill" THEN 1 ELSE 0) - (IF order["sell"] = "fill" THEN 1 ELSE 0)
    - (IF stop = "executed" THEN 1 ELSE 0)

ActiveOrders ==                 \* GetOrders, child orders of stops included
  \/ \E o \in Orders : order[o] = "new"
  \/ stop = "triggered"

HoldsFreeLot ==                 \* GetPositions: balance of one lot, none blocked
  Lots = 1 /\ order["sell"] # "new" /\ stop # "triggered"

StopIsActive == stop = "active" \* GetStopOrders, STOP_ORDER_STATUS_ACTIVE
StopInHistory == stop # "none"  \* GetStopOrders, STOP_ORDER_STATUS_ALL

------------------------------------------------------------------------------
(* The broker and the network.                                             *)
DeliverOrder(o) ==
  /\ o \in in_flight
  /\ in_flight' = in_flight \ {o}
  /\ \E s \in IF order[o] = "none" THEN {"new", "rejected"} ELSE {order[o]} :
       order' = [order EXCEPT ![o] = s]
  /\ UNCHANGED <<stop, sent>>

DeliverStop ==
  /\ "stop" \in in_flight
  /\ in_flight' = in_flight \ {"stop"}
  /\ stop' = IF stop = "none" THEN "active" ELSE stop
  /\ UNCHANGED <<order, sent>>

DeliverCancelBuy ==
  /\ "cancel_buy" \in in_flight
  /\ in_flight' = in_flight \ {"cancel_buy"}
  /\ order' = [order EXCEPT !["buy"] = IF @ = "new" THEN "cancelled" ELSE @]
  /\ UNCHANGED <<stop, sent>>

DeliverCancelStop ==
  /\ "cancel_stop" \in in_flight
  /\ in_flight' = in_flight \ {"cancel_stop"}
  /\ stop' = IF stop = "active" THEN "cancelled" ELSE stop
  /\ UNCHANGED <<order, sent>>

Lose(c) ==
  /\ c \in in_flight
  /\ in_flight' = in_flight \ {c}
  /\ UNCHANGED <<order, stop, sent>>

OrderEnds(o) ==                 \* filled, or a DAY order that expires
  /\ order[o] = "new"
  /\ \E s \in {"fill", "cancelled"} : order' = [order EXCEPT ![o] = s]
  /\ UNCHANGED <<stop, in_flight, sent>>

StopTriggers ==
  /\ stop = "active"
  /\ stop' = "triggered"
  /\ UNCHANGED <<order, in_flight, sent>>

ChildEnds ==                    \* sold, or the limit of the child is not met
  /\ stop = "triggered"
  /\ stop' \in {"executed", "expired"}
  /\ UNCHANGED <<order, in_flight, sent>>

Broker ==
  \/ \E o \in Orders : DeliverOrder(o) \/ OrderEnds(o)
  \/ DeliverStop \/ DeliverCancelBuy \/ DeliverCancelStop
  \/ StopTriggers \/ ChildEnds
==============================================================================
