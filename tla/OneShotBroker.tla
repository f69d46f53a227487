----------------------------- MODULE OneShotBroker -----------------------------
(***************************************************************************)
(* The account of a one-shot runner, as the code uses it.  A candidate is  *)
(* one signal: a BUY of one lot and a native stop, each under its own      *)
(* idempotency key.  Every candidate is of an instrument of its own, where *)
(* the checks of one see least of another.  A request that was sent may    *)
(* arrive late, after its sender timed out or died, or never.              *)
(***************************************************************************)
EXTENDS Integers

CONSTANT Candidates

Kinds == {"buy", "cancel", "stop"}
Requests == Kinds \X Candidates

VARIABLES
  order,      \* the BUY of each candidate
  stop,       \* its native stop, with the child order of the stop
  in_flight,  \* the requests that were sent and did not arrive yet
  sent        \* how many times each request was sent: 0, 1 or 2 for more

broker_vars == <<order, stop, in_flight, sent>>

BrokerTypeOK ==
  /\ order \in [Candidates -> {"none", "new", "fill", "cancelled", "rejected"}]
  /\ stop \in [Candidates -> {"none", "active", "triggered", "executed", "expired"}]
  /\ in_flight \subseteq Requests
  /\ sent \in [Requests -> 0..2]

BrokerInit ==
  /\ order = [c \in Candidates |-> "none"]
  /\ stop = [c \in Candidates |-> "none"]
  /\ in_flight = {}
  /\ sent = [r \in Requests |-> 0]

Send(kind, c) ==
  /\ in_flight' = in_flight \cup {<<kind, c>>}
  /\ sent' = [sent EXCEPT ![<<kind, c>>] = IF @ = 0 THEN 1 ELSE 2]
  /\ UNCHANGED <<order, stop>>

Arrived(kind, c) == <<kind, c>> \notin in_flight

------------------------------------------------------------------------------
(* What the read methods return.                                           *)
Decoded(c) ==
  CASE order[c] = "new" -> "accepted"
    [] order[c] = "fill" -> "filled"
    [] OTHER -> order[c]

Holds(c) == order[c] = "fill" /\ stop[c] # "executed"

ActiveOrders ==
  \E c \in Candidates : order[c] = "new" \/ stop[c] = "triggered"

------------------------------------------------------------------------------
(* The broker and the network.                                             *)
DeliverBuy(c) ==
  /\ <<"buy", c>> \in in_flight
  /\ in_flight' = in_flight \ {<<"buy", c>>}
  /\ \E s \in IF order[c] = "none" THEN {"new", "rejected"} ELSE {order[c]} :
       order' = [order EXCEPT ![c] = s]
  /\ UNCHANGED <<stop, sent>>

DeliverCancel(c) ==
  /\ <<"cancel", c>> \in in_flight
  /\ in_flight' = in_flight \ {<<"cancel", c>>}
  /\ order' = [order EXCEPT ![c] = IF @ = "new" THEN "cancelled" ELSE @]
  /\ UNCHANGED <<stop, sent>>

DeliverStop(c) ==
  /\ <<"stop", c>> \in in_flight
  /\ in_flight' = in_flight \ {<<"stop", c>>}
  /\ stop' = [stop EXCEPT ![c] = IF @ = "none" THEN "active" ELSE @]
  /\ UNCHANGED <<order, sent>>

Lose(r) ==
  /\ r \in in_flight
  /\ in_flight' = in_flight \ {r}
  /\ UNCHANGED <<order, stop, sent>>

OrderEnds(c) ==                 \* filled, or a DAY order that expires
  /\ order[c] = "new"
  /\ \E s \in {"fill", "cancelled"} : order' = [order EXCEPT ![c] = s]
  /\ UNCHANGED <<stop, in_flight, sent>>

StopTriggers(c) ==
  /\ stop[c] = "active"
  /\ stop' = [stop EXCEPT ![c] = "triggered"]
  /\ UNCHANGED <<order, in_flight, sent>>

ChildEnds(c) ==
  /\ stop[c] = "triggered"
  /\ \E s \in {"executed", "expired"} : stop' = [stop EXCEPT ![c] = s]
  /\ UNCHANGED <<order, in_flight, sent>>

Broker ==
  \/ \E c \in Candidates :
       \/ DeliverBuy(c) \/ DeliverCancel(c) \/ DeliverStop(c)
       \/ OrderEnds(c) \/ StopTriggers(c) \/ ChildEnds(c)
  \/ \E r \in Requests : Lose(r)
==============================================================================
