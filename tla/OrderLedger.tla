----------------------------- MODULE OrderLedger -----------------------------
(***************************************************************************)
(* What the durable order journal promises, whatever its tables look like: *)
(* an account has at most one order whose outcome is not known, an order   *)
(* is opened once, is closed once, and keeps the outcome it was closed     *)
(* with.  The only exception is one import of historical orders into an    *)
(* empty ledger that is quarantined for review.                            *)
(***************************************************************************)

CONSTANTS
  Order,           \* every order that may ever be opened
  Outcome,         \* what an order may be closed with
  AccountOf(_)     \* the account an order belongs to

VARIABLES
  open,            \* the orders whose outcome is not known
  closed           \* the orders with an outcome, and that outcome

Closing == [order : Order, outcome : Outcome]

Opened(o) == o \in open \/ \E c \in closed : c.order = o

Init == open = {} /\ closed = {}

Open(o) ==
  /\ ~ Opened(o)
  /\ \A p \in open : AccountOf(p) # AccountOf(o)
  /\ open' = open \cup {o}
  /\ UNCHANGED closed

Close(o, result) ==
  /\ o \in open
  /\ open' = open \ {o}
  /\ closed' = closed \cup {[order |-> o, outcome |-> result]}

Import(orders) ==
  /\ open = {} /\ closed = {}
  /\ open' = orders
  /\ UNCHANGED closed

Next ==
  \/ \E o \in Order : Open(o)
  \/ \E o \in Order, result \in Outcome : Close(o, result)
  \/ \E orders \in SUBSET Order : Import(orders)

Spec == Init /\ [][Next]_<<open, closed>>
==============================================================================
