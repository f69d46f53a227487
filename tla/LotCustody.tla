------------------------------ MODULE LotCustody ------------------------------
(***************************************************************************)
(* What a supervised trade promises about the one lot it may own: it is    *)
(* bought at most once and sold at most once, and at every moment at most  *)
(* one order, the native stop or the take-profit sale, can sell it.  The   *)
(* stop protects the lot first; the sale may take over only once the stop  *)
(* is given up, and nothing sells the lot after that sale was offered.     *)
(***************************************************************************)
VARIABLES
  lot,       \* "none", "held" or "sold"
  seller     \* who may sell it: "nobody", "stop" or "sale", or "over"

Init == lot = "none" /\ seller = "nobody"

Buy ==
  /\ lot = "none" /\ seller = "nobody"
  /\ lot' = "held"
  /\ UNCHANGED seller

Protect ==
  /\ lot = "held" /\ seller = "nobody"
  /\ seller' = "stop"
  /\ UNCHANGED lot

GiveUp ==          \* the stop was cancelled, or its request or its child is lost
  /\ lot = "held" /\ seller = "stop"
  /\ seller' = "released"
  /\ UNCHANGED lot

OfferSale ==
  /\ lot = "held" /\ seller = "released"
  /\ seller' = "sale"
  /\ UNCHANGED lot

SaleFails ==
  /\ lot = "held" /\ seller = "sale"
  /\ seller' = "over"
  /\ UNCHANGED lot

Sell ==
  /\ lot = "held" /\ seller \in {"stop", "sale"}
  /\ lot' = "sold" /\ seller' = "over"

Next == Buy \/ Protect \/ GiveUp \/ OfferSale \/ SaleFails \/ Sell

Spec == Init /\ [][Next]_<<lot, seller>>
==============================================================================
