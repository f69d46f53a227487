-------------------------------- MODULE OneShot --------------------------------
(***************************************************************************)
(* What a one-shot runner promises, however often its commands are killed  *)
(* and its database is restored: there is one attempt.  Once an attempt is *)
(* claimed it is spent, whether it bought or not; it sends one BUY and,    *)
(* after that BUY was filled, one protective stop.                         *)
(***************************************************************************)
EXTENDS Naturals

VARIABLES
  attempt,   \* "armed", "trying" while its BUY may still be sent, or "spent"
  buys,      \* BUY requests sent
  filled,    \* the broker filled one
  stops      \* stop requests sent

Init == attempt = "armed" /\ buys = 0 /\ filled = FALSE /\ stops = 0

Claim ==
  /\ attempt = "armed" /\ attempt' = "trying"
  /\ UNCHANGED <<buys, filled, stops>>

GiveUp ==
  /\ attempt = "trying" /\ attempt' = "spent"
  /\ UNCHANGED <<buys, filled, stops>>

Buy ==
  /\ attempt = "trying" /\ attempt' = "spent"
  /\ buys = 0 /\ buys' = 1
  /\ UNCHANGED <<filled, stops>>

Fill ==
  /\ buys = 1 /\ ~ filled /\ filled'
  /\ UNCHANGED <<attempt, buys, stops>>

Stop ==
  /\ attempt = "spent" /\ filled
  /\ stops = 0 /\ stops' = 1
  /\ UNCHANGED <<attempt, buys, filled>>

Next == Claim \/ GiveUp \/ Buy \/ Fill \/ Stop

Spec == Init /\ [][Next]_<<attempt, buys, filled, stops>>
==============================================================================
