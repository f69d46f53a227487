------------------------------ MODULE MCBeside ------------------------------
(***************************************************************************)
(* What runs beside a trade of the production account without its lock:    *)
(* the observer of the single-use trade, the capture of its evidence for a *)
(* disaster archive, and the canary's sale beside the supervised entry.    *)
(* Which of them moves is chosen at the beginning; the variables that it   *)
(* has not stay empty.  The constants are those of the modules.            *)
(***************************************************************************)
EXTENDS ProdOnceObserver, DisasterRecovery

VARIABLES
  part,                                   \* the machine that moves
  approval, enrolled, session, sale       \* the supervised trade

canary == <<approval, enrolled, session, sale>>
beside_vars == <<part, all_vars, observer_vars, canary>>

Canary == INSTANCE SupervisedTradeProofs

------------------------------------------------------------------------------
NoOnce == claim = NoCandidate /\ fences = {} /\ backup = <<>> /\ process = <<>>
NoObserver == observer = <<>> /\ moments = {}
NoRecovery ==
  enabled = "off" /\ job = <<>> /\ archive = <<>> /\ trusted = <<>> /\ bought = {}
NoCanary == approval = <<>> /\ enrolled = FALSE /\ session = <<>> /\ sale = <<>>

BesideInit ==
  \/ part = "observer" /\ ObservedInit /\ NoRecovery /\ NoCanary
  \/ part = "recovery" /\ Init0 /\ NoObserver /\ NoCanary
  \/ part = "canary" /\ Canary!CanaryInit /\ NoOnce /\ NoObserver /\ NoRecovery

BesideNext ==
  /\ \/ part = "observer" /\ ObservedNext /\ UNCHANGED <<dr_vars, canary>>
     \/ part = "recovery" /\ RecoveryNext /\ UNCHANGED <<observer_vars, canary>>
     \/ part = "canary" /\ Canary!CanaryNext
          /\ UNCHANGED <<claim, fences, backup, process, observer_vars, dr_vars>>
  /\ UNCHANGED part

BesideSpec == BesideInit /\ [][BesideNext]_beside_vars

------------------------------------------------------------------------------
(* The properties are those of the modules, each of the part that moves.   *)

(* What the observer calls OK was so at one moment while it read, and a    *)
(* trade whose evidence is lost is no trade to it                          *)
(* (prod_once_observer.py:42, 85).                                         *)
ObserverIsRight == part = "observer" => ReportIsTrue

(* No evidence that is captured, archived or accepted hides a BUY that was *)
(* sent (dr_journals.py:264, 535).                                         *)
ArchivesHideNothing == part = "recovery" => EvidenceHidesNothing

(* A session that is killed leaves evidence that can be captured, and what *)
(* is sealed is the evidence as it stood (dr_journals.py:230, 407).        *)
EvidenceIsKept ==
  [][part = "recovery" => SessionsLeaveItFit /\ SealedAsItStood]_beside_vars

(* A sale without the lock waits for the entry, is sent once, and leaves   *)
(* both journals true (live_operator.py:385).                              *)
CanaryIsSafe == part = "canary" => Canary!CanaryIsSafe
==============================================================================
