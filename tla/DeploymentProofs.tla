--------------------------- MODULE DeploymentProofs ---------------------------
(***************************************************************************)
(* Proofs about timers, services, scripts and the operator's commands, for *)
(* every number of revisions that are deployed.                            *)
(***************************************************************************)
EXTENDS Deployment, TLAPS

(* Only an update goes as far as the files.                                *)
UpdateOnly ==
  {"disabled", "copied", "described", "installed", "checked", "restarted"}

(* A script has both locks from its first step to its last: no writer is   *)
(* at work, no session of production during an update, no `start`.  It     *)
(* never notes the timer of production, a backup not that of the isolated  *)
(* LONG, and it is not past the checks but with what they have passed.     *)
LocksAreHeld ==
  /\ Running("idle") => script = NoScript
  /\ ~ Running("idle") =>
       /\ "shadow" \notin working /\ "once" \notin working
       /\ start.pc = "idle"
  /\ script.name = "update" => ~ session
  /\ script.pc \in UpdateOnly => script.name = "update"
  /\ Running("locked") => script.was = {}
  /\ script.was \subseteq Ordinary \cup {"once"}
  /\ script.name # "update" => script.was \subseteq Ordinary
  /\ script.pc \in {"checked", "restarted"} => tree = "whole"

(* Production is not scheduled by anything, a boot included, but with the  *)
(* revision that was armed, and not at all while the files change.         *)
ProdIsArmed ==
  /\ "prod" \in timers \cup enabled => armed = release
  /\ script.pc \in UpdateOnly => "prod" \notin timers \cup enabled

(* What the trap put back is there until the script ends.                  *)
OrdinaryAreBack ==
  Running("restarted") /\ word = "start" => script.was \cap Ordinary \subseteq timers

IInv == ReleaseIsSafe /\ LocksAreHeld /\ ProdIsArmed /\ OrdinaryAreBack

(* No script runs, nothing is armed and no lock is taken at the start.     *)
LEMMA Initially == Init => IInv
<1> SUFFICES ASSUME Init PROVE IInv
  OBVIOUS
<1> USE ReleaseAssumption DEF Init, NoScript, NoStart, Running
<1>1. TypeOK
  <2>1. /\ script \in [name : {"none"}, pc : {"idle"}, was : SUBSET Units]
        /\ start \in [pc : {"idle"}, long : {"none"}]
    OBVIOUS
  <2>2. release \in Revisions /\ grant = NoRevision /\ armed = NoRevision
    BY DEF Revisions
  <2>3. script \in [name : {"none", "update", "disaster-backup"},
                   pc : {"idle", "locked", "recorded", "stopped", "disabled", "copied",
                         "described", "installed", "checked", "restarted", "failed"},
                   was : SUBSET Units]
    BY <2>1
  <2>4. start \in [pc : {"idle", "shadow", "shadow_runs", "intraday", "intraday_runs", "enable"},
                  long : {"none"} \cup LongWriters]
    BY <2>1
  <2> QED
    BY <2>2, <2>3, <2>4 DEF TypeOK
<1>2. OneLongWriter
  BY DEF OneLongWriter
<1>3. ProdAsReviewed
  BY DEF ProdAsReviewed
<1>4. LocksAreHeld
  BY DEF LocksAreHeld, UpdateOnly
<1>5. ProdIsArmed
  BY DEF ProdIsArmed, UpdateOnly
<1>6. OrdinaryAreBack
  BY DEF OrdinaryAreBack
<1> QED
  BY <1>1, <1>2, <1>3, <1>4, <1>5, <1>6 DEF IInv, ReleaseIsSafe

(* Every step of a script, of systemd and of the operator keeps it.        *)
LEMMA Inductive == IInv /\ [Next]_vars => IInv'
<1> SUFFICES ASSUME IInv, [Next]_vars PROVE IInv'
  OBVIOUS
<1> USE ReleaseAssumption DEF IInv, ReleaseIsSafe, TypeOK, OneLongWriter, ProdAsReviewed, LocksAreHeld, ProdIsArmed,
          OrdinaryAreBack, UpdateOnly, Units, Ordinary, LongWriters, Revisions, NoRevision, NoScript, NoStart,
          services, units, account, installation, admission, commands, Running, AtWork
<1>1. ASSUME Elapse PROVE IInv'
  <2>1. TypeOK'
    <3>1. working' \subseteq Units /\ working \subseteq working'
      BY <1>1 DEF Elapse, Legacy, Once, Prod, Intraday, Begins
    <3> QED
      BY <1>1, <3>1 DEF Elapse
  <2>2. OneLongWriter'
    BY <1>1 DEF Elapse, Legacy, Once, Prod, Intraday, Begins, WriterFree
  <2>3. ProdAsReviewed'
    BY <1>1 DEF Elapse, Legacy, Once, Prod, Intraday, Begins, WriterFree
  <2>4. LocksAreHeld'
    BY <1>1 DEF Elapse, Legacy, Once, Prod, Intraday, Begins, WriterFree
  <2>5. ProdIsArmed'
    BY <1>1 DEF Elapse, Legacy, Once, Prod, Intraday, Begins, WriterFree
  <2>6. OrdinaryAreBack'
    BY <1>1 DEF Elapse, Legacy, Once, Prod, Intraday, Begins, WriterFree
  <2> QED
    BY <2>1, <2>2, <2>3, <2>4, <2>5, <2>6
<1>2. ASSUME Session PROVE IInv'
  BY <1>2 DEF Session, SessionFree
<1>3. ASSUME Claim PROVE IInv'
  BY <1>3 DEF Claim
<1>4. ASSUME NEW s \in Units, Ends(s) PROVE IInv'
  <2>1. TypeOK'
    <3>1. session' \in BOOLEAN
      BY <1>4 DEF Ends
    <3>2. session' => "prod" \in working'
      BY <1>4 DEF Ends
    <3> QED
      BY <1>4, <3>1, <3>2 DEF Ends
  <2>2. OneLongWriter'
    BY <1>4 DEF Ends
  <2>3. ProdAsReviewed'
    BY <1>4 DEF Ends
  <2>4. LocksAreHeld'
    BY <1>4 DEF Ends
  <2>5. ProdIsArmed'
    BY <1>4 DEF Ends
  <2>6. OrdinaryAreBack'
    BY <1>4 DEF Ends
  <2> QED
    BY <2>1, <2>2, <2>3, <2>4, <2>5, <2>6
<1>5. ASSUME Begin PROVE IInv'
  <2>1. TypeOK'
    <3>1. script' \in [name : {"update", "disaster-backup"}, pc : {"locked"}, was : {{}}]
      BY <1>5 DEF Begin, Update, DisasterBackup
    <3> QED
      BY <1>5, <3>1 DEF Begin
  <2>2. OneLongWriter'
    BY <1>5 DEF Begin, Update, DisasterBackup, Idle, SessionFree, WriterFree
  <2>3. ProdAsReviewed'
    BY <1>5 DEF Begin, Update, DisasterBackup, Idle, SessionFree, WriterFree
  <2>4. LocksAreHeld'
    BY <1>5 DEF Begin, Update, DisasterBackup, Idle, SessionFree, WriterFree
  <2>5. ProdIsArmed'
    BY <1>5 DEF Begin, Update, DisasterBackup, Idle, SessionFree, WriterFree
  <2>6. OrdinaryAreBack'
    BY <1>5 DEF Begin, Update, DisasterBackup, Idle, SessionFree, WriterFree
  <2> QED
    BY <2>1, <2>2, <2>3, <2>4, <2>5, <2>6
<1>6. ASSUME GiveUp PROVE IInv'
  BY <1>6 DEF GiveUp
<1>7. ASSUME Record PROVE IInv'
  <2>1. TypeOK'
    BY <1>7 DEF Record
  <2>2. OneLongWriter'
    BY <1>7 DEF Record
  <2>3. ProdAsReviewed'
    BY <1>7 DEF Record
  <2>4. LocksAreHeld'
    BY <1>7 DEF Record
  <2>5. ProdIsArmed'
    BY <1>7 DEF Record
  <2>6. OrdinaryAreBack'
    BY <1>7 DEF Record
  <2> QED
    BY <2>1, <2>2, <2>3, <2>4, <2>5, <2>6
<1>8. ASSUME StopTimers PROVE IInv'
  BY <1>8 DEF StopTimers, Proceed
<1>9. ASSUME DisableProd PROVE IInv'
  BY <1>9 DEF DisableProd, At, Proceed
<1>10. ASSUME Copy PROVE IInv'
  BY <1>10 DEF Copy, Proceed
<1>11. ASSUME Describe PROVE IInv'
  BY <1>11 DEF Describe, Proceed
<1>12. ASSUME Install PROVE IInv'
  BY <1>12 DEF Install, Proceed
<1>13. ASSUME Check PROVE IInv'
  BY <1>13 DEF Check, Proceed
<1>14. ASSUME Restart PROVE IInv'
  BY <1>14 DEF Restart, restart_timers, At, Proceed
<1>15. ASSUME Resume PROVE IInv'
  BY <1>15 DEF Resume
<1>16. ASSUME Fail PROVE IInv'
  BY <1>16 DEF Fail, Proceed
<1>17. ASSUME Trap PROVE IInv'
  <2>1. TypeOK'
    BY <1>17 DEF Trap, restart_timers
  <2>2. OneLongWriter'
    BY <1>17 DEF Trap, restart_timers
  <2>3. ProdAsReviewed'
    BY <1>17 DEF Trap, restart_timers
  <2>4. LocksAreHeld'
    BY <1>17 DEF Trap, restart_timers
  <2>5. ProdIsArmed'
    BY <1>17 DEF Trap, restart_timers
  <2>6. OrdinaryAreBack'
    BY <1>17 DEF Trap, restart_timers
  <2> QED
    BY <2>1, <2>2, <2>3, <2>4, <2>5, <2>6
<1>18. ASSUME Kill PROVE IInv'
  BY <1>18 DEF Kill
<1>19. ASSUME Reboot PROVE IInv'
  BY <1>19 DEF Reboot
<1>20. ASSUME Prelaunch PROVE IInv'
  BY <1>20 DEF Prelaunch, Idle, long_timer
<1>21. ASSUME FirstShadow PROVE IInv'
  BY <1>21 DEF FirstShadow, Legacy, WriterFree, Begins, Blocked
<1>22. ASSUME ShadowRan PROVE IInv'
  BY <1>22 DEF ShadowRan, Blocked
<1>23. ASSUME FirstIntraday PROVE IInv'
  BY <1>23 DEF FirstIntraday, Intraday, Begins
<1>24. ASSUME IntradayRan PROVE IInv'
  BY <1>24 DEF IntradayRan, Blocked
<1>25. ASSUME EnableTimers PROVE IInv'
  BY <1>25 DEF EnableTimers
<1>26. ASSUME Stop PROVE IInv'
  BY <1>26 DEF Stop
<1>27. ASSUME enable_prod_long_once PROVE IInv'
  BY <1>27 DEF enable_prod_long_once, Idle
<1>28. ASSUME Enrol PROVE IInv'
  BY <1>28 DEF Enrol
<1>29. ASSUME EnableOnce PROVE IInv'
  <2>1. TypeOK'
    BY <1>29 DEF EnableOnce, Idle
  <2>2. OneLongWriter'
    BY <1>29 DEF EnableOnce, Idle
  <2>3. ProdAsReviewed'
    BY <1>29 DEF EnableOnce, Idle
  <2>4. LocksAreHeld'
    BY <1>29 DEF EnableOnce, Idle
  <2>5. ProdIsArmed'
    BY <1>29 DEF EnableOnce, Idle
  <2>6. OrdinaryAreBack'
    BY <1>29 DEF EnableOnce, Idle
  <2> QED
    BY <2>1, <2>2, <2>3, <2>4, <2>5, <2>6
<1>30. ASSUME Review PROVE IInv'
  BY <1>30 DEF Review, Idle
<1>31. ASSUME UNCHANGED vars PROVE IInv'
  BY <1>31 DEF vars
<1> QED
  BY <1>1, <1>2, <1>3, <1>4, <1>5, <1>6, <1>7, <1>8, <1>9, <1>10, <1>11, <1>12, <1>13, <1>14, <1>15, <1>16, <1>17, <1>18, <1>19, <1>20, <1>21, <1>22, <1>23, <1>24, <1>25, <1>26, <1>27, <1>28, <1>29, <1>30, <1>31
  DEF Next, Script, Start
------------------------------------------------------------------------------
(* Every state of the machine, whatever script is killed where and         *)
(* whatever boots, satisfies the invariant (update.sh:54, :130, :153).     *)
THEOREM Invariance == Spec => []IInv
<1>1. Init => IInv
  BY Initially
<1>2. IInv /\ [Next]_vars => IInv'
  BY Inductive
<1> QED
  BY <1>1, <1>2, PTL DEF Spec

(* Whatever is deployed, how often, and whatever is killed and rebooted:   *)
(* the legacy LONG is never at work beside the isolated one or after its   *)
(* attempt, production is scheduled only with the revision that was armed, *)
(* and its session is of the revision that was reviewed.                   *)
THEOREM ReleaseStaysSafe == Spec => []ReleaseIsSafe
<1>1. IInv => ReleaseIsSafe
  BY DEF IInv
<1> QED
  BY <1>1, Invariance, PTL

(* No step replaces code under a session of production or a writer of the  *)
(* LONG account: only the copy of the files, their manifest, the           *)
(* installation of the package and the check of an update do, and an       *)
(* update has both locks.                                                  *)
THEOREM NoWriterDisturbed == Spec => NothingReplacedUnderAWriter
<1> DEFINE A == <<release, tree>>' # <<release, tree>> => ~ session /\ working \cap LongWriters = {}
<1>1. IInv /\ [Next]_vars => A
  <2> SUFFICES ASSUME IInv, [Next]_vars, ~ UNCHANGED <<release, tree>>
               PROVE  ~ session /\ working \cap LongWriters = {}
    OBVIOUS
  <2>1. Running("disabled") \/ Running("copied") \/ Running("described") \/ Running("installed")
    <3>1. CASE Script
      BY <3>1 DEF Script, GiveUp, Record, StopTimers, DisableProd, Copy, Describe, Install, Check,
                  Restart, Resume, Fail, Trap, installation
    <3>2. CASE ~ Script
      BY <3>2 DEF Next, vars, Elapse, Session, Claim, Ends, Begin, Kill, Reboot, Start, Prelaunch,
                  FirstShadow, ShadowRan, FirstIntraday, IntradayRan, EnableTimers, Stop,
                  enable_prod_long_once, Enrol, EnableOnce, Review, installation
    <3> QED
      BY <3>1, <3>2
  <2> QED
    BY <2>1 DEF IInv, LocksAreHeld, UpdateOnly, Running, LongWriters
<1>2. IInv /\ [Next]_vars => [A]_vars
  BY <1>1
<1> QED
  BY <1>2, Invariance, PTL DEF Spec, NothingReplacedUnderAWriter

(* No step of a script, the trap's included, starts a timer that was not   *)
(* active before it, starts that of the isolated LONG on files that have   *)
(* not passed the checks, or that of production.                           *)
THEOREM NothingElseStarted == Spec => OnlyWhatWasThere
<1> DEFINE started == timers' \ timers
           A == Script => started \subseteq script.was \ {"prod"} /\ ("once" \in started => tree = "whole")
<1>1. IInv /\ [Next]_vars => A
  <2> SUFFICES ASSUME IInv, Script
               PROVE  started \subseteq script.was \ {"prod"} /\ ("once" \in started => tree = "whole")
    OBVIOUS
  <2>1. "prod" \notin script.was
    BY DEF IInv, LocksAreHeld, Ordinary
  <2>2. CASE GiveUp \/ Record \/ StopTimers \/ DisableProd \/ Copy \/ Describe \/ Install \/ Check \/ Fail
    BY <2>2 DEF GiveUp, Record, StopTimers, DisableProd, Copy, Describe, Install, Check, Fail, units
  <2>3. CASE Restart \/ Trap
    BY <2>1, <2>3 DEF Restart, Trap, restart_timers, Ordinary
  <2>4. CASE Resume
    BY <2>1, <2>4 DEF Resume, Running, IInv, LocksAreHeld
  <2> QED
    BY <2>2, <2>3, <2>4 DEF Script
<1>2. IInv /\ [Next]_vars => [A]_vars
  BY <1>1
<1> QED
  BY <1>2, Invariance, PTL DEF Spec, OnlyWhatWasThere

(* A script that ends by itself leaves every timer that it found active,   *)
(* but the isolated LONG's when it fails, and production's.                *)
THEOREM NoTimerLost == Spec => TimersComeBack
<1> DEFINE owed == IF Running("failed") THEN script.was \cap Ordinary ELSE script.was
           A == Script /\ script' = NoScript /\ word = "start" => owed \subseteq timers'
<1>1. IInv /\ [Next]_vars => A
  <2> SUFFICES ASSUME IInv, Script, script' = NoScript, word = "start"
               PROVE  owed \subseteq timers'
    OBVIOUS
  <2>1. script'.pc = "idle"
    BY DEF NoScript
  <2>2. CASE GiveUp
    BY <2>2 DEF GiveUp, IInv, LocksAreHeld
  <2>3. CASE Restart
    <3>1. At("disaster-backup", "stopped")
      BY <2>1, <2>3 DEF Restart, Proceed, Running, At, IInv, LocksAreHeld, UpdateOnly, ReleaseIsSafe, TypeOK
    <3> QED
      BY <3>1, <2>3 DEF Restart, restart_timers, At, IInv, LocksAreHeld
  <2>4. CASE Resume
    BY <2>4 DEF Resume, Running, IInv, LocksAreHeld, OrdinaryAreBack
  <2>5. CASE Trap
    BY <2>5 DEF Trap, restart_timers
  <2>6. ~ (Record \/ StopTimers \/ DisableProd \/ Copy \/ Describe \/ Install \/ Check \/ Fail)
    BY <2>1 DEF IInv, ReleaseIsSafe, TypeOK, Record, StopTimers, DisableProd, Copy, Describe, Install, Check, Fail, Proceed
  <2> QED
    BY <2>2, <2>3, <2>4, <2>5, <2>6 DEF Script
<1>2. IInv /\ [Next]_vars => [A]_vars
  BY <1>1
<1> QED
  BY <1>2, Invariance, PTL DEF Spec, TimersComeBack

(* The three together are what the run checks of each step.                *)
THEOREM NobodyDisturbed == Spec => UpdatesDisturbNobody
BY NoWriterDisturbed, NothingElseStarted, NoTimerLost DEF UpdatesDisturbNobody
===============================================================================
