------------------------------ MODULE Deployment ------------------------------
(***************************************************************************)
(* The timers and services of the host, the scripts that stop them to      *)
(* change or copy what they use (update.sh, disaster-backup.sh), and the   *)
(* operator's commands (moex-botctl start, stop, prod-long-once-enable).   *)
(*                                                                         *)
(* Every timer starts a service of its name: "shadow" is the legacy LONG   *)
(* of the sandbox, "once" its isolated single-use successor, "prod" the    *)
(* single-use LONG of the production account; "intraday" stands for the    *)
(* timers that take part in none of the locks.  Two locks, both tried and  *)
(* never waited for: the session lock of production, and the writer lock   *)
(* of the sandbox LONG account.  A lock ends with the process that has it. *)
(***************************************************************************)
EXTENDS Naturals

CONSTANT MaxRelease    \* bound: revisions that there are to deploy

ASSUME ReleaseAssumption == MaxRelease \in Nat \ {0}

VARIABLES
  timers,    \* the active ones
  enabled,   \* those that the host starts at boot
  working,   \* the services that run
  session,   \* "prod" has the session of production
  owned,     \* the LONG account is reserved for the isolated runner
  claimed,   \* ... which has made its attempt
  release,   \* the revision under /opt ...
  tree,      \* ... and whether its files, package and configuration fit together
  grant,     \* the revision that the operator's admission to production is for
  armed,     \* the revision that `prod-long-once-enable` armed
  script,    \* the maintenance script, where it is, and the timers it found active
  start,     \* where `moex-botctl start` is, and the LONG timer it selected
  word       \* the operator's last command: "start" or "stop"

vars == <<timers, enabled, working, session, owned, claimed, release, tree, grant, armed,
          script, start, word>>
services == <<working, session>>
units == <<timers, enabled, services>>
account == <<owned, claimed>>
installation == <<release, tree>>
admission == <<grant, armed>>
commands == <<script, start, word>>

Units == {"shadow", "intraday", "once", "prod"}
Ordinary == {"shadow", "intraday"}
LongWriters == {"shadow", "once"}
Revisions == 0..MaxRelease
NoRevision == MaxRelease + 1

NoScript == [name |-> "none", pc |-> "idle", was |-> {}]
NoStart == [pc |-> "idle", long |-> "none"]

TypeOK ==
  /\ timers \subseteq Units /\ enabled \subseteq Units /\ working \subseteq Units
  /\ session \in BOOLEAN /\ (session => "prod" \in working)
  /\ owned \in BOOLEAN /\ claimed \in BOOLEAN
  /\ release \in Revisions /\ tree \in {"whole", "mixed", "unchecked"}
  /\ grant \in Revisions \cup {NoRevision} /\ armed \in Revisions \cup {NoRevision}
  /\ script \in [name : {"none", "update", "disaster-backup"},
                 pc : {"idle", "locked", "recorded", "stopped", "disabled", "copied",
                       "described", "installed", "checked", "restarted", "failed"}, was : SUBSET Units]
  /\ start \in [pc : {"idle", "shadow", "shadow_runs", "intraday", "intraday_runs", "enable"},
                long : {"none"} \cup LongWriters]
  /\ word \in {"start", "stop"}

------------------------------------------------------------------------------
AtWork(s) == s \in working
At(name, pc) == script.name = name /\ script.pc = pc
Running(pc) == script.pc = pc
Proceed(pc) == script' = [script EXCEPT !.pc = pc]
Idle == Running("idle") /\ start.pc = "idle"

SessionFree == ~ session /\ script.name # "update"
WriterFree == ~ AtWork("shadow") /\ ~ AtWork("once") /\ Running("idle")

Whole == tree # "mixed"         \* version_status(): manifest, revision and package agree

Begins(s) == working' = working \cup {s}

------------------------------------------------------------------------------
(* The services.  A cycle takes its lock, or fails, and looks at who owns  *)
(* the account while it has it.                                            *)
LegacyUnasked ==                \* mutant: the owner of the account is not looked at
  /\ WriterFree
  /\ Begins("shadow")

Legacy ==                       \* run-shadow-cycle.sh
  /\ WriterFree
  /\ ~ owned /\ ~ claimed
  /\ Begins("shadow")

Once ==                         \* run-long-once-sandbox.sh
  /\ WriterFree
  /\ owned /\ ~ claimed
  /\ Begins("once")

Prod ==                         \* run-long-once-prod.sh, which first reads and plans
  /\ ~ AtWork("prod") /\ grant = release
  /\ Begins("prod")

Intraday == ~ AtWork("intraday") /\ Begins("intraday")

Elapse ==                       \* a timer starts its service
  /\ \/ "shadow" \in timers /\ Legacy
     \/ "once" \in timers /\ Once
     \/ "prod" \in timers /\ Prod
     \/ "intraday" \in timers /\ Intraday
  /\ UNCHANGED <<timers, enabled, session, account, installation, admission, commands>>

Session ==                      \* prod_long_once_operator run
  /\ AtWork("prod") /\ SessionFree /\ grant = release
  /\ session' = TRUE
  /\ UNCHANGED <<timers, enabled, working, account, installation, admission, commands>>

Claim ==
  /\ AtWork("once") /\ ~ claimed
  /\ claimed' = TRUE
  /\ UNCHANGED <<units, owned, installation, admission, commands>>

Ends(s) ==
  /\ AtWork(s)
  /\ working' = working \ {s}
  /\ session' = (session /\ s # "prod")
  /\ UNCHANGED <<timers, enabled, account, installation, admission, commands>>

------------------------------------------------------------------------------
(* update.sh, and disaster-backup.sh, which stops the services as well as  *)
(* their timers and changes nothing under /opt.                            *)
UpdateWithoutWriterLock ==      \* mutant: lock_long_writer is left out
  /\ Idle /\ SessionFree
  /\ script' = [NoScript EXCEPT !.name = "update", !.pc = "locked"]

Update ==
  /\ Idle /\ SessionFree /\ WriterFree
  /\ script' = [NoScript EXCEPT !.name = "update", !.pc = "locked"]

DisasterBackup ==
  /\ Idle /\ WriterFree
  /\ script' = [NoScript EXCEPT !.name = "disaster-backup", !.pc = "locked"]

Begin == (Update \/ DisasterBackup) /\ UNCHANGED <<units, account, installation, admission, start, word>>

GiveUp ==                       \* the backup, the checkout or the revision is refused
  /\ Running("locked")
  /\ script' = NoScript
  /\ UNCHANGED <<units, account, installation, admission, start, word>>

Record ==
  /\ Running("locked")
  /\ script' = [script EXCEPT !.pc = "recorded",
                  !.was = timers \cap (IF script.name = "update" THEN Ordinary \cup {"once"}
                                       ELSE Ordinary)]
  /\ UNCHANGED <<units, account, installation, admission, start, word>>

StopTimers ==
  /\ Running("recorded")
  /\ IF script.name = "update"
     THEN timers' = timers \ (Ordinary \cup {"once"}) /\ UNCHANGED working
     ELSE timers' = timers \ Ordinary /\ working' = working \ Ordinary
  /\ Proceed("stopped")
  /\ UNCHANGED <<enabled, session, account, installation, admission, start, word>>

DisableProd ==
  /\ At("update", "stopped")
  /\ timers' = timers \ {"prod"} /\ enabled' = enabled \ {"prod"}
  /\ Proceed("disabled")
  /\ UNCHANGED <<services, account, installation, admission, start, word>>

Copy ==                         \* rsync, of the revision that was pulled
  /\ Running("disabled")
  /\ release' \in {r \in Revisions : r \in {release, release + 1}}
  /\ tree' = "mixed"
  /\ Proceed("copied")
  /\ UNCHANGED <<units, account, admission, start, word>>

Describe ==                     \* version_status() may agree already: the package of the same version
  /\ Running("copied")
  /\ tree' \in {"mixed", "unchecked"}
  /\ Proceed("described")
  /\ UNCHANGED <<units, account, release, admission, start, word>>

Install ==                      \* the package
  /\ Running("described")
  /\ tree' = "unchecked"
  /\ Proceed("installed")
  /\ UNCHANGED <<units, account, release, admission, start, word>>

Check ==
  /\ Running("installed")
  /\ tree' = "whole"
  /\ Proceed("checked")
  /\ UNCHANGED <<units, account, release, admission, start, word>>

restart_timers == timers' = timers \cup (script.was \cap Ordinary)

Restart ==
  /\ Running("checked") \/ At("disaster-backup", "stopped")
  /\ restart_timers
  /\ IF script.name = "update" THEN Proceed("restarted") ELSE script' = NoScript
  /\ UNCHANGED <<enabled, services, account, installation, admission, start, word>>

Resume ==                       \* only now: the trap does not
  /\ Running("restarted")
  /\ timers' = timers \cup (script.was \cap {"once"})
  /\ script' = NoScript
  /\ UNCHANGED <<enabled, services, account, installation, admission, start, word>>

Fail ==
  /\ script.pc \in {"recorded", "stopped", "disabled", "copied", "described",
                   "installed", "checked"}
  /\ Proceed("failed")
  /\ UNCHANGED <<units, account, installation, admission, start, word>>

TrapOfSome ==                   \* mutant: `set -u` ends the trap when there was no active timer
  /\ Running("failed") /\ script.was # {}
  /\ restart_timers
  /\ script' = NoScript
  /\ UNCHANGED <<enabled, services, account, installation, admission, start, word>>

Trap ==
  /\ Running("failed")
  /\ restart_timers
  /\ script' = NoScript
  /\ UNCHANGED <<enabled, services, account, installation, admission, start, word>>

Script ==
  \/ GiveUp \/ Record \/ StopTimers \/ DisableProd \/ Copy \/ Describe \/ Install \/ Check
  \/ Restart \/ Resume \/ Fail \/ Trap

Kill ==                         \* the trap does not run
  /\ ~ Running("idle")
  /\ script' = NoScript
  /\ UNCHANGED <<units, account, installation, admission, start, word>>

Reboot ==
  /\ timers' = enabled /\ working' = {} /\ session' = FALSE
  /\ script' = NoScript /\ start' = NoStart
  /\ UNCHANGED <<enabled, account, installation, admission, word>>

------------------------------------------------------------------------------
(* moex-botctl start: the first cycles run before a timer is enabled.      *)
Blocked == start' = NoStart

long_timer == IF owned \/ claimed THEN "once" ELSE "shadow"

Prelaunch ==
  /\ Idle /\ Whole
  /\ IF long_timer = "once"
     THEN /\ "once" \in timers \cap enabled /\ "shadow" \notin timers \cup enabled
          /\ start' = [pc |-> "enable", long |-> "once"]
     ELSE start' = [pc |-> "shadow", long |-> long_timer]
  /\ word' = "start"
  /\ UNCHANGED <<units, account, installation, admission, script>>

FirstShadow ==
  /\ start.pc = "shadow"
  /\ IF owned \/ claimed THEN start' = [start EXCEPT !.pc = "intraday"] /\ UNCHANGED working
     ELSE \/ Legacy /\ start' = [start EXCEPT !.pc = "shadow_runs"]
          \/ Blocked /\ UNCHANGED working
  /\ UNCHANGED <<timers, enabled, session, account, installation, admission, script, word>>

ShadowRan ==
  /\ start.pc = "shadow_runs" /\ ~ AtWork("shadow")
  /\ Blocked \/ start' = [start EXCEPT !.pc = "intraday"]
  /\ UNCHANGED <<units, account, installation, admission, script, word>>

FirstIntraday ==
  /\ start.pc = "intraday"
  /\ Intraday
  /\ start' = [start EXCEPT !.pc = "intraday_runs"]
  /\ UNCHANGED <<timers, enabled, session, account, installation, admission, script, word>>

IntradayRan ==
  /\ start.pc = "intraday_runs" /\ ~ AtWork("intraday")
  /\ Blocked \/ start' = [start EXCEPT !.pc = "enable"]
  /\ UNCHANGED <<units, account, installation, admission, script, word>>

EnableTimers ==
  /\ start.pc = "enable"
  /\ LET chosen == {"intraday"} \cup ({start.long} \cap {"shadow"}) IN
     timers' = timers \cup chosen /\ enabled' = enabled \cup chosen
  /\ start' = NoStart
  /\ UNCHANGED <<services, account, installation, admission, script, word>>

Start == Prelaunch \/ FirstShadow \/ ShadowRan \/ FirstIntraday \/ IntradayRan \/ EnableTimers

(* moex-botctl stop, in an emergency whatever else goes on: a single-use   *)
(* LONG on its way to its stop is not interrupted, and neither is a script *)
(* or a `start` that runs.                                                 *)
Stop ==
  /\ timers' = {} /\ enabled' = {}
  /\ working' = working \ Ordinary
  /\ word' = "stop"
  /\ UNCHANGED <<session, account, installation, admission, script, start>>

enable_prod_long_once ==
  /\ Idle /\ Whole /\ grant = release
  /\ timers' = timers \cup {"prod"} /\ enabled' = enabled \cup {"prod"}
  /\ armed' = release /\ word' = "start"
  /\ UNCHANGED <<services, account, installation, grant, script, start>>

------------------------------------------------------------------------------
(* What the operator does by hand, when no command of his is running.      *)
Enrol ==
  /\ Running("idle") /\ ~ owned
  /\ owned' = TRUE
  /\ UNCHANGED <<units, claimed, installation, admission, commands>>

EnableOnce ==                   \* the legacy timer may be forgotten
  /\ Idle /\ owned /\ Whole
  /\ \E legacy \in {{}, {"shadow"}} :
       /\ timers' = (timers \cup {"once"}) \ legacy
       /\ enabled' = (enabled \cup {"once"}) \ legacy
  /\ word' = "start"
  /\ UNCHANGED <<services, account, installation, admission, script, start>>

Review ==
  /\ Idle /\ Whole
  /\ grant' = release
  /\ UNCHANGED <<units, account, installation, armed, commands>>

Init ==
  /\ timers = {} /\ enabled = {} /\ working = {} /\ session = FALSE
  /\ owned = FALSE /\ claimed = FALSE
  /\ release = 0 /\ tree = "whole"
  /\ grant = NoRevision /\ armed = NoRevision
  /\ script = NoScript /\ start = NoStart /\ word = "stop"

Next ==
  \/ Elapse \/ Session \/ Claim \/ \E s \in Units : Ends(s)
  \/ Begin \/ Script \/ Kill \/ Reboot
  \/ Start \/ Stop \/ enable_prod_long_once
  \/ Enrol \/ EnableOnce \/ Review

Spec == Init /\ [][Next]_vars /\ WF_vars(Script)

------------------------------------------------------------------------------
(* Code is never replaced under a session of production or under a command *)
(* that writes to the LONG account (update.sh:153, "no BUY -> stop is      *)
(* interrupted here"); the intraday cycle has no such lock.                *)
NothingReplacedUnderAWriter ==
  [][<<release, tree>>' # <<release, tree>> =>
       ~ session /\ working \cap LongWriters = {}]_vars

(* The legacy runner never trades beside the isolated one, or after it has *)
(* made its attempt, whenever the account was handed over                  *)
(* (run-shadow-cycle.sh:12, "locked handoff").                             *)
OneLongWriter ==
  "shadow" \in working => "once" \notin working /\ ~ claimed

(* Real money is traded by the revision that was reviewed and armed: an    *)
(* update takes the timer back, and no boot brings it again.               *)
ProdAsReviewed ==
  /\ "prod" \in timers => armed = release
  /\ session => grant = release

(* Whatever is deployed, killed and rebooted meanwhile, the LONG account   *)
(* has one writer and real money the reviewed code.                        *)
ReleaseIsSafe == TypeOK /\ OneLongWriter /\ ProdAsReviewed

(* A script starts no timer that it did not find active; that of the       *)
(* isolated LONG only on code that has passed the checks, and that of      *)
(* production never (update.sh:212, and :152, "never auto-resume it").     *)
OnlyWhatWasThere ==
  [][Script => LET started == timers' \ timers IN
       /\ started \subseteq script.was \ {"prod"}
       /\ "once" \in started => tree = "whole"]_vars

(* A script that succeeds leaves every timer active that it found so and   *)
(* stopped; one that fails, the ordinary ones (update.sh:130 and           *)
(* disaster-backup.sh:88, the traps): that of the isolated LONG stays down *)
(* after a failed update, and that of production after every update.  A    *)
(* kill leaves them all down, and a `stop` in between is the operator's.   *)
TimersComeBack ==
  [][Script /\ script' = NoScript /\ word = "start" =>
       (IF Running("failed") THEN script.was \cap Ordinary ELSE script.was) \subseteq timers']_vars

(* A deployment disturbs nobody: no writer while it runs, and after it the *)
(* timers are those that were there, or fewer where that is said above.    *)
UpdatesDisturbNobody == NothingReplacedUnderAWriter /\ OnlyWhatWasThere /\ TimersComeBack

(* A script that has the locks gives them back.                            *)
ScriptEnds == ~ Running("idle") ~> Running("idle")

(* After `stop` there is no timer until the next `start`                   *)
(* (docs/UBUNTU_24_SERVER_RU.md:167, "to resume, run moex-botctl start").  *)
StopSticks == word = "stop" => timers = {}

(* The isolated LONG is scheduled again only on an installation that fits  *)
(* together (update.sh:212, "only after successful verification"): its     *)
(* timer is stopped for the update and stays enabled.                      *)
OnceAfterChecks == "once" \in timers => Whole
==============================================================================
