--------------------------- MODULE DisasterRecovery ---------------------------
(***************************************************************************)
(* dr_journals.py beside the trade of ProdLongOnce: the head of the        *)
(* evidence (release, settings, both journals, control files) that is      *)
(* captured for a trusted place off the host, the snapshot that goes into  *)
(* a disaster archive, and the rehearsal of an archive against a head.     *)
(*                                                                         *)
(* capture-head and snapshot hold the session lock, and read one thing     *)
(* after another.  What takes no lock goes on meanwhile: `live_operator    *)
(* reconcile`, the broker, and an operator who edits the settings.         *)
(***************************************************************************)
EXTENDS ProdLongOnce

CONSTANT NoEvidence

VARIABLES
  enabled,    \* `enabled` of prod-long-once.json: "on" or "off"
  job,        \* the command of dr_journals.py, the head it read first, its stage
  archive,    \* the evidence in the archive that was sealed last
  trusted,    \* the head that was captured last ...
  bought      \* ... and the candidates whose BUY had been sent by then

dr_vars == <<enabled, job, archive, trusted, bought>>
all_vars == <<vars, dr_vars>>

Evidence == [enabled : {"on", "off"}, claim : MaybeCandidate, fences : SUBSET Fences,
             ledger : [Candidates -> Statuses], protection : [Candidates -> Protections]]

JobPlaces == {"idle", "settings", "journals", "copy_settings", "copy_journals",
              "check_copy", "check_settings", "check_journals", "seal"}

NoJob == [command |-> "none", pc |-> "idle", before |-> NoEvidence, stage |-> NoEvidence]

RecoveryTypeOK ==
  /\ TypeOK
  /\ enabled \in {"on", "off"}
  /\ job.command \in {"none", "snapshot", "capture-head"} /\ job.pc \in JobPlaces
  /\ {archive, trusted} \subseteq Evidence \cup {NoEvidence}
  /\ bought \subseteq Candidates

Source == [enabled |-> enabled, claim |-> claim, fences |-> fences,
           ledger |-> ledger, protection |-> protection]

------------------------------------------------------------------------------
(* What head() demands of the evidence, on the host and in an archive.     *)

linked_actions(e) ==
  \A c \in Candidates :
    /\ e.ledger[c] # "absent" => e.protection[c] # "absent"
    /\ e.protection[c] \notin {"absent", "PLANNED"} => e.ledger[c] # "absent"

NotEnrolled(e) == e.claim = NoCandidate /\ e.fences = {}

once_control(e) ==
  IF NotEnrolled(e)
  THEN e.enabled = "off" /\ e.ledger = NoRows.ledger /\ e.protection = NoRows.protection
  ELSE /\ e.claim # NoCandidate
       /\ "stop-dispatch" \in e.fences => "buy-dispatch" \in e.fences
       /\ "buy-dispatch" \in e.fences => e.ledger[e.claim] # "absent"

Fit(e) == linked_actions(e) /\ once_control(e)

------------------------------------------------------------------------------
(* The heads that a command reads: the release and the settings first, the *)
(* journals and the control files after.  Of these only the status of a    *)
(* row changes without the lock, so they are one read.                     *)
Doing(pc) == job.pc = pc
Proceed(pc) == job' = [job EXCEPT !.pc = pc]
Quit == job' = NoJob

Begin(command) ==
  /\ At("idle") /\ Doing("idle")
  /\ IF command = "snapshot" THEN archive = NoEvidence ELSE trusted = NoEvidence   \* bound
  /\ job' = [NoJob EXCEPT !.command = command, !.pc = "settings"]
  /\ UNCHANGED <<archive, trusted, bought>>

Settings ==
  /\ Doing("settings")
  /\ \/ job' = [job EXCEPT !.pc = "journals", !.before = Source]
     \/ Quit                    \* the release is mixed, or not the one of the checkout
  /\ UNCHANGED <<archive, trusted, bought>>

HeadRead == [Source EXCEPT !.enabled = job.before.enabled]

ReadJournals ==
  /\ Doing("journals") /\ job.command = "snapshot"
  /\ IF Fit(HeadRead)
     THEN job' = [job EXCEPT !.pc = "copy_settings", !.before = HeadRead] ELSE Quit
  /\ UNCHANGED <<archive, trusted, bought>>

Captured ==
  /\ Doing("journals") /\ job.command = "capture-head"
  /\ IF Fit(HeadRead)
     THEN trusted' = HeadRead /\ bought' = {c \in Candidates : sent[<<"buy", c>>] > 0}
     ELSE UNCHANGED <<trusted, bought>>
  /\ Quit
  /\ UNCHANGED archive

(* snapshot(): the copies, and two more heads.                             *)
CopySettings ==
  /\ Doing("copy_settings")
  /\ job' = [job EXCEPT !.pc = "copy_journals", !.stage = Source]
  /\ UNCHANGED <<archive, trusted, bought>>

CopyJournals ==
  /\ Doing("copy_journals")
  /\ job' = [job EXCEPT !.pc = "check_copy",
               !.stage = [Source EXCEPT !.enabled = job.stage.enabled]]
  /\ UNCHANGED <<archive, trusted, bought>>

RowsCounted(e) ==               \* mutant: the head counts the rows, whatever they say
  <<e.enabled, e.claim, e.fences, {c \in Candidates : e.ledger[c] # "absent"},
    {c \in Candidates : e.protection[c] # "absent"}>>

head(e) == <<e.enabled, e.claim, e.fences, e.ledger, e.protection>>

CheckCopy ==
  /\ Doing("check_copy")
  /\ IF head(job.stage) = head(job.before) THEN Proceed("check_settings") ELSE Quit
  /\ UNCHANGED <<archive, trusted, bought>>

CheckSettings ==
  /\ Doing("check_settings")
  /\ IF enabled = job.before.enabled THEN Proceed("check_journals") ELSE Quit
  /\ UNCHANGED <<archive, trusted, bought>>

CheckJournals ==
  /\ Doing("check_journals")
  /\ IF head(HeadRead) = head(job.before) THEN Proceed("seal") ELSE Quit
  /\ UNCHANGED <<archive, trusted, bought>>

Seal ==                         \* HEAD.json, and disaster-backup.sh makes the archive
  /\ Doing("seal")
  /\ archive' = job.stage
  /\ Quit
  /\ UNCHANGED <<trusted, bought>>

Job ==
  /\ \/ Settings \/ ReadJournals \/ Captured \/ CopySettings \/ CopyJournals
     \/ CheckCopy \/ CheckSettings \/ CheckJournals \/ Seal
  /\ UNCHANGED <<vars, enabled>>

StartJob ==
  /\ \E command \in {"snapshot", "capture-head"} : Begin(command)
  /\ UNCHANGED <<vars, enabled>>

JobKilled ==
  /\ ~ Doing("idle") /\ Quit
  /\ UNCHANGED <<vars, enabled, archive, trusted, bought>>

------------------------------------------------------------------------------
(* rehearse(), of an archive whose checksum was made again after files     *)
(* were lost from it, or taken from an older one; its HEAD.json with it.   *)
Variants(e) ==
  {[e EXCEPT !.fences = e.fences \ lost, !.claim = c] :
     lost \in SUBSET e.fences, c \in {e.claim, NoCandidate}}
  \cup {[e EXCEPT !.ledger = NoRows.ledger, !.protection = NoRows.protection]}

rehearsed_against_itself(e) == trusted # NoEvidence /\ Fit(e)   \* mutant: HEAD.json is enough

rehearsed(e) == trusted # NoEvidence /\ Fit(e) /\ head(e) = head(trusted)

------------------------------------------------------------------------------
(* The rest of the host.  The session lock is one for all of them.         *)
Edit ==
  /\ enabled' = IF enabled = "on" THEN "off" ELSE "on"
  /\ UNCHANGED <<vars, job, archive, trusted, bought>>

(* The first commit of a claim directory is its claim: without one, and    *)
(* without fences, there is no directory.                                  *)
Trade ==
  \/ /\ Doing("idle")
     /\ \/ Command \/ Restore \/ (fences # {} /\ ClaimLost)
        \/ \E c \in Candidates : Recover(c) \/ (enabled = "on" /\ Run(c))
  \/ ReconcileRecord
  \/ Outside /\ \A c \in Candidates : stop'[c] # "triggered"    \* no evidence shows it
  \/ \E c \in Candidates : ReconcileLookup(c)

Init0 ==
  /\ Init
  /\ enabled = "off" /\ job = NoJob
  /\ archive = NoEvidence /\ trusted = NoEvidence /\ bought = {}

RecoveryNext ==
  \/ Trade /\ UNCHANGED dr_vars
  \/ StartJob \/ Job \/ JobKilled \/ Edit

RecoverySpec == Init0 /\ [][RecoveryNext]_all_vars

------------------------------------------------------------------------------
(* Evidence that hides a BUY is never fit to be kept: where the journals   *)
(* are rolled back behind the fence of the BUY, or the claim is lost, no   *)
(* head is captured and no archive made of them (dr_journals.py:264,       *)
(* "dispatch fence newer than entry journal").                             *)
FitShowsTheBuy ==
  Fit(Source) => \A c \in Candidates :
                   sent[<<"buy", c>>] > 0 => claim = c /\ ledger[c] # "absent"

(* A session, killed where it may be, and `reconcile` leave evidence that  *)
(* can be captured: it does not take a trade apart to back it up (of every *)
(* step).                                                                  *)
SessionsLeaveItFit ==
  process' # process \/ reading' # reading => (Fit(Source) => Fit(Source)')

(* What is sealed is the evidence of the moment in which it was last       *)
(* compared with the source, a status that `reconcile` wrote during the    *)
(* copies included (dr_journals.py:407, "source changed during snapshot"). *)
SealedAsItStood ==
  Doing("check_journals") /\ job'.pc = "seal" =>
    [job.stage EXCEPT !.enabled = enabled] = Source

(* An archive that a rehearsal accepts hides nothing that was sent when    *)
(* the trusted head was captured, whatever was lost from it or rolled back *)
(* under a checksum of its own (tests/test_dr_once_bundle.py:46).          *)
AcceptedHidesNothing ==
  archive # NoEvidence =>
    \A e \in Variants(archive) : rehearsed(e) =>
      \A c \in bought : e.claim = c /\ "buy-dispatch" \in e.fences /\ e.ledger[c] # "absent"

(* Neither does what is captured, or accepted, ever hide a BUY.            *)
EvidenceHidesNothing == RecoveryTypeOK /\ FitShowsTheBuy /\ AcceptedHidesNothing
==============================================================================
