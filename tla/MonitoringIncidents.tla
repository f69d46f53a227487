--------------------------- MODULE MonitoringIncidents ---------------------------
(***************************************************************************)
(* Which failures the operator is told of (monitoring_incidents.py).  A    *)
(* run of notify() goes through the checks of one snapshot, queues a       *)
(* message when an incident begins, lasts or ends, and commits what it     *)
(* knows of each check at the very end.  The messages are in another       *)
(* database and committed one by one, so a run that dies leaves messages   *)
(* which the next run does not know of, but for their keys.  A key prints  *)
(* the last_sent of the row that was read: 0 where there was none, and     *)
(* once there is a row what its REAL column gives back, 0.0 at first.      *)
(*                                                                         *)
(* Two programs call it, each with databases of its own: the health timer, *)
(* once for each snapshot it takes, and the relay of the alerts, every     *)
(* five seconds with the snapshot it finds, so that there a snapshot is    *)
(* read again after a death.                                               *)
(***************************************************************************)
EXTENDS Integers, Sequences

CONSTANTS
  Checks,       \* keys of a snapshot
  Threshold,    \* failures_to_alert
  Repeat,       \* repeat_hours, in units of the clock; beyond MaxTime: never
  MaxTime,      \* bound: snapshots are taken at 1..MaxTime
  MaxMishaps    \* bound: runs that are killed or cannot write

BoundsAssumption ==
  /\ Threshold \in Nat \ {0} /\ Repeat \in Nat \ {0}
  /\ MaxTime \in Nat /\ MaxMishaps \in Nat

VARIABLES
  snapshot,   \* the newest one: when it was taken, what it says of each check
  incidents,  \* the table `incidents`, committed
  runs,       \* the table `monitoring_runs`: the snapshots that are done
  process,    \* a run of notify(): checks it has not come to, uncommitted rows, checks it told of
  outbox,     \* the messages, in the order of their commit
  ended,      \* how many committed snapshots said OK of each check (read by properties only)
  cut,        \* checks with a message of a run that died (read by properties only)
  mishaps

vars == <<snapshot, incidents, runs, process, outbox, ended, cut, mishaps>>

Values == {"OK", "FAIL", "CRITICAL", "absent"}
Row == [stored : BOOLEAN, failures : Nat, alerted : BOOLEAN, sent : Nat]
Message == [check : Checks, word : {"down", "up"}, stored : BOOLEAN, sent : Nat,
            at : Nat, incident : Nat]
NoRows == [c \in Checks |-> [stored |-> FALSE, failures |-> 0, alerted |-> FALSE, sent |-> 0]]
Idle == [running |-> FALSE, left |-> {}, rows |-> NoRows, told |-> {}]

TypeOK ==
  /\ snapshot \in [at : 0..MaxTime, says : [Checks -> Values]]
  /\ incidents \in [Checks -> Row] /\ runs \subseteq 1..MaxTime
  /\ process \in [running : BOOLEAN, left : SUBSET Checks, rows : [Checks -> Row],
                  told : SUBSET Checks]
  /\ outbox \in Seq(Message) /\ ended \in [Checks -> Nat]
  /\ cut \subseteq Checks /\ mishaps \in 0..MaxMishaps

------------------------------------------------------------------------------
(* One check.                                                              *)
Failed(value) == value # "OK"

Failures(row, value) ==
  CASE value = "OK" -> 0
    [] value = "FAIL" -> row.failures + 1
    [] value = "CRITICAL" -> IF row.failures + 1 < Threshold THEN Threshold ELSE row.failures + 1

MustTell(row, value, at) ==
  \/ /\ Failed(value) /\ Failures(row, value) >= Threshold
     /\ ~row.alerted \/ at - row.sent >= Repeat
  \/ ~Failed(value) /\ row.alerted

Word(value) == IF Failed(value) THEN "down" ELSE "up"

KnownByTime(c, word, row) ==        \* mutant: the time of the snapshot identifies the event
  \E i \in DOMAIN outbox :
    outbox[i].check = c /\ outbox[i].word = word /\ outbox[i].at = snapshot.at

(* The dedupe key: the last committed transition identifies the next       *)
(* event, as it is printed.                                                *)
Known(c, word, row) ==
  \E i \in DOMAIN outbox :
    /\ outbox[i].check = c /\ outbox[i].word = word
    /\ outbox[i].stored = row.stored /\ outbox[i].sent = row.sent

After(row, value, told, at) ==
  [stored |-> TRUE, failures |-> Failures(row, value),
   alerted |-> IF told THEN Failed(value) ELSE row.alerted,
   sent |-> IF told THEN at ELSE row.sent]

------------------------------------------------------------------------------
(* The timer collects; whatever it cannot read may be missing.             *)
Collect(says) ==
  /\ ~process.running /\ snapshot.at < MaxTime
  /\ snapshot' = [at |-> snapshot.at + 1, says |-> says]
  /\ UNCHANGED <<incidents, runs, process, outbox, ended, cut, mishaps>>

(* A snapshot that is done changes nothing.  A run works on what it has    *)
(* read: a snapshot taken meanwhile is one taken after it.                 *)
Begin ==
  /\ ~process.running /\ snapshot.at > 0 /\ snapshot.at \notin runs
  /\ process' = [running |-> TRUE, left |-> {c \in Checks : snapshot.says[c] # "absent"},
                 rows |-> incidents, told |-> {}]
  /\ UNCHANGED <<snapshot, incidents, runs, outbox, ended, cut, mishaps>>

Examine(c) ==
  LET row == process.rows[c]
      value == snapshot.says[c]
      tell == MustTell(row, value, snapshot.at)
      new == tell /\ ~Known(c, Word(value), row)          \* INSERT OR IGNORE
  IN
  /\ c \in process.left
  /\ outbox' = IF new
               THEN Append(outbox, [check |-> c, word |-> Word(value), stored |-> row.stored,
                                    sent |-> row.sent, at |-> snapshot.at, incident |-> ended[c]])
               ELSE outbox
  /\ process' = [process EXCEPT !.left = @ \ {c},
                                !.rows[c] = After(row, value, tell, snapshot.at),
                                !.told = IF new THEN @ \cup {c} ELSE @]
  /\ UNCHANGED <<snapshot, incidents, runs, ended, cut, mishaps>>

Commit ==
  /\ process.running /\ process.left = {}
  /\ incidents' = process.rows /\ runs' = runs \cup {snapshot.at}
  /\ process' = Idle
  /\ ended' = [c \in Checks |-> IF snapshot.says[c] = "OK" THEN ended[c] + 1 ELSE ended[c]]
  /\ cut' = cut \ process.told
  /\ UNCHANGED <<snapshot, outbox, mishaps>>

(* A kill, or a write that raises: the transaction is rolled back, the     *)
(* messages stay.                                                          *)
Die ==
  /\ process.running /\ mishaps < MaxMishaps
  /\ mishaps' = mishaps + 1
  /\ cut' = cut \cup process.told
  /\ process' = Idle
  /\ UNCHANGED <<snapshot, incidents, runs, outbox, ended>>

Init ==
  /\ snapshot = [at |-> 0, says |-> [c \in Checks |-> "absent"]]
  /\ incidents = NoRows
  /\ runs = {} /\ process = Idle /\ outbox = <<>>
  /\ ended = [c \in Checks |-> 0] /\ cut = {} /\ mishaps = 0

Next ==
  \/ \E says \in [Checks -> Values] : Collect(says)
  \/ Begin
  \/ \E c \in Checks : Examine(c)
  \/ Commit
  \/ Die

Spec == Init /\ [][Next]_vars

------------------------------------------------------------------------------
\* Two messages announce the same incident, the second too early.
Repeated(i, j) ==
  /\ i < j
  /\ outbox[i].check = outbox[j].check /\ outbox[i].incident = outbox[j].incident
  /\ outbox[i].word = "down" /\ outbox[j].word = "down"
  /\ outbox[j].at - outbox[i].at < Repeat

(* No incident is announced twice within repeat_hours, whatever dies       *)
(* between the commit of a message and the commit of the row               *)
(* (docs/monitoring.md:63, the key is to keep a message from being queued  *)
(* twice when the commit of the incidents fails).  An incident ends with   *)
(* an OK that was committed.                                               *)
OneAnnouncementPerPeriod ==
  \A i, j \in DOMAIN outbox : ~Repeated(i, j)

(* It is announced twice only where the first message was keyed before the *)
(* check had a row, and the row was then stored without it: by 0, and by   *)
(* 0.0 (monitoring_incidents.py:26-29, 41-47).                             *)
RepeatedOverItsFirstRow ==
  \A i, j \in DOMAIN outbox : Repeated(i, j) =>
    ~outbox[i].stored /\ outbox[j].stored /\ outbox[j].sent = 0

\* The last message about the check says that it failed.
ToldDown(c) ==
  \E i \in DOMAIN outbox :
    /\ outbox[i].check = c /\ outbox[i].word = "down"
    /\ \A j \in DOMAIN outbox : j > i => outbox[j].check # c

(* Between the runs the last message about a check says what the table     *)
(* says, unless the run that queued it died before its commit              *)
(* (monitoring_incidents.py:43-49); and then only until the next message.  *)
ToldAsKnown ==
  ~process.running =>
    \A c \in Checks \ cut : ToldDown(c) = incidents[c].alerted

(* When the newest snapshot is done, a check that failed often enough      *)
(* stands as failed in the last message about it, and one that recovered   *)
(* does not (docs/monitoring.md:102 and :112, "При восстановлении —        *)
(* отдельный алерт").                                                      *)
NewsIsTrue ==
  ~process.running /\ snapshot.at \in runs =>
    \A c \in Checks : snapshot.says[c] # "absent" =>
      ToldDown(c) = (incidents[c].failures >= Threshold)

(* What the chat was told is what the table knows, once per period but for *)
(* the first row of a check, though the two are written in two databases   *)
(* (monitoring_incidents.py:41-49).                                        *)
IncidentsAreTold == TypeOK /\ RepeatedOverItsFirstRow /\ ToldAsKnown
==============================================================================
