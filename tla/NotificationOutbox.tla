--------------------------- MODULE NotificationOutbox ---------------------------
(***************************************************************************)
(* The durable outbox (notifications.py).  Timers and commands put         *)
(* messages into one SQLite table; whichever of them runs next claims some,*)
(* sends them one by one and marks each.  A claim is a lease: who dies, or *)
(* needs longer than five minutes, loses its messages to another.          *)
(*                                                                         *)
(* Time is abstracted to what the queries compare it with: a pending row   *)
(* is due, and a lease is over, from some moment on.                       *)
(***************************************************************************)
EXTENDS Integers, FiniteSets

CONSTANTS
  Messages,      \* dedupe keys: each is one notification_id
  Workers,       \* processes that run deliver_pending()
  MaxAttempts,   \* 8 in the code
  MaxLimit,      \* the greatest `limit` of a claim
  MaxMishaps,    \* bound: deaths, and sends that outlast their lease
  MaxRequeues    \* bound: runs of outbox-retry-dead

ASSUME MessagesAssumption == IsFiniteSet(Messages)
ASSUME BoundsAssumption ==
  /\ MaxAttempts \in Nat \ {0} /\ MaxLimit \in Nat \ {0}
  /\ MaxMishaps \in Nat /\ MaxRequeues \in Nat

VARIABLES
  outbox,     \* the table
  worker,     \* what each process claimed and did not send, or sent and did not mark
  delivered,  \* how often each message reached its chat
  failures,   \* how often its send raised
  excused,    \* messages that may have been sent again (read by properties only)
  mishaps, requeues

vars == <<outbox, worker, delivered, failures, excused, mishaps, requeues>>

Row == [status : {"none", "pending", "sending", "sent", "dead"},
        attempts : 0..MaxAttempts, due : {"later", "now"}, lease : {"none", "running"}, created : Nat]
Notification == [id : Messages, attempts : 0..MaxAttempts - 1]
Batch == [batch : SUBSET Notification, sent : SUBSET Notification, raised : SUBSET Notification]

TypeOK ==
  /\ outbox \in [Messages -> Row]
  /\ worker \in [Workers -> Batch]
  /\ delivered \in [Messages -> Nat] /\ failures \in [Messages -> Nat]
  /\ excused \subseteq Messages
  /\ mishaps \in 0..MaxMishaps /\ requeues \in 0..MaxRequeues

NewRow == [status |-> "pending", attempts |-> 0, due |-> "later", lease |-> "none",
           created |-> Cardinality({m \in Messages : outbox[m].status # "none"})]
Put(row, status, attempts, due, lease) ==
  [status |-> status, attempts |-> attempts, due |-> due, lease |-> lease,
   created |-> row.created]

Holding(batch, sent, raised) == [batch |-> batch, sent |-> sent, raised |-> raised]
Idle == Holding({}, {}, {})

Held(w) == worker[w].batch \cup worker[w].sent \cup worker[w].raised
Holds(w, m) == \E n \in Held(w) : n.id = m

------------------------------------------------------------------------------
Enqueue(m) ==
  /\ outbox[m].status = "none"          \* INSERT OR IGNORE: a known key changes nothing
  /\ outbox' = [outbox EXCEPT ![m] = NewRow]
  /\ UNCHANGED <<worker, delivered, failures, excused, mishaps, requeues>>

OverNever(m) == FALSE           \* mutant: nobody takes over the messages of the dead

Over(m) == outbox[m].status = "sending" /\ outbox[m].lease = "none"

ClaimableTaken ==               \* mutant: a claim also takes what others are sending
  {m \in Messages : outbox[m].due = "now" /\ outbox[m].status \in {"pending", "sending"}}

Claimable == {m \in Messages : outbox[m].due = "now" /\ (outbox[m].status = "pending" \/ Over(m))}

OldestFirst(taken) ==
  \A m \in taken, n \in Claimable \ taken : outbox[m].created < outbox[n].created

(* One transaction: leases that are over end, the oldest due rows are      *)
(* leased.                                                                 *)
claim(w, limit) ==
  /\ worker[w] = Idle
  /\ \E taken \in SUBSET Claimable :
       /\ taken # {} /\ Cardinality(taken) <= limit
       /\ Cardinality(taken) = limit \/ taken = Claimable
       /\ OldestFirst(taken)
       /\ outbox' = [m \in Messages |->
            IF m \in taken THEN Put(outbox[m], "sending", outbox[m].attempts, "now", "running")
            ELSE IF Over(m) THEN Put(outbox[m], "pending", outbox[m].attempts, outbox[m].due, "none")
            ELSE outbox[m]]
       /\ worker' = [worker EXCEPT ![w] = 
            Holding({[id |-> m, attempts |-> outbox[m].attempts] : m \in taken}, {}, {})]
  /\ UNCHANGED <<delivered, failures, excused, mishaps, requeues>>

(* The batch is worked off in the order of its rows.                       *)
Current(w, n) ==
  /\ worker[w].sent = {} /\ worker[w].raised = {}
  /\ n \in worker[w].batch
  /\ \A o \in worker[w].batch : outbox[n.id].created <= outbox[o.id].created

SendOk(w, n) ==
  /\ Current(w, n)
  /\ delivered' = [delivered EXCEPT ![n.id] = @ + 1]
  /\ worker' = [worker EXCEPT ![w] = Holding(@.batch \ {n}, {n}, {})]
  /\ UNCHANGED <<outbox, failures, excused, mishaps, requeues>>

(* An answer that is lost, late or unreadable raises although the chat got *)
(* the message.                                                            *)
SendRaises(w, n) ==
  /\ Current(w, n)
  /\ failures' = [failures EXCEPT ![n.id] = @ + 1]
  /\ \/ UNCHANGED <<delivered, excused>>
     \/ /\ delivered' = [delivered EXCEPT ![n.id] = @ + 1]
        /\ excused' = excused \cup {n.id}
  /\ worker' = [worker EXCEPT ![w] = Holding(@.batch \ {n}, {}, {n})]
  /\ UNCHANGED <<outbox, mishaps, requeues>>

Regardless(row, marked) == marked   \* mutant: the status of the row is not looked at

IfSending(row, marked) == IF row.status = "sending" THEN marked ELSE row

Sent(row) == Put(row, "sent", row.attempts, row.due, "none")

FailedEarly(row, attempts) ==   \* mutant: given up one attempt too early
  Put(row, IF attempts >= MaxAttempts - 1 THEN "dead" ELSE "pending", attempts, "later", "none")

Failed(row, attempts) ==
  Put(row, IF attempts >= MaxAttempts THEN "dead" ELSE "pending", attempts, "later", "none")

mark_sent(w, n) ==
  /\ n \in worker[w].sent
  /\ outbox' = [outbox EXCEPT ![n.id] = IfSending(@, Sent(@))]
  /\ worker' = [worker EXCEPT ![w] = Holding(@.batch, {}, {})]
  /\ UNCHANGED <<delivered, failures, excused, mishaps, requeues>>

mark_failed(w, n) ==
  /\ n \in worker[w].raised
  /\ outbox' = [outbox EXCEPT ![n.id] = IfSending(@, Failed(@, n.attempts + 1))]
  /\ worker' = [worker EXCEPT ![w] = Holding(@.batch, {}, {})]
  /\ UNCHANGED <<delivered, failures, excused, mishaps, requeues>>

(* outbox-retry-dead.                                                      *)
requeue_dead ==
  /\ requeues < MaxRequeues /\ requeues' = requeues + 1
  /\ \E m \in Messages : outbox[m].status = "dead"
  /\ outbox' = [m \in Messages |->
       IF outbox[m].status = "dead"
       THEN Put(outbox[m], "pending", 0, outbox[m].due, "none") ELSE outbox[m]]
  /\ UNCHANGED <<worker, delivered, failures, excused, mishaps>>

------------------------------------------------------------------------------
(* A process is killed, or a mark raises since the database stays locked.  *)
Die(w) ==
  /\ worker[w] # Idle
  /\ mishaps < MaxMishaps /\ mishaps' = mishaps + 1
  /\ excused' = excused \cup {n.id : n \in worker[w].sent}
  /\ worker' = [worker EXCEPT ![w] = Idle]
  /\ UNCHANGED <<outbox, delivered, failures, requeues>>

LeaseEnds(m) ==
  /\ outbox[m].status = "sending" /\ outbox[m].lease = "running"
  /\ outbox' = [outbox EXCEPT ![m].lease = "none"]
  /\ UNCHANGED <<worker, delivered, failures, requeues>>

Abandoned(m) ==
  /\ \A w \in Workers : ~ Holds(w, m)
  /\ LeaseEnds(m) /\ UNCHANGED <<excused, mishaps>>

Outlasted(m) ==                 \* its process is slow, or the host was suspended
  /\ \E w \in Workers : Holds(w, m)
  /\ mishaps < MaxMishaps /\ mishaps' = mishaps + 1
  /\ excused' = excused \cup {m}
  /\ LeaseEnds(m)

BecomesDue(m) ==
  /\ outbox[m].status = "pending" /\ outbox[m].due = "later"
  /\ outbox' = [outbox EXCEPT ![m].due = "now"]
  /\ UNCHANGED <<worker, delivered, failures, excused, mishaps, requeues>>

------------------------------------------------------------------------------
Init ==
  /\ outbox = [m \in Messages |-> [status |-> "none", attempts |-> 0, due |-> "later",
                                   lease |-> "none", created |-> 0]]
  /\ worker = [w \in Workers |-> Idle]
  /\ delivered = [m \in Messages |-> 0] /\ failures = [m \in Messages |-> 0]
  /\ excused = {} /\ mishaps = 0 /\ requeues = 0

deliver_pending(w) ==
  \/ \E limit \in 1..MaxLimit : claim(w, limit)
  \/ \E n \in Held(w) : SendOk(w, n) \/ SendRaises(w, n) \/ mark_sent(w, n) \/ mark_failed(w, n)

Time(m) == Abandoned(m) \/ BecomesDue(m)

Next ==
  \/ \E w \in Workers : deliver_pending(w) \/ Die(w)
  \/ \E m \in Messages : Enqueue(m) \/ Time(m) \/ Outlasted(m)
  \/ requeue_dead

Spec == Init /\ [][Next]_vars
FairSpec ==
  /\ Spec
  /\ \A w \in Workers : WF_vars(deliver_pending(w))
  /\ \A m \in Messages : WF_vars(Time(m))

------------------------------------------------------------------------------
(* `sent` is a receipt: the chat got the message.  `dead` is written after *)
(* MaxAttempts sends that raised, however the processes overlapped.        *)
NothingLost ==
  \A m \in Messages :
    /\ outbox[m].status = "sent" => delivered[m] > 0
    /\ outbox[m].status = "dead" => failures[m] >= MaxAttempts

(* Every row is one that the code knows, and none claims a delivery, or a  *)
(* last failure, that never was (notifications.py:105-150).                *)
OutboxIsSafe == TypeOK /\ NothingLost

(* A message reaches its chat twice only if an answer of Telegram was lost,*)
(* a process died between its send and its mark, or a send outlasted its   *)
(* lease: several timers and commands at once are no reason.               *)
DuplicatesAreExcused ==
  \A m \in Messages : delivered[m] > 1 => m \in excused

(* What is sent stays so: a process that lost its lease cannot put it back.*)
SentIsFinal ==
  [][\A m \in Messages : outbox[m].status = "sent" => outbox'[m] = outbox[m]]_vars

(* Every message ends as sent or dead, whoever dies on the way.            *)
EveryMessageSettles ==
  \A m \in Messages :
    outbox[m].status # "none" ~> outbox[m].status \in {"sent", "dead"}

(* "Exactly one successful delivery" (docs/plan/03-testing-plan.md:295).   *)
DeliveredOnce == \A m \in Messages : delivered[m] <= 1
==============================================================================
