------------------------ MODULE NotificationOutboxProofs ------------------------
(***************************************************************************)
(* Proofs about the outbox, for every number of messages, processes,       *)
(* attempts and mishaps.                                                   *)
(***************************************************************************)
EXTENDS NotificationOutbox, FiniteSetTheorems, TLAPS

(* A row that may still be sent has an attempt left.                       *)
Typed ==
  /\ TypeOK
  /\ \A m \in Messages :
       outbox[m].status \in {"pending", "sending"} => outbox[m].attempts < MaxAttempts

(* What the table counts is no more than what happened.                    *)
Counted ==
  /\ \A m \in Messages :
       /\ outbox[m].attempts <= failures[m]
       /\ outbox[m].status = "sent" => delivered[m] > 0
       /\ outbox[m].status = "dead" => failures[m] >= MaxAttempts
  /\ \A w \in Workers :
       /\ \A n \in Held(w) : n.attempts <= failures[n.id]
       /\ \A n \in worker[w].sent : delivered[n.id] > 0
       /\ \A n \in worker[w].raised : n.attempts < failures[n.id]

(* A message without an excuse is with one process at most, under a lease. *)
Parts(w) ==
  /\ worker[w].batch \cap worker[w].sent = {}
  /\ worker[w].batch \cap worker[w].raised = {}
  /\ worker[w].sent \cap worker[w].raised = {}
  /\ \A n, o \in worker[w].sent \cup worker[w].raised : n = o
  /\ \A n, o \in Held(w) : n.id = o.id => n = o

Exclusive(m) ==
  /\ \A v, w \in Workers : Holds(v, m) /\ Holds(w, m) => v = w
  /\ \A w \in Workers : Holds(w, m) => outbox[m].status = "sending" /\ outbox[m].lease = "running"

SentBy(w, m) == \E n \in worker[w].sent : n.id = m

(* Its one delivery is marked, or about to be.                             *)
Single(m) ==
  /\ delivered[m] <= 1
  /\ delivered[m] = 1 => outbox[m].status = "sent" \/ \E w \in Workers : SentBy(w, m)

Excusable ==
  /\ \A w \in Workers : Parts(w)
  /\ \A m \in Messages \ excused : Exclusive(m) /\ Single(m)

------------------------------------------------------------------------------
(* The outbox is empty and nobody holds anything at the start.             *)
LEMMA TypedInit == Init => Typed
BY BoundsAssumption DEF Init, Typed, TypeOK, Row, Batch, Idle, Holding

(* The updates of a row yield rows.                                        *)
LEMMA RowsStay ==
  ASSUME NEW row \in Row, NEW attempts \in 1..MaxAttempts
  PROVE  /\ IfSending(row, Sent(row)) \in Row
         /\ IfSending(row, Failed(row, attempts)) \in Row
         /\ Failed(row, attempts).status = "pending" => attempts < MaxAttempts
BY BoundsAssumption DEF IfSending, Sent, Failed, Put, Row

(* The updates of a batch yield batches.                                   *)
LEMMA BatchesStay ==
  ASSUME NEW held \in Batch, NEW n \in Notification
  PROVE  /\ Holding(held.batch \ {n}, {n}, {}) \in Batch
         /\ Holding(held.batch \ {n}, {}, {n}) \in Batch
         /\ Holding(held.batch, {}, {}) \in Batch
BY DEF Holding, Batch

(* What a worker holds is a notification with attempts left.               *)
LEMMA HeldTyped ==
  ASSUME TypeOK, NEW w \in Workers, NEW n \in Held(w)
  PROVE  /\ n \in Notification /\ n.id \in Messages
         /\ n.attempts \in 0..MaxAttempts - 1
BY DEF TypeOK, Held, Batch, Notification

(* What claim() does to the rows and to its process.                       *)
Taking(w, taken) ==
  /\ \A m \in taken : outbox[m].due = "now" /\ (outbox[m].status = "pending" \/ Over(m))
  /\ outbox' = [m \in Messages |->
       IF m \in taken THEN Put(outbox[m], "sending", outbox[m].attempts, "now", "running")
       ELSE IF Over(m) THEN Put(outbox[m], "pending", outbox[m].attempts, outbox[m].due, "none")
       ELSE outbox[m]]
  /\ worker' = [worker EXCEPT ![w] =
       Holding({[id |-> m, attempts |-> outbox[m].attempts] : m \in taken}, {}, {})]

(* A claim takes messages and nothing else.                                *)
LEMMA ClaimTakes ==
  ASSUME TypeOK, NEW w \in Workers, NEW limit \in 1..MaxLimit, claim(w, limit)
  PROVE  \E taken \in SUBSET Messages : Taking(w, taken)
<1>1. PICK taken \in SUBSET Claimable :
        /\ outbox' = [m \in Messages |->
             IF m \in taken THEN Put(outbox[m], "sending", outbox[m].attempts, "now", "running")
             ELSE IF Over(m) THEN Put(outbox[m], "pending", outbox[m].attempts, outbox[m].due, "none")
             ELSE outbox[m]]
        /\ worker' = [worker EXCEPT ![w] =
             Holding({[id |-> m, attempts |-> outbox[m].attempts] : m \in taken}, {}, {})]
  BY DEF claim
<1>2. taken \in SUBSET Messages
        /\ \A m \in taken : outbox[m].due = "now" /\ (outbox[m].status = "pending" \/ Over(m))
  BY DEF Claimable
<1> QED BY <1>1, <1>2 DEF Taking

(* Every step keeps the types.                                             *)
LEMMA TypedNext == Typed /\ [Next]_vars => Typed'
<1> SUFFICES ASSUME Typed, [Next]_vars PROVE Typed'
  OBVIOUS
<1> USE BoundsAssumption DEF Typed, TypeOK
<1>1. ASSUME NEW m \in Messages, Enqueue(m) PROVE Typed'
  <2>1. Cardinality({l \in Messages : outbox[l].status # "none"}) \in Nat
    BY MessagesAssumption, FS_Subset, FS_CardinalityType
  <2>2. NewRow \in Row /\ NewRow.attempts = 0
    BY <2>1 DEF NewRow, Row
  <2> QED BY <1>1, <2>2 DEF Enqueue
<1>2. ASSUME NEW w \in Workers, NEW limit \in 1..MaxLimit, claim(w, limit) PROVE Typed'
  <2>1. PICK taken \in SUBSET Messages : Taking(w, taken)
    BY <1>2, ClaimTakes
  <2>2. /\ outbox' \in [Messages -> Row]
        /\ \A m \in Messages : outbox'[m].attempts = outbox[m].attempts
        /\ \A m \in Messages : outbox'[m].status \in {"pending", "sending"} =>
             outbox[m].status \in {"pending", "sending"}
    BY <2>1 DEF Taking, Put, Row, Over
  <2>3. {[id |-> m, attempts |-> outbox[m].attempts] : m \in taken} \subseteq Notification
    BY <2>1 DEF Taking, Over, Notification, Row
  <2>4. Holding({[id |-> m, attempts |-> outbox[m].attempts] : m \in taken}, {}, {})
          \in Batch
    BY <2>3 DEF Idle, Holding, Batch
  <2>5. worker' \in [Workers -> Batch]
    BY <2>1, <2>4 DEF Taking
  <2>6. UNCHANGED <<delivered, failures, excused, mishaps, requeues>>
    BY <1>2 DEF claim
  <2> QED BY <2>2, <2>5, <2>6
<1>3. ASSUME NEW w \in Workers, NEW n \in Held(w),
             SendOk(w, n) \/ SendRaises(w, n)
      PROVE  Typed'
  <2>1. n \in Notification /\ n.id \in Messages
    BY HeldTyped
  <2>2. worker' \in [Workers -> Batch]
    <3>1. worker[w] \in Batch
      OBVIOUS
    <3>2. /\ Holding(worker[w].batch \ {n}, {n}, {}) \in Batch
          /\ Holding(worker[w].batch \ {n}, {}, {n}) \in Batch
      BY <2>1, <3>1, BatchesStay
    <3> QED BY <1>3, <3>2 DEF SendOk, SendRaises
  <2> QED BY <1>3, <2>1, <2>2 DEF SendOk, SendRaises
<1>4. ASSUME NEW w \in Workers, NEW n \in Held(w),
             mark_sent(w, n) \/ mark_failed(w, n)
      PROVE  Typed'
  <2>1. n \in Notification /\ n.id \in Messages /\ n.attempts + 1 \in 1..MaxAttempts
    BY HeldTyped
  <2>2. worker' \in [Workers -> Batch]
    <3>1. worker[w] \in Batch
      OBVIOUS
    <3>2. Holding(worker[w].batch, {}, {}) \in Batch
      BY <2>1, <3>1, BatchesStay
    <3> QED BY <1>4, <3>2 DEF mark_sent, mark_failed
  <2>3. /\ outbox' \in [Messages -> Row]
        /\ \A m \in Messages : m # n.id => outbox'[m] = outbox[m]
    <3>1. outbox[n.id] \in Row
      BY <2>1
    <3>2. /\ IfSending(outbox[n.id], Sent(outbox[n.id])) \in Row
          /\ IfSending(outbox[n.id], Failed(outbox[n.id], n.attempts + 1)) \in Row
      BY <2>1, <3>1, RowsStay
    <3> QED BY <1>4, <2>1, <3>2 DEF mark_sent, mark_failed
  <2>4. outbox'[n.id].status \in {"pending", "sending"} => outbox'[n.id].attempts < MaxAttempts
    BY <1>4, <2>1 DEF mark_sent, mark_failed, IfSending, Sent, Failed, Put, Row
  <2> QED BY <1>4, <2>2, <2>3, <2>4 DEF mark_sent, mark_failed
<1>5. ASSUME requeue_dead PROVE Typed'
  <2>1. outbox' \in [Messages -> Row] /\ \A m \in Messages :
          outbox'[m] = outbox[m] \/ outbox'[m].attempts = 0
    BY <1>5 DEF requeue_dead, Put, Row
  <2>2. requeues' \in 0..MaxRequeues
    BY <1>5 DEF requeue_dead
  <2> QED BY <1>5, <2>1, <2>2 DEF requeue_dead
<1>6. ASSUME NEW w \in Workers, Die(w) PROVE Typed'
  <2>1. {n.id : n \in worker[w].sent} \subseteq Messages
    BY HeldTyped DEF Held
  <2>2. Idle \in Batch
    BY DEF Idle, Holding, Batch
  <2>3. mishaps' \in 0..MaxMishaps
    BY <1>6 DEF Die
  <2> QED BY <1>6, <2>1, <2>2, <2>3 DEF Die
<1>7. ASSUME NEW m \in Messages, Time(m) \/ Outlasted(m) PROVE Typed'
  <2>1. outbox' \in [Messages -> Row] /\ \A l \in Messages :
          outbox'[l].status = outbox[l].status /\ outbox'[l].attempts = outbox[l].attempts
    BY <1>7 DEF Time, Abandoned, Outlasted, LeaseEnds, BecomesDue, Row
  <2>2. mishaps' \in 0..MaxMishaps /\ excused' \subseteq Messages
    BY <1>7 DEF Time, Abandoned, Outlasted, BecomesDue
  <2> QED
    BY <1>7, <2>1, <2>2 DEF Time, Abandoned, Outlasted, LeaseEnds, BecomesDue
<1>8. CASE UNCHANGED vars
  BY <1>8 DEF vars
<1> QED
  BY <1>1, <1>2, <1>3, <1>4, <1>5, <1>6, <1>7, <1>8 DEF Next, deliver_pending

(* The table, the processes and the counters keep their types, and a row   *)
(* that may be sent has an attempt left.                                   *)
THEOREM TypeCorrect == Spec => []TypeOK
BY TypedInit, TypedNext, PTL DEF Spec, Typed

------------------------------------------------------------------------------
(* What the steps of a process leave in its hands.                         *)
LEMMA SendStep ==
  ASSUME TypeOK, NEW w \in Workers, NEW n \in Held(w), SendOk(w, n) \/ SendRaises(w, n)
  PROVE  /\ n \in worker[w].batch /\ worker[w].sent = {} /\ worker[w].raised = {}
         /\ worker'[w].batch = worker[w].batch \ {n}
         /\ \/ SendOk(w, n) /\ worker'[w].sent = {n} /\ worker'[w].raised = {}
            \/ SendRaises(w, n) /\ worker'[w].sent = {} /\ worker'[w].raised = {n}
         /\ \A v \in Workers : v # w => worker'[v] = worker[v]
<1>1. worker \in [Workers -> Batch]
  BY DEF TypeOK
<1> QED BY <1>1 DEF SendOk, SendRaises, Current, Holding

(* A worker that marks a message keeps the rest of its batch.              *)
LEMMA MarkStep ==
  ASSUME TypeOK, NEW w \in Workers, NEW n \in Held(w), mark_sent(w, n) \/ mark_failed(w, n)
  PROVE  /\ worker'[w].batch = worker[w].batch
         /\ worker'[w].sent = {} /\ worker'[w].raised = {}
         /\ \A v \in Workers : v # w => worker'[v] = worker[v]
<1>1. worker \in [Workers -> Batch]
  BY DEF TypeOK
<1> QED BY <1>1 DEF mark_sent, mark_failed, Holding

(* A worker that claims holds what it took, unsent.                        *)
LEMMA ClaimStep ==
  ASSUME TypeOK, NEW w \in Workers, NEW taken \in SUBSET Messages, Taking(w, taken)
  PROVE  /\ worker'[w].batch = {[id |-> m, attempts |-> outbox[m].attempts] : m \in taken}
         /\ worker'[w].sent = {} /\ worker'[w].raised = {}
         /\ \A v \in Workers : v # w => worker'[v] = worker[v]
         /\ \A m \in Messages :
              /\ outbox'[m].attempts = outbox[m].attempts
              /\ m \in taken => outbox'[m].status = "sending" /\ outbox'[m].lease = "running"
              /\ m \notin taken /\ Over(m) => outbox'[m].status = "pending"
              /\ m \notin taken /\ ~ Over(m) => outbox'[m] = outbox[m]
<1>1. worker \in [Workers -> Batch] /\ outbox \in [Messages -> Row]
  BY DEF TypeOK
<1> QED BY <1>1 DEF Taking, Holding, Put

(* A worker that dies holds nothing.                                       *)
LEMMA DieStep ==
  ASSUME TypeOK, NEW w \in Workers, Die(w)
  PROVE  /\ worker'[w].batch = {} /\ worker'[w].sent = {} /\ worker'[w].raised = {}
         /\ \A v \in Workers : v # w => worker'[v] = worker[v]
<1>1. worker \in [Workers -> Batch]
  BY DEF TypeOK
<1> QED BY <1>1 DEF Die, Idle, Holding

------------------------------------------------------------------------------
(* Nothing is held at the start.                                           *)
LEMMA CountedInit == Init => Counted
BY BoundsAssumption DEF Init, Counted, Held, Idle, Holding

(* Every step keeps the counts: no attempt without a failure, no receipt   *)
(* without a delivery.                                                     *)
LEMMA CountedNext ==
  ASSUME Typed, Counted, [Next]_vars
  PROVE  Counted'
<1>0. TypeOK
  BY DEF Typed
<1>f. /\ failures \in [Messages -> Nat] /\ delivered \in [Messages -> Nat]
      /\ outbox \in [Messages -> Row] /\ MaxAttempts \in Nat \ {0}
  BY <1>0, BoundsAssumption DEF TypeOK
<1>1. ASSUME NEW m \in Messages, Enqueue(m) PROVE Counted'
  BY <1>1, <1>f DEF Enqueue, NewRow, Counted, Held
<1>2. ASSUME NEW w \in Workers, NEW limit \in 1..MaxLimit, claim(w, limit) PROVE Counted'
  <2>1. PICK taken \in SUBSET Messages : Taking(w, taken)
    BY <1>0, <1>2, ClaimTakes
  <2>2. UNCHANGED <<delivered, failures>>
    BY <1>2 DEF claim
  <2>3. \A m \in Messages :
          /\ outbox'[m].attempts = outbox[m].attempts
          /\ outbox'[m].status \in {"sent", "dead"} => outbox'[m].status = outbox[m].status
    BY <1>0, <2>1, ClaimStep
  <2>4. \A n \in worker'[w].batch : n.attempts <= failures[n.id]
    BY <1>0, <2>1, ClaimStep DEF Counted
  <2>5. \A v \in Workers : v # w => worker'[v] = worker[v]
    BY <1>0, <2>1, ClaimStep
  <2>6. worker'[w].sent = {} /\ worker'[w].raised = {}
    BY <1>0, <2>1, ClaimStep
  <2> QED BY <2>2, <2>3, <2>4, <2>5, <2>6 DEF Counted, Held
<1>3. ASSUME NEW w \in Workers, NEW n \in Held(w),
             SendOk(w, n) \/ SendRaises(w, n)
      PROVE  Counted'
  <2>1. n \in Notification /\ n.id \in Messages /\ n.attempts \in Nat
    BY <1>0, HeldTyped
  <2>2. UNCHANGED outbox
    BY <1>3 DEF SendOk, SendRaises
  <2>3. \A m \in Messages : delivered'[m] >= delivered[m] /\ failures'[m] >= failures[m]
                             /\ delivered'[m] \in Nat /\ failures'[m] \in Nat
    BY <1>3, <1>f DEF SendOk, SendRaises
  <2>4. SendOk(w, n) => delivered'[n.id] > 0
    BY <1>f, <2>1 DEF SendOk
  <2>5. SendRaises(w, n) => failures'[n.id] = failures[n.id] + 1
    BY <1>f, <2>1 DEF SendRaises
  <2>6. n.attempts <= failures[n.id]
    BY DEF Counted
  <2>7. \A m \in Messages :
          /\ outbox'[m].attempts <= failures'[m]
          /\ outbox'[m].status = "sent" => delivered'[m] > 0
          /\ outbox'[m].status = "dead" => failures'[m] >= MaxAttempts
    BY <1>f, <2>2, <2>3 DEF Counted, Row
  <2>8. ASSUME NEW v \in Workers
        PROVE  /\ \A o \in Held(v)' : o.attempts <= failures'[o.id]
               /\ \A o \in worker'[v].sent : delivered'[o.id] > 0
               /\ \A o \in worker'[v].raised : o.attempts < failures'[o.id]
    <3>1. \A o \in Held(v) : o.id \in Messages /\ o.attempts \in Nat
      BY <1>0, HeldTyped
    <3>2. \A o \in Held(v) : o.attempts <= failures'[o.id]
      BY <1>f, <2>3, <3>1 DEF Counted
    <3>3. CASE v = w
      <4>1. Held(w)' \subseteq Held(w)
        BY <1>0, <1>3, SendStep DEF Held
      <4>2. \A o \in worker'[w].sent : o = n /\ SendOk(w, n)
        BY <1>0, <1>3, SendStep
      <4>3. \A o \in worker'[w].raised : o = n /\ SendRaises(w, n)
        BY <1>0, <1>3, SendStep
      <4>4. SendRaises(w, n) => n.attempts < failures'[n.id]
        BY <1>f, <2>1, <2>5, <2>6
      <4> QED BY <2>4, <3>2, <3>3, <4>1, <4>2, <4>3, <4>4
    <3>4. CASE v # w
      <4>1. worker'[v] = worker[v]
        BY <1>0, <1>3, <3>4, SendStep
      <4>2. \A o \in worker[v].sent : delivered'[o.id] > 0
        BY <1>f, <2>3, <3>1 DEF Counted, Held
      <4>3. \A o \in worker[v].raised : o.attempts < failures'[o.id]
        BY <1>f, <2>3, <3>1 DEF Counted, Held
      <4> QED BY <3>2, <4>1, <4>2, <4>3 DEF Held
    <3> QED BY <3>3, <3>4
  <2> QED BY <2>7, <2>8 DEF Counted
<1>4. ASSUME NEW w \in Workers, NEW n \in Held(w),
             mark_sent(w, n) \/ mark_failed(w, n)
      PROVE  Counted'
  <2>1. n \in Notification /\ n.id \in Messages /\ n.attempts \in Nat
    BY <1>0, HeldTyped
  <2>2. UNCHANGED <<delivered, failures>>
    BY <1>4 DEF mark_sent, mark_failed
  <2>3. \A m \in Messages : m # n.id => outbox'[m] = outbox[m]
    BY <1>4, <1>f DEF mark_sent, mark_failed
  <2>4. /\ outbox'[n.id].attempts <= failures[n.id]
        /\ outbox'[n.id].status = "sent" => delivered[n.id] > 0
        /\ outbox'[n.id].status = "dead" => failures[n.id] >= MaxAttempts
    <3>1. CASE mark_sent(w, n)
      <4>1. delivered[n.id] > 0
        BY <3>1 DEF mark_sent, Counted
      <4> QED BY <1>f, <2>1, <3>1, <4>1 DEF mark_sent, IfSending, Sent, Put, Counted, Row
    <3>2. CASE mark_failed(w, n)
      <4>1. n.attempts + 1 <= failures[n.id] /\ failures[n.id] \in Nat
        BY <1>f, <2>1, <3>2 DEF mark_failed, Counted
      <4> QED BY <1>f, <2>1, <3>2, <4>1 DEF mark_failed, IfSending, Failed, Put, Counted, Row
    <3> QED BY <1>4, <3>1, <3>2
  <2>5. \A v \in Workers : /\ Held(v)' \subseteq Held(v)
                           /\ worker'[v].sent \subseteq worker[v].sent
                           /\ worker'[v].raised \subseteq worker[v].raised
    BY <1>0, <1>4, MarkStep DEF Held
  <2> QED BY <2>1, <2>2, <2>3, <2>4, <2>5 DEF Counted
<1>5. ASSUME requeue_dead PROVE Counted'
  <2>1. \A m \in Messages : outbox'[m] = outbox[m] \/
          (outbox'[m].attempts = 0 /\ outbox'[m].status = "pending")
    BY <1>5, <1>f DEF requeue_dead, Put
  <2>2. UNCHANGED <<worker, delivered, failures>>
    BY <1>5 DEF requeue_dead
  <2> QED BY <1>f, <2>1, <2>2 DEF Counted, Held
<1>6. ASSUME NEW w \in Workers, Die(w) PROVE Counted'
  <2>1. \A v \in Workers : /\ Held(v)' \subseteq Held(v)
                           /\ worker'[v].sent \subseteq worker[v].sent
                           /\ worker'[v].raised \subseteq worker[v].raised
    BY <1>0, <1>6, DieStep DEF Held
  <2> QED BY <1>6, <2>1 DEF Die, Counted
<1>7. ASSUME NEW m \in Messages, Time(m) \/ Outlasted(m) PROVE Counted'
  <2>1. \A l \in Messages :
          outbox'[l].status = outbox[l].status /\ outbox'[l].attempts = outbox[l].attempts
    BY <1>7, <1>f DEF Time, Abandoned, Outlasted, LeaseEnds, BecomesDue, Row
  <2>2. UNCHANGED <<worker, delivered, failures>>
    BY <1>7 DEF Time, Abandoned, Outlasted, LeaseEnds, BecomesDue
  <2> QED BY <2>1, <2>2 DEF Counted, Held
<1>8. CASE UNCHANGED vars
  BY <1>8 DEF vars, Counted, Held
<1> QED
  BY <1>1, <1>2, <1>3, <1>4, <1>5, <1>6, <1>7, <1>8 DEF Next, deliver_pending

(* In every reachable state no row and no batch counts more attempts than  *)
(* sends that raised.                                                      *)
THEOREM CountedAlways == Spec => [](Typed /\ Counted)
<1>1. Typed /\ Counted /\ [Next]_vars => (Typed /\ Counted)'
  BY TypedNext, CountedNext
<1> QED BY <1>1, TypedInit, CountedInit, PTL DEF Spec

(* `sent` is a receipt, and `dead` means MaxAttempts sends that raised.    *)
THEOREM ReceiptsAreTrue == Spec => []NothingLost
<1>1. Typed /\ Counted => NothingLost
  BY DEF Counted, NothingLost
<1> QED BY <1>1, CountedAlways, PTL

------------------------------------------------------------------------------
(* No step changes a row that is sent.                                     *)
LEMMA SentStays ==
  ASSUME TypeOK, [Next]_vars, NEW m \in Messages, outbox[m].status = "sent"
  PROVE  outbox'[m] = outbox[m]
<1>f. outbox \in [Messages -> Row]
  BY DEF TypeOK
<1>1. ASSUME NEW w \in Workers, NEW limit \in 1..MaxLimit, claim(w, limit)
      PROVE  outbox'[m] = outbox[m]
  <2>1. PICK taken \in SUBSET Messages : Taking(w, taken)
    BY <1>1, ClaimTakes
  <2>2. m \notin taken /\ ~ Over(m)
    BY <2>1 DEF Taking, Over
  <2> QED BY <2>1, <2>2, ClaimStep
<1>2. ASSUME NEW w \in Workers, NEW n \in Held(w),
             SendOk(w, n) \/ SendRaises(w, n) \/ mark_sent(w, n) \/ mark_failed(w, n)
      PROVE  outbox'[m] = outbox[m]
  BY <1>2, <1>f DEF SendOk, SendRaises, mark_sent, mark_failed, IfSending
<1>3. ASSUME NEW l \in Messages, Enqueue(l) \/ Time(l) \/ Outlasted(l)
      PROVE  outbox'[m] = outbox[m]
  BY <1>3, <1>f DEF Enqueue, Time, Abandoned, Outlasted, LeaseEnds, BecomesDue
<1>4. CASE requeue_dead \/ UNCHANGED vars
  BY <1>4, <1>f DEF requeue_dead, vars
<1>5. ASSUME NEW w \in Workers, Die(w) PROVE outbox'[m] = outbox[m]
  BY <1>5 DEF Die
<1> QED BY <1>1, <1>2, <1>3, <1>4, <1>5 DEF Next, deliver_pending

(* A process that lost its lease cannot put a message back that was sent.  *)
THEOREM SentStaysSent == Spec => SentIsFinal
<1>1. TypeOK /\ [Next]_vars =>
        [\A m \in Messages : outbox[m].status = "sent" => outbox'[m] = outbox[m]]_vars
  BY SentStays
<1> QED BY <1>1, TypeCorrect, PTL DEF Spec, SentIsFinal

------------------------------------------------------------------------------
(* Nothing was delivered at the start.                                     *)
LEMMA ExcusableInit == Init => Excusable
BY DEF Init, Excusable, Exclusive, Single, Parts, Holds, Held, Idle, Holding

(* A step that takes nothing into hands and sends nothing; of the messages *)
(* whose rows it changes the claim is shown apart.                         *)
LEMMA Releases ==
  ASSUME Excusable, UNCHANGED delivered, excused \subseteq excused',
         \A w \in Workers :
           /\ worker'[w].batch \subseteq worker[w].batch
           /\ worker'[w].sent \subseteq worker[w].sent
           /\ worker'[w].raised \subseteq worker[w].raised,
         NEW touched \in SUBSET Messages,
         \A m \in Messages \ (excused' \cup touched) :
           /\ outbox'[m].status = outbox[m].status
           /\ (\E w \in Workers : Holds(w, m)) => outbox'[m].lease = outbox[m].lease
           /\ \A w \in Workers : SentBy(w, m) => SentBy(w, m)',
         \A m \in touched \ excused' : Exclusive(m)' /\ Single(m)'
  PROVE  Excusable'
<1>1. \A w \in Workers : Held(w)' \subseteq Held(w)
  BY DEF Held
<1>2. \A w \in Workers : Parts(w)'
  BY <1>1 DEF Excusable, Parts
<1>3. ASSUME NEW m \in Messages \ (excused' \cup touched)
      PROVE  Exclusive(m)' /\ Single(m)'
  <2>1. \A w \in Workers : Holds(w, m)' => Holds(w, m)
    BY <1>1 DEF Holds
  <2>2. Exclusive(m) /\ Single(m)
    BY <1>3 DEF Excusable
  <2>3. Exclusive(m)'
    BY <1>3, <2>1, <2>2 DEF Exclusive
  <2>4. Single(m)'
    BY <1>3, <2>2 DEF Single
  <2> QED BY <2>3, <2>4
<1> QED BY <1>2, <1>3 DEF Excusable

(* Every step delivers a message once, or to one that is excused.          *)
LEMMA ExcusableNext ==
  ASSUME Typed, Excusable, [Next]_vars
  PROVE  Excusable'
<1>0. TypeOK
  BY DEF Typed
<1>f. /\ delivered \in [Messages -> Nat] /\ outbox \in [Messages -> Row]
      /\ worker \in [Workers -> Batch] /\ excused \subseteq Messages
  BY <1>0 DEF TypeOK
<1>1. ASSUME NEW l \in Messages, Enqueue(l) PROVE Excusable'
  <2>1. outbox[l].status = "none" /\ UNCHANGED <<worker, delivered, excused>>
    BY <1>1 DEF Enqueue
  <2>2. ASSUME l \notin excused PROVE Exclusive(l)' /\ Single(l)'
    <3>1. Exclusive(l) /\ Single(l)
      BY <2>2 DEF Excusable
    <3>2. \A w \in Workers : ~ Holds(w, l)
      BY <2>1, <3>1 DEF Exclusive
    <3>3. \A w \in Workers : ~ SentBy(w, l)
      BY <3>2 DEF Holds, Held, SentBy
    <3>4. delivered[l] # 1 /\ delivered[l] <= 1
      BY <2>1, <3>1, <3>3 DEF Single
    <3>5. Exclusive(l)'
      BY <2>1, <3>2 DEF Exclusive, Holds, Held
    <3> QED BY <2>1, <3>4, <3>5 DEF Single
  <2>3. \A m \in Messages : m # l => outbox'[m] = outbox[m]
    BY <1>1, <1>f DEF Enqueue
  <2> QED BY <2>1, <2>2, <2>3, Releases, {l} \in SUBSET Messages DEF SentBy
<1>2. ASSUME NEW w \in Workers, NEW limit \in 1..MaxLimit, claim(w, limit) PROVE Excusable'
  <2>1. PICK taken \in SUBSET Messages : Taking(w, taken)
    BY <1>0, <1>2, ClaimTakes
  <2>2. worker[w] = Idle /\ UNCHANGED <<delivered, excused>>
    BY <1>2 DEF claim
  <2>3. Held(w) = {}
    BY <2>2 DEF Held, Idle, Holding
  <2>4. Held(w)' = {[id |-> m, attempts |-> outbox[m].attempts] : m \in taken}
    BY <1>0, <2>1, ClaimStep DEF Held
  <2>5. \A v \in Workers : v # w => worker'[v] = worker[v]
    BY <1>0, <2>1, ClaimStep
  <2>6. ASSUME NEW v \in Workers PROVE Parts(v)'
    <3>1. CASE v = w
      BY <1>0, <2>1, <2>4, <3>1, ClaimStep DEF Parts
    <3>2. CASE v # w
      BY <2>5, <3>2 DEF Excusable, Parts, Held
    <3> QED BY <3>1, <3>2
  <2>7. ASSUME NEW m \in Messages \ excused PROVE Exclusive(m)' /\ Single(m)'
    <3>1. Exclusive(m) /\ Single(m)
      BY <2>7 DEF Excusable
    <3>2. \A v \in Workers : v # w => (Holds(v, m)' <=> Holds(v, m))
      BY <2>5 DEF Holds, Held
    <3>3. Holds(w, m)' => m \in taken
      BY <2>4 DEF Holds
    <3>4. \A v \in Workers : SentBy(v, m) => SentBy(v, m)'
      <4>1. ~ SentBy(w, m)
        BY <2>3 DEF SentBy, Held
      <4> QED BY <2>5, <4>1 DEF SentBy
    <3>5. CASE m \in taken
      <4>1. outbox[m].status = "pending" \/ outbox[m].lease = "none"
        BY <2>1, <3>5 DEF Taking, Over
      <4>2. \A v \in Workers : ~ Holds(v, m)
        BY <1>f, <3>1, <4>1 DEF Exclusive
      <4>3. outbox'[m].status = "sending" /\ outbox'[m].lease = "running"
        BY <1>0, <2>1, <3>5, ClaimStep
      <4>4. Exclusive(m)'
        BY <3>2, <4>2, <4>3 DEF Exclusive
      <4>5. outbox[m].status # "sent"
        BY <2>1, <3>5 DEF Taking, Over
      <4>6. \A v \in Workers : ~ SentBy(v, m)
        BY <4>2 DEF Holds, Held, SentBy
      <4>7. delivered[m] <= 1 /\ delivered[m] # 1
        BY <3>1, <4>5, <4>6 DEF Single
      <4> QED BY <2>2, <4>4, <4>7 DEF Single
    <3>6. CASE m \notin taken
      <4>1. \A v \in Workers : Holds(v, m)' => Holds(v, m)
        BY <3>2, <3>3, <3>6
      <4>2. Over(m) => \A v \in Workers : ~ Holds(v, m)
        BY <3>1 DEF Over, Exclusive
      <4>3. ~ Over(m) => outbox'[m] = outbox[m]
        BY <1>0, <2>1, <3>6, ClaimStep
      <4>4. Exclusive(m)'
        BY <3>1, <4>1, <4>2, <4>3 DEF Exclusive
      <4>5. outbox[m].status = "sent" => outbox'[m].status = "sent"
        BY <4>3 DEF Over
      <4> QED BY <2>2, <3>1, <3>4, <4>4, <4>5 DEF Single
    <3> QED BY <3>5, <3>6
  <2> QED BY <2>2, <2>6, <2>7 DEF Excusable
<1>3. ASSUME NEW w \in Workers, NEW n \in Held(w),
             SendOk(w, n) \/ SendRaises(w, n)
      PROVE  Excusable'
  <2>1. n.id \in Messages /\ n \in worker[w].batch /\ Holds(w, n.id)
    BY <1>0, <1>3, HeldTyped, SendStep DEF Holds
  <2>2. UNCHANGED outbox /\ excused \subseteq excused'
    BY <1>3 DEF SendOk, SendRaises
  <2>3. \A v \in Workers : Held(v)' = Held(v)
    BY <1>0, <1>3, SendStep DEF Held
  <2>4. ASSUME NEW v \in Workers PROVE Parts(v)'
    <3>1. CASE v = w
      BY <1>0, <1>3, <2>3, <3>1, SendStep DEF Excusable, Parts
    <3>2. CASE v # w
      BY <1>0, <1>3, <2>3, <3>2, SendStep DEF Excusable, Parts
    <3> QED BY <3>1, <3>2
  <2>5. ASSUME NEW m \in Messages \ excused' PROVE Exclusive(m)' /\ Single(m)'
    <3>1. Exclusive(m) /\ Single(m)
      BY <2>2, <2>5 DEF Excusable
    <3>2. Exclusive(m)'
      BY <2>2, <2>3, <3>1 DEF Exclusive, Holds
    <3>3. \A v \in Workers : SentBy(v, m) => SentBy(v, m)'
      BY <1>0, <1>3, SendStep DEF SentBy
    <3>4. CASE m # n.id
      <4>1. delivered'[m] = delivered[m]
        BY <1>3, <1>f, <2>1, <3>4 DEF SendOk, SendRaises
      <4> QED BY <2>2, <3>1, <3>2, <3>3, <4>1 DEF Single
    <3>5. CASE m = n.id /\ SendOk(w, n)
      <4>1. SentBy(w, m)'
        <5>1. n \in worker'[w].sent
          BY <1>f, <3>5 DEF SendOk, Holding, Batch
        <5> QED BY <3>5, <5>1 DEF SentBy
      <4>2. outbox[m].status = "sending"
        BY <2>1, <3>1, <3>5 DEF Exclusive
      <4>3. ~ \E v \in Workers : SentBy(v, m)
        <5> SUFFICES ASSUME NEW v \in Workers, SentBy(v, m) PROVE FALSE
          OBVIOUS
        <5>1. v = w
          BY <2>1, <3>1, <3>5 DEF Exclusive, SentBy, Holds, Held
        <5> QED BY <1>0, <1>3, <5>1, SendStep DEF SentBy
      <4>4. delivered[m] = 0
        BY <1>f, <3>1, <4>2, <4>3 DEF Single
      <4>5. delivered'[m] = 1
        BY <1>f, <2>1, <3>5, <4>4 DEF SendOk
      <4> QED BY <3>2, <4>1, <4>5 DEF Single
    <3>6. CASE m = n.id /\ SendRaises(w, n)
      <4>1. UNCHANGED delivered
        BY <2>5, <3>6 DEF SendRaises
      <4> QED BY <2>2, <3>1, <3>2, <3>3, <4>1 DEF Single
    <3> QED BY <1>3, <3>4, <3>5, <3>6
  <2> QED BY <2>4, <2>5 DEF Excusable
<1>4. ASSUME NEW w \in Workers, NEW n \in Held(w),
             mark_sent(w, n) \/ mark_failed(w, n)
      PROVE  Excusable'
  <2>1. n.id \in Messages
    BY <1>0, HeldTyped
  <2>2. UNCHANGED <<delivered, excused>>
    BY <1>4 DEF mark_sent, mark_failed
  <2>3. \A v \in Workers : /\ worker'[v].batch \subseteq worker[v].batch
                           /\ worker'[v].sent \subseteq worker[v].sent
                           /\ worker'[v].raised \subseteq worker[v].raised
    BY <1>0, <1>4, MarkStep
  <2>4. \A m \in Messages : m # n.id => outbox'[m] = outbox[m]
    BY <1>4, <1>f DEF mark_sent, mark_failed
  <2>5. ASSUME NEW m \in Messages, m # n.id, NEW v \in Workers, SentBy(v, m)
        PROVE  SentBy(v, m)'
    <3>1. CASE v = w
      <4>1. PICK o \in worker[w].sent : o.id = m
        BY <2>5, <3>1 DEF SentBy
      <4>2. o = n
        BY <1>4 DEF mark_sent, mark_failed, Excusable, Parts
      <4> QED BY <2>5, <4>1, <4>2
    <3>2. CASE v # w
      BY <1>0, <1>4, <2>5, <3>2, MarkStep DEF SentBy
    <3> QED BY <3>1, <3>2
  <2>6. ASSUME n.id \notin excused PROVE Exclusive(n.id)' /\ Single(n.id)'
    <3>1. Exclusive(n.id) /\ Single(n.id) /\ Holds(w, n.id) /\ Parts(w)
      BY <2>1, <2>6 DEF Excusable, Holds
    <3>2. outbox[n.id].status = "sending"
      BY <3>1 DEF Exclusive
    <3>3. ASSUME NEW v \in Workers PROVE ~ Holds(v, n.id)'
      <4>1. v # w => ~ Holds(v, n.id)
        BY <3>1 DEF Exclusive
      <4>2. v # w => ~ Holds(v, n.id)'
        BY <1>0, <1>4, <4>1, MarkStep DEF Holds, Held
      <4>3. n \notin worker[w].batch
        BY <1>4, <3>1 DEF Parts, mark_sent, mark_failed
      <4>4. ~ Holds(w, n.id)'
        BY <1>0, <1>4, <3>1, <4>3, MarkStep DEF Holds, Held, Parts
      <4> QED BY <4>2, <4>4
    <3>4. Exclusive(n.id)'
      BY <3>3 DEF Exclusive
    <3>5. CASE mark_sent(w, n)
      <4>1. outbox'[n.id].status = "sent"
        BY <1>f, <2>1, <3>2, <3>5 DEF mark_sent, IfSending, Sent, Put
      <4> QED BY <2>2, <3>1, <3>4, <4>1 DEF Single
    <3>6. CASE mark_failed(w, n)
      <4>1. \A v \in Workers : ~ SentBy(v, n.id)
        <5> SUFFICES ASSUME NEW v \in Workers, SentBy(v, n.id) PROVE FALSE
          OBVIOUS
        <5>1. v = w
          BY <3>1 DEF Exclusive, SentBy, Holds, Held
        <5>2. n \in worker[w].sent /\ n \in worker[w].raised
          BY <3>1, <3>6, <5>1 DEF Parts, SentBy, mark_failed
        <5> QED BY <3>1, <5>2 DEF Parts
      <4>2. delivered[n.id] <= 1 /\ delivered[n.id] # 1
        BY <3>1, <3>2, <4>1 DEF Single
      <4> QED BY <2>2, <3>4, <4>2 DEF Single
    <3> QED BY <1>4, <3>5, <3>6
  <2> QED BY <2>1, <2>2, <2>3, <2>4, <2>5, <2>6, Releases, {n.id} \in SUBSET Messages
<1>5. CASE requeue_dead
  <2> DEFINE dead == {m \in Messages : outbox[m].status = "dead"}
  <2>1. UNCHANGED <<worker, delivered, excused>>
    BY <1>5 DEF requeue_dead
  <2>2. \A m \in Messages : m \notin dead => outbox'[m] = outbox[m]
    BY <1>5, <1>f DEF requeue_dead
  <2>3. ASSUME NEW m \in dead \ excused PROVE Exclusive(m)' /\ Single(m)'
    <3>1. Exclusive(m) /\ Single(m) /\ outbox[m].status = "dead"
      BY <2>3 DEF Excusable
    <3>2. \A w \in Workers : ~ Holds(w, m)
      BY <3>1 DEF Exclusive
    <3>3. \A w \in Workers : ~ SentBy(w, m)
      BY <3>2 DEF SentBy, Holds, Held
    <3>4. delivered[m] <= 1 /\ delivered[m] # 1
      BY <3>1, <3>3 DEF Single
    <3>5. Exclusive(m)'
      BY <2>1, <3>2 DEF Exclusive, Holds, Held
    <3> QED BY <2>1, <3>4, <3>5 DEF Single
  <2> QED BY <2>1, <2>2, <2>3, Releases, dead \in SUBSET Messages DEF SentBy
<1>6. ASSUME NEW w \in Workers, Die(w) PROVE Excusable'
  <2>1. UNCHANGED <<outbox, delivered>> /\ excused \subseteq excused'
        /\ \A n \in worker[w].sent : n.id \in excused'
    BY <1>6 DEF Die
  <2>2. \A v \in Workers : /\ worker'[v].batch \subseteq worker[v].batch
                           /\ worker'[v].sent \subseteq worker[v].sent
                           /\ worker'[v].raised \subseteq worker[v].raised
    BY <1>0, <1>6, DieStep
  <2>3. ASSUME NEW m \in Messages \ excused', NEW v \in Workers, SentBy(v, m)
        PROVE  SentBy(v, m)'
    BY <1>0, <1>6, <2>1, <2>3, DieStep DEF SentBy
  <2> QED BY <2>1, <2>2, <2>3, Releases, {} \in SUBSET Messages
<1>7. ASSUME NEW l \in Messages, Time(l) \/ Outlasted(l) PROVE Excusable'
  <2>1. UNCHANGED <<worker, delivered>> /\ excused \subseteq excused'
    BY <1>7 DEF Time, Abandoned, Outlasted, LeaseEnds, BecomesDue
  <2>2. \A m \in Messages : outbox'[m].status = outbox[m].status
    BY <1>7, <1>f DEF Time, Abandoned, Outlasted, LeaseEnds, BecomesDue, Row
  <2>3. \A m \in Messages \ excused' :
          (\E w \in Workers : Holds(w, m)) => outbox'[m].lease = outbox[m].lease
    BY <1>7, <1>f DEF Time, Abandoned, Outlasted, LeaseEnds, BecomesDue, Row
  <2> QED BY <2>1, <2>2, <2>3, Releases, {} \in SUBSET Messages DEF SentBy
<1>8. CASE UNCHANGED vars
  <2>1. UNCHANGED <<worker, delivered, excused, outbox>>
    BY <1>8 DEF vars
  <2> QED BY <2>1, Releases, {} \in SUBSET Messages DEF SentBy
<1> QED
  BY <1>1, <1>2, <1>3, <1>4, <1>5, <1>6, <1>7, <1>8 DEF Next, deliver_pending

(* However many processes deliver at once, a message reaches its chat twice*)
(* only after a lost answer, a death before the mark or an outlasted lease.*)
THEOREM NoOtherDuplicates == Spec => []DuplicatesAreExcused
<1>1. Typed /\ Excusable /\ [Next]_vars => (Typed /\ Excusable)'
  BY TypedNext, ExcusableNext
<1>2. Typed /\ Excusable => DuplicatesAreExcused
  BY DEF Excusable, Single, DuplicatesAreExcused, Typed, TypeOK
<1> QED BY <1>1, <1>2, TypedInit, ExcusableInit, PTL DEF Spec

(* For any number of messages, processes and mishaps, the rows are well    *)
(* typed and their receipts true (notifications.py:105-150).               *)
THEOREM OutboxStaysSafe == Spec => []OutboxIsSafe
<1>1. TypeOK /\ NothingLost => OutboxIsSafe
  BY DEF OutboxIsSafe
<1> QED BY <1>1, TypeCorrect, ReceiptsAreTrue, PTL
==============================================================================
