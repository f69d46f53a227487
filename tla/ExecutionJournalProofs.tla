------------------------ MODULE ExecutionJournalProofs ------------------------
(***************************************************************************)
(* Proofs about ExecutionJournal for every set of accounts, logical orders *)
(* and plans and every value of the bounds.                                *)
(***************************************************************************)
EXTENDS ExecutionJournal, TLAPS

(* A row is known by its key, and its snapshot, reservation and outcome    *)
(* are stamped in that order, none of them in the future.                  *)
KeysAndStamps ==
  /\ \A r, q \in actions : OrderOf(r) = OrderOf(q) => r = q
  /\ \A r \in actions :
       /\ r.snapshot_at <= r.reserved_at
       /\ r.reserved_at <= now /\ r.completed_at <= now
       /\ r.state \in TERMINAL => r.reserved_at <= r.completed_at

(* The orders of an account on a ready journal follow one another: an      *)
(* earlier row is terminal and its outcome is stamped no later than the    *)
(* next reservation, and earlier than it when the plan differs.            *)
Serial ==
  /\ \A r \in actions : r.rowid <= last_rowid
  /\ migration_state = "ready" =>
       /\ \A r, q \in actions : r.rowid = q.rowid => r = q
       /\ \A r, q \in actions :
            r.account = q.account /\ r.rowid < q.rowid =>
              /\ r.state \in TERMINAL
              /\ r.completed_at <= q.reserved_at
              /\ r.plan_id # q.plan_id => r.completed_at < q.reserved_at

IInv ==
  /\ TypeOK /\ KeysAndStamps /\ Serial
  /\ PlanSwitchSeesEveryOutcome /\ ResidualExitSeesEarlierFills

------------------------------------------------------------------------------
(* A row that reserve() inserts: its fields, and the last generation it    *)
(* continues, if any.                                                      *)
LEMMA ReserveStep ==
  ASSUME IInv,
         NEW a \in Accounts, NEW l \in LogicalIds, NEW lots \in 1..MaxLots,
         NEW plan \in Plans, NEW snapshot \in 0..now,
         NEW residual_exit \in BOOLEAN,
         reserve(a, l, lots, plan, snapshot, residual_exit)
  PROVE  \E new \in Row :
           /\ actions' = actions \cup {new}
           /\ new.account = a /\ new.logical_id = l /\ new.plan_id = plan
           /\ new.state = "request_pending" /\ new.completed_at = Never
           /\ new.snapshot_at = snapshot /\ new.reserved_at = now
           /\ new.rowid = last_rowid' /\ last_rowid' = last_rowid + 1
           /\ \A r \in Chain(a, l) :
                r.generation < new.generation /\ snapshot > r.completed_at
           /\ \A r \in actions : r.account = a => r.state \in TERMINAL
<1>1. PICK g \in NextGeneration(a, l, plan, snapshot, residual_exit) :
        g <= MaxGeneration
        /\ actions' = actions \cup {Inserted(a, l, g, lots, plan, snapshot)}
  BY DEF reserve
<1> DEFINE new == Inserted(a, l, g, lots, plan, snapshot)
<1>2. \A r \in actions : r.account = a => r.state \in TERMINAL
  BY DEF reserve, Unresolved
<1>3. g \in Nat \ {0} /\ \A r \in Chain(a, l) : r.generation < g /\ snapshot > r.completed_at
  <2>1. CASE Chain(a, l) = {}
    BY <2>1 DEF NextGeneration
  <2>2. CASE Chain(a, l) # {}
    <3>1. PICK last \in Last(a, l) :
            last.generation + 1 = g /\ snapshot > last.completed_at
      BY <2>2 DEF NextGeneration
    <3>2. last \in actions /\ last.account = a /\ last.logical_id = l
          /\ \A r \in Chain(a, l) : r.generation <= last.generation
      BY <3>1 DEF Last, Chain
    <3>3. ASSUME NEW r \in Chain(a, l)
          PROVE  r.generation < g /\ snapshot > r.completed_at
      <4>1. r \in actions /\ r.account = a /\ r.logical_id = l
        BY DEF Chain
      <4>2. r \in Row /\ last \in Row
        BY <3>2, <4>1 DEF IInv, TypeOK
      <4>3. r.generation < g
        BY <3>1, <3>2, <4>2, BoundsAssumption DEF Row
      <4>4. CASE r.generation = last.generation
        <5>1. r = last
          BY <3>2, <4>1, <4>4 DEF IInv, KeysAndStamps, OrderOf
        <5> QED BY <3>1, <4>3, <5>1
      <4>5. CASE r.generation < last.generation
        <5>1. last.snapshot_at > r.completed_at
          BY <3>2, <4>1, <4>5 DEF IInv, ResidualExitSeesEarlierFills
        <5>2. last.snapshot_at <= last.completed_at
          BY <1>2, <3>2, <4>2 DEF IInv, KeysAndStamps, Row, Never
        <5> QED BY <3>1, <4>2, <4>3, <5>1, <5>2 DEF Row, Never
      <4> QED BY <3>2, <4>2, <4>4, <4>5, BoundsAssumption DEF Row
    <3>4. last \in Row
      BY <3>2 DEF IInv, TypeOK
    <3> QED BY <3>1, <3>3, <3>4, BoundsAssumption DEF Row
  <2> QED BY <2>1, <2>2
<1>4. new \in Row
  BY <1>1, <1>3, BoundsAssumption DEF Row, Inserted, Reported, IInv, TypeOK
<1>5. last_rowid' = last_rowid + 1
  BY DEF reserve
<1> QED
  <2> WITNESS new \in Row
  <2> QED BY <1>1, <1>2, <1>3, <1>5 DEF Inserted

(* A row that record() changes keeps its key, its plan and its snapshot.   *)
LEMMA RecordStep ==
  ASSUME IInv, NEW r \in actions, NEW status \in Reported,
         NEW filled \in 0..MaxLots, NEW stamp \in r.reserved_at..now,
         record(r, status, filled, stamp)
  PROVE  \E new \in Row :
           /\ actions' = (actions \ {r}) \cup {new}
           /\ OrderOf(new) = OrderOf(r) /\ new.account = r.account
           /\ new.logical_id = r.logical_id /\ new.generation = r.generation
           /\ new.plan_id = r.plan_id /\ new.rowid = r.rowid
           /\ new.snapshot_at = r.snapshot_at /\ new.lots = r.lots
           /\ new.reserved_at = r.reserved_at
           /\ new.state = status /\ new.filled_lots = filled
           /\ filled >= r.filled_lots
           /\ r.state \notin TERMINAL
           /\ new.completed_at = IF status \in TERMINAL THEN stamp ELSE Never
<1> DEFINE new == Updated(r, status, filled, stamp)
<1>1. r \in Row /\ now \in Nat /\ r.reserved_at \in Nat /\ stamp \in Nat
  BY DEF IInv, TypeOK, Row
<1>2. new \in Row
  BY <1>1, BoundsAssumption DEF Row, Updated, Reported, TERMINAL, Never
<1>3. actions' = (actions \ {r}) \cup {new} /\ r.state \notin TERMINAL
      /\ filled >= r.filled_lots
  BY <1>1 DEF record, Recordable, Row
<1>4. /\ OrderOf(new) = OrderOf(r) /\ new.account = r.account
      /\ new.logical_id = r.logical_id /\ new.generation = r.generation
      /\ new.plan_id = r.plan_id /\ new.rowid = r.rowid
      /\ new.snapshot_at = r.snapshot_at /\ new.lots = r.lots
      /\ new.reserved_at = r.reserved_at
      /\ new.state = status /\ new.filled_lots = filled
      /\ new.completed_at = IF status \in TERMINAL THEN stamp ELSE Never
  BY <1>1 DEF Updated, OrderOf, Row
<1> QED
  <2> WITNESS new \in Row
  <2> QED BY <1>3, <1>4

------------------------------------------------------------------------------
(* IInv holds initially.                                                   *)
LEMMA InitIInv == Init => IInv
<1> SUFFICES ASSUME Init PROVE IInv
  OBVIOUS
<1>1. actions = {} /\ last_rowid = 0 /\ now = 0 /\ legacy_manifest = FALSE
      /\ migration_state \in {"ready", "review_required"}
  BY DEF Init
<1>2. TypeOK
  BY <1>1 DEF TypeOK
<1>3. KeysAndStamps /\ Serial
  BY <1>1 DEF KeysAndStamps, Serial
<1>4. PlanSwitchSeesEveryOutcome /\ ResidualExitSeesEarlierFills
  BY <1>1 DEF PlanSwitchSeesEveryOutcome, ResidualExitSeesEarlierFills
<1> QED BY <1>2, <1>3, <1>4 DEF IInv

(* A reservation keeps it.                                                 *)
LEMMA ReserveIInv ==
  ASSUME IInv,
         NEW a \in Accounts, NEW l \in LogicalIds, NEW lots \in 1..MaxLots,
         NEW plan \in Plans, NEW snapshot \in 0..now,
         NEW residual_exit \in BOOLEAN,
         reserve(a, l, lots, plan, snapshot, residual_exit)
  PROVE  IInv'
<1>1. PICK new \in Row :
        /\ actions' = actions \cup {new}
        /\ new.account = a /\ new.logical_id = l /\ new.plan_id = plan
        /\ new.state = "request_pending" /\ new.completed_at = Never
        /\ new.snapshot_at = snapshot /\ new.reserved_at = now
        /\ new.rowid = last_rowid' /\ last_rowid' = last_rowid + 1
        /\ \A r \in Chain(a, l) :
             r.generation < new.generation /\ snapshot > r.completed_at
        /\ \A r \in actions : r.account = a => r.state \in TERMINAL
  BY ReserveStep
<1>2. migration_state = "ready" /\ UNCHANGED <<migration_state, legacy_manifest, now>>
      /\ SeesLatest(a, plan, snapshot)
  BY DEF reserve
<1>3. TypeOK /\ KeysAndStamps /\ Serial /\ now \in Nat /\ last_rowid \in Nat
      /\ \A r \in actions : r \in Row
  BY DEF IInv, TypeOK
<1>4. TypeOK'
  BY <1>1, <1>2, <1>3 DEF TypeOK, TERMINAL
<1>5. \A r \in actions : OrderOf(r) # OrderOf(new)
  <2> SUFFICES ASSUME NEW r \in actions, OrderOf(r) = OrderOf(new) PROVE FALSE
    OBVIOUS
  <2>1. r.account = a /\ r.logical_id = l /\ r.generation = new.generation
    BY <1>1 DEF OrderOf
  <2>2. r \in Chain(a, l)
    BY <2>1 DEF Chain
  <2> QED BY <1>1, <1>3, <2>1, <2>2, BoundsAssumption DEF Row
<1>6. KeysAndStamps'
  BY <1>1, <1>2, <1>3, <1>5 DEF KeysAndStamps, TERMINAL, Never
<1>7. Serial'
  <2>1. \A r \in actions' : r.rowid <= last_rowid'
    BY <1>1, <1>3 DEF Serial, Row
  <2>2. \A r, q \in actions' : r.rowid = q.rowid => r = q
    BY <1>1, <1>2, <1>3 DEF Serial, Row
  <2>3. ASSUME NEW r \in actions, r.account = a, r.plan_id # plan
        PROVE  r.completed_at < now
    <3>1. r.state \in TERMINAL /\ r.completed_at # Never
      BY <1>1, <1>3, <2>3 DEF TypeOK
    <3>2. PICK latest \in Latest(a) :
            latest.plan_id = plan \/ snapshot > latest.completed_at
      BY <1>2, <2>3, <3>1 DEF SeesLatest, Completed
    <3>3. latest \in actions /\ latest.account = a
          /\ latest.completed_at # Never /\ r.completed_at <= latest.completed_at
      BY <2>3, <3>1, <3>2 DEF Latest, Completed
    <3>4. latest.state \in TERMINAL /\ latest \in Row /\ r \in Row
          /\ latest.completed_at <= now
      BY <1>3, <3>3 DEF TypeOK, KeysAndStamps
    <3>5. CASE snapshot > latest.completed_at
      BY <1>3, <3>3, <3>4, <3>5 DEF Row, Never
    <3>6. CASE latest.plan_id = plan
      <4>1. r # latest /\ r.rowid # latest.rowid
        BY <1>2, <1>3, <2>3, <3>3, <3>6 DEF Serial
      <4>2. CASE r.rowid < latest.rowid
        <5>1. r.completed_at < latest.completed_at
          BY <1>2, <1>3, <2>3, <3>3, <3>4, <3>6, <4>2
             DEF Serial, KeysAndStamps, Row, Never
        <5> QED BY <1>3, <3>4, <5>1 DEF Row, Never
      <4>3. CASE latest.rowid < r.rowid
        <5>1. latest.completed_at < r.completed_at
          BY <1>2, <1>3, <2>3, <3>1, <3>3, <3>4, <3>6, <4>3
             DEF Serial, KeysAndStamps, Row, Never
        <5> QED BY <3>3, <3>4, <5>1 DEF Row, Never
      <4> QED BY <3>4, <4>1, <4>2, <4>3 DEF Row
    <3> QED BY <3>2, <3>5, <3>6
  <2>4. ASSUME NEW r \in actions', NEW q \in actions',
               r.account = q.account, r.rowid < q.rowid
        PROVE  /\ r.state \in TERMINAL
               /\ r.completed_at <= q.reserved_at
               /\ r.plan_id # q.plan_id => r.completed_at < q.reserved_at
    <3>1. r \in actions
      BY <1>1, <1>3, <2>4 DEF Serial, Row
    <3>2. CASE q = new
      <4>1. r.state \in TERMINAL /\ r.account = a /\ q.reserved_at = now
            /\ q.plan_id = plan
        BY <1>1, <2>4, <3>1, <3>2
      <4>2. r.completed_at <= now
        BY <1>3, <3>1 DEF KeysAndStamps
      <4> QED BY <2>3, <3>1, <4>1, <4>2
    <3>3. CASE q \in actions
      BY <1>2, <1>3, <2>4, <3>1, <3>3 DEF Serial
    <3> QED BY <1>1, <3>2, <3>3
  <2> QED BY <1>2, <2>1, <2>2, <2>4 DEF Serial
<1>9. PlanSwitchSeesEveryOutcome'
  <2> SUFFICES ASSUME NEW p \in actions', NEW q \in actions', NEW r \in actions',
                      Precedes(p, q)', p.plan_id # q.plan_id,
                      r.account = q.account, r.rowid < q.rowid
               PROVE  r.state \in TERMINAL /\ q.snapshot_at > r.completed_at
    BY DEF PlanSwitchSeesEveryOutcome
  <2>1. /\ p.account = q.account /\ p.rowid < q.rowid
        /\ \A m \in actions' : m.account = q.account =>
              m.rowid <= p.rowid \/ m.rowid >= q.rowid
    BY DEF Precedes
  <2>2. p \in actions /\ r \in actions
    BY <1>1, <1>3, <2>1 DEF Serial, Row
  <2>3. CASE q \in actions
    <3>1. Precedes(p, q)
      BY <1>1, <2>1 DEF Precedes
    <3> QED BY <1>2, <2>2, <2>3, <3>1 DEF IInv, PlanSwitchSeesEveryOutcome
  <2>4. CASE q = new
    <3>1. r.state \in TERMINAL /\ r.account = a /\ p.account = a
          /\ p.state \in TERMINAL /\ p.plan_id # plan
      BY <1>1, <2>1, <2>2, <2>4
    <3>2. r.completed_at # Never /\ p.completed_at # Never
      BY <1>3, <2>2, <3>1 DEF TypeOK
    <3>3. PICK latest \in Latest(a) :
            latest.plan_id = plan \/ snapshot > latest.completed_at
      BY <1>2, <2>2, <3>1, <3>2 DEF SeesLatest, Completed
    <3>4. latest \in actions /\ latest.account = a /\ latest.completed_at # Never
          /\ r.completed_at <= latest.completed_at
          /\ p.completed_at <= latest.completed_at
      BY <2>2, <3>1, <3>2, <3>3 DEF Latest, Completed
    <3>5. latest \in Row /\ r \in Row /\ p \in Row /\ latest.state \in TERMINAL
      BY <1>3, <2>2, <3>4 DEF TypeOK
    <3>6. latest.rowid <= p.rowid
      BY <1>1, <1>3, <2>1, <2>4, <3>4, <3>5 DEF Serial, Row
    <3>7. latest.plan_id # plan
      <4> SUFFICES ASSUME latest.plan_id = plan PROVE FALSE
        OBVIOUS
      <4>1. latest.rowid < p.rowid
        BY <1>2, <1>3, <2>2, <3>1, <3>4, <3>5, <3>6 DEF Serial, Row
      <4>2. latest.completed_at < p.completed_at
        BY <1>2, <1>3, <2>2, <3>1, <3>4, <3>5, <4>1
           DEF Serial, KeysAndStamps, Row, Never
      <4> QED BY <3>4, <3>5, <4>2 DEF Row, Never
    <3> QED BY <1>1, <2>4, <3>1, <3>3, <3>4, <3>5, <3>7 DEF Row, Never
  <2> QED BY <1>1, <2>3, <2>4
<1>10. ResidualExitSeesEarlierFills'
  <2> SUFFICES ASSUME NEW r \in actions', NEW q \in actions',
                      r.account = q.account, r.logical_id = q.logical_id,
                      r.generation < q.generation
               PROVE  r.state \in TERMINAL /\ q.snapshot_at > r.completed_at
    BY DEF ResidualExitSeesEarlierFills
  <2>1. CASE q \in actions /\ r \in actions
    BY <2>1 DEF IInv, ResidualExitSeesEarlierFills
  <2>2. CASE r \in actions /\ q = new
    <3>1. r \in Chain(a, l)
      BY <1>1, <2>2 DEF Chain
    <3> QED BY <1>1, <2>2, <3>1
  <2>3. CASE r = new
    <3>1. q \in actions /\ q \in Chain(a, l)
      BY <1>1, <1>3, <2>3, BoundsAssumption DEF Chain, Row
    <3> QED BY <1>1, <1>3, <2>3, <3>1, BoundsAssumption DEF Row
  <2> QED BY <1>1, <2>1, <2>2, <2>3
<1> QED BY <1>4, <1>6, <1>7, <1>9, <1>10 DEF IInv

(* A recorded answer keeps it.                                             *)
LEMMA RecordIInv ==
  ASSUME IInv, NEW r0 \in actions, NEW status \in Reported,
         NEW filled \in 0..MaxLots, NEW stamp \in r0.reserved_at..now,
         record(r0, status, filled, stamp)
  PROVE  IInv'
<1>1. PICK new \in Row :
        /\ actions' = (actions \ {r0}) \cup {new}
        /\ OrderOf(new) = OrderOf(r0) /\ new.account = r0.account
        /\ new.logical_id = r0.logical_id /\ new.generation = r0.generation
        /\ new.plan_id = r0.plan_id /\ new.rowid = r0.rowid
        /\ new.snapshot_at = r0.snapshot_at /\ new.lots = r0.lots
        /\ new.reserved_at = r0.reserved_at
        /\ new.state = status /\ new.filled_lots = filled
        /\ filled >= r0.filled_lots
        /\ r0.state \notin TERMINAL
        /\ new.completed_at = IF status \in TERMINAL THEN stamp ELSE Never
  BY RecordStep
<1>2. UNCHANGED <<last_rowid, migration_state, legacy_manifest, now>>
  BY DEF record
<1>3. TypeOK /\ KeysAndStamps /\ Serial /\ now \in Nat /\ last_rowid \in Nat
      /\ \A r \in actions : r \in Row
  BY DEF IInv, TypeOK
<1>0. stamp \in Nat /\ stamp <= now /\ r0.reserved_at <= stamp
  BY <1>3 DEF Row
<1>4. TypeOK'
  BY <1>0, <1>1, <1>2, <1>3 DEF TypeOK, Never
<1>5. KeysAndStamps'
  <2>1. \A r, q \in actions' : OrderOf(r) = OrderOf(q) => r = q
    BY <1>1, <1>3 DEF KeysAndStamps
  <2>2. \A r \in actions' :
          /\ r.snapshot_at <= r.reserved_at
          /\ r.reserved_at <= now /\ r.completed_at <= now
          /\ r.state \in TERMINAL => r.reserved_at <= r.completed_at
    BY <1>0, <1>1, <1>3 DEF KeysAndStamps, Never
  <2> QED BY <1>2, <2>1, <2>2 DEF KeysAndStamps
<1>6. Serial'
  <2>1. \A r \in actions' : r.rowid <= last_rowid
    BY <1>1, <1>3 DEF Serial
  <2>2. ASSUME migration_state = "ready"
        PROVE  \A r, q \in actions' : r.rowid = q.rowid => r = q
    BY <1>1, <1>3, <2>2 DEF Serial
  <2>3. ASSUME migration_state = "ready", NEW r \in actions', NEW q \in actions',
               r.account = q.account, r.rowid < q.rowid
        PROVE  /\ r.state \in TERMINAL
               /\ r.completed_at <= q.reserved_at
               /\ r.plan_id # q.plan_id => r.completed_at < q.reserved_at
    <3>1. CASE q = new
      <4>1. r \in actions /\ r # r0
        BY <1>1, <1>3, <2>3, <3>1 DEF Row
      <4>2. /\ r.state \in TERMINAL /\ r.completed_at <= r0.reserved_at
            /\ r.plan_id # r0.plan_id => r.completed_at < r0.reserved_at
        BY <1>1, <1>3, <2>3, <3>1, <4>1 DEF Serial
      <4> QED BY <1>1, <3>1, <4>2
    <3>2. CASE q \in actions /\ r = new
      <4>1. r0.state \in TERMINAL
        BY <1>1, <1>3, <2>3, <3>2 DEF Serial
      <4> QED BY <1>1, <4>1
    <3>3. CASE q \in actions /\ r \in actions
      BY <1>3, <2>3, <3>3 DEF Serial
    <3> QED BY <1>1, <3>1, <3>2, <3>3
  <2> QED BY <1>2, <2>1, <2>2, <2>3 DEF Serial
<1>8. PlanSwitchSeesEveryOutcome'
  <2> SUFFICES ASSUME migration_state = "ready",
                      NEW p \in actions', NEW q \in actions', NEW r \in actions',
                      Precedes(p, q)', p.plan_id # q.plan_id,
                      r.account = q.account, r.rowid < q.rowid
               PROVE  r.state \in TERMINAL /\ q.snapshot_at > r.completed_at
    BY <1>2 DEF PlanSwitchSeesEveryOutcome
  <2> DEFINE Old(m) == IF m = new THEN r0 ELSE m
  <2>1. \A m \in actions' :
          /\ Old(m) \in actions /\ Old(m).account = m.account
          /\ Old(m).rowid = m.rowid /\ Old(m).plan_id = m.plan_id
          /\ Old(m).snapshot_at = m.snapshot_at
    BY <1>1
  <2>2. Precedes(Old(p), Old(q))
    <3>1. /\ p.account = q.account /\ p.rowid < q.rowid
          /\ \A m \in actions' : m.account = q.account =>
                m.rowid <= p.rowid \/ m.rowid >= q.rowid
      BY DEF Precedes
    <3>2. ASSUME NEW m \in actions, m.account = q.account
          PROVE  m.rowid <= p.rowid \/ m.rowid >= q.rowid
      BY <1>1, <3>1, <3>2
    <3> HIDE DEF Old
    <3> QED BY <2>1, <3>1, <3>2 DEF Precedes
  <2>3. Old(r).state \in TERMINAL /\ Old(q).snapshot_at > Old(r).completed_at
    <3> HIDE DEF Old
    <3> QED BY <2>1, <2>2 DEF IInv, PlanSwitchSeesEveryOutcome
  <2>4. r # new
    BY <1>1, <2>3
  <2> QED BY <2>1, <2>3, <2>4
<1>9. ResidualExitSeesEarlierFills'
  <2> SUFFICES ASSUME NEW r \in actions', NEW q \in actions',
                      r.account = q.account, r.logical_id = q.logical_id,
                      r.generation < q.generation
               PROVE  r.state \in TERMINAL /\ q.snapshot_at > r.completed_at
    BY DEF ResidualExitSeesEarlierFills
  <2> DEFINE Old(m) == IF m = new THEN r0 ELSE m
  <2>1. \A m \in actions' :
          /\ Old(m) \in actions /\ Old(m).account = m.account
          /\ Old(m).logical_id = m.logical_id
          /\ Old(m).generation = m.generation
          /\ Old(m).snapshot_at = m.snapshot_at
    BY <1>1
  <2>2. Old(r).state \in TERMINAL /\ Old(q).snapshot_at > Old(r).completed_at
    <3> HIDE DEF Old
    <3> QED BY <2>1 DEF IInv, ResidualExitSeesEarlierFills
  <2>3. r # new
    BY <1>1, <2>2
  <2> QED BY <2>1, <2>2, <2>3
<1> QED BY <1>4, <1>5, <1>6, <1>8, <1>9 DEF IInv

(* The import of historical orders keeps it.                               *)
LEMMA StageLegacyIInv ==
  ASSUME IInv, NEW ids \in SUBSET LogicalIds, NEW entries \in [ids -> History],
         stage_legacy(entries)
  PROVE  IInv'
<1>1. actions' = {Imported(l, entries[l]) : l \in ids}
      /\ migration_state' = "review_required" /\ legacy_manifest' = TRUE
      /\ UNCHANGED <<last_rowid, now>>
  BY DEF stage_legacy
<1>2. TypeOK /\ now \in Nat /\ last_rowid \in Nat
  BY DEF IInv, TypeOK
<1>3. ASSUME NEW l \in ids
      PROVE  LET m == Imported(l, entries[l])
             IN /\ m \in Row /\ m.completed_at = Never /\ m.state = "unknown"
                /\ m.snapshot_at <= now /\ m.reserved_at = now /\ m.generation = 1 /\ m.rowid = 0
                /\ m.logical_id = l
  <2>1. entries[l] \in History
    OBVIOUS
  <2> QED BY <1>2, <2>1, BoundsAssumption DEF Imported, Row, History, Reported
<1>4. TypeOK'
  BY <1>1, <1>2, <1>3 DEF TypeOK, TERMINAL
<1>5. KeysAndStamps'
  <2>1. \A r, q \in actions' : OrderOf(r) = OrderOf(q) => r = q
    BY <1>1, <1>3 DEF OrderOf
  <2>2. \A r \in actions' :
          /\ r.snapshot_at <= r.reserved_at /\ r.reserved_at = now
          /\ r.completed_at <= now /\ r.state \notin TERMINAL
    BY <1>1, <1>2, <1>3 DEF Never, TERMINAL
  <2> QED BY <1>1, <1>2, <2>1, <2>2 DEF KeysAndStamps
<1>6. Serial' /\ PlanSwitchSeesEveryOutcome'
  BY <1>1, <1>2, <1>3 DEF Serial, PlanSwitchSeesEveryOutcome
<1>7. ResidualExitSeesEarlierFills'
  BY <1>1, <1>3 DEF ResidualExitSeesEarlierFills
<1> QED BY <1>4, <1>5, <1>6, <1>7 DEF IInv

(* So does the enrollment of an empty journal.                             *)
LEMMA EnrollIInv == IInv /\ enroll => IInv'
<1> SUFFICES ASSUME IInv, enroll PROVE IInv'
  OBVIOUS
<1>1. actions' = {} /\ actions = {} /\ migration_state' = "ready"
      /\ UNCHANGED <<last_rowid, legacy_manifest, now>>
  BY DEF enroll
<1>2. TypeOK'
  BY <1>1 DEF IInv, TypeOK
<1>3. KeysAndStamps' /\ Serial'
  BY <1>1 DEF KeysAndStamps, Serial
<1>4. PlanSwitchSeesEveryOutcome' /\ ResidualExitSeesEarlierFills'
  BY <1>1 DEF PlanSwitchSeesEveryOutcome, ResidualExitSeesEarlierFills
<1> QED BY <1>2, <1>3, <1>4 DEF IInv

(* And time passing.                                                       *)
LEMMA TickIInv == IInv /\ Tick => IInv'
<1> SUFFICES ASSUME IInv, Tick PROVE IInv'
  OBVIOUS
<1>1. now' = now + 1 /\ now \in Nat
      /\ UNCHANGED <<actions, last_rowid, migration_state, legacy_manifest>>
      /\ \A r \in actions : r \in Row
  BY DEF IInv, TypeOK, Tick
<1>2. TypeOK'
  BY <1>1 DEF IInv, TypeOK
<1>3. KeysAndStamps'
  BY <1>1 DEF IInv, KeysAndStamps, Row, Never
<1>4. Serial'
  BY <1>1 DEF IInv, Serial, Row, Never
<1>5. PlanSwitchSeesEveryOutcome' /\ ResidualExitSeesEarlierFills'
  BY <1>1 DEF IInv, PlanSwitchSeesEveryOutcome,
              ResidualExitSeesEarlierFills, Precedes
<1> QED BY <1>2, <1>3, <1>4, <1>5 DEF IInv

(* The invariant that the results below rest on is inductive.              *)
THEOREM Invariance == Spec => []IInv
<1>1. Init => IInv
  BY InitIInv
<1>2. IInv /\ [Next]_vars => IInv'
  <2> SUFFICES ASSUME IInv, [Next]_vars PROVE IInv'
    OBVIOUS
  <2>1. CASE Reserve
    BY <2>1, ReserveIInv DEF Reserve
  <2>2. CASE Record
    BY <2>2, RecordIInv DEF Record
  <2>3. CASE StageLegacy
    BY <2>3, StageLegacyIInv DEF StageLegacy
  <2>4. CASE enroll
    BY <2>4, EnrollIInv
  <2>5. CASE Tick
    BY <2>5, TickIInv
  <2>6. CASE UNCHANGED vars
    BY <2>6 DEF vars, IInv, TypeOK, KeysAndStamps, Serial,
       PlanSwitchSeesEveryOutcome, ResidualExitSeesEarlierFills, Precedes
  <2> QED BY <2>1, <2>2, <2>3, <2>4, <2>5, <2>6 DEF Next
<1> QED BY <1>1, <1>2, PTL DEF Spec

(* Every reachable table is well typed, and a row has a completion time    *)
(* exactly when its state is terminal (execution_journal.py:156-191).      *)
THEOREM TypeCorrect == Spec => []TypeOK
<1>1. IInv => TypeOK
  BY DEF IInv
<1> QED BY <1>1, Invariance, PTL

(* However many processes share the journal, an account never has two      *)
(* orders whose outcome is unknown.                                        *)
THEOREM OneUnresolved == Spec => []OneUnresolvedPerAccount
<1>1. IInv => OneUnresolvedPerAccount
  BY DEF IInv, TypeOK, Serial, OneUnresolvedPerAccount, Unresolved, Row
<1> QED BY <1>1, Invariance, PTL

(* The plan an account turns to was planned on a snapshot that shows the   *)
(* outcome of every earlier order.                                         *)
THEOREM PlanSwitch == Spec => []PlanSwitchSeesEveryOutcome
<1>1. IInv => PlanSwitchSeesEveryOutcome
  BY DEF IInv
<1> QED BY <1>1, Invariance, PTL

(* A residual exit is sized on a snapshot that shows the fills of all the  *)
(* earlier generations of the order.                                       *)
THEOREM ResidualExit == Spec => []ResidualExitSeesEarlierFills
<1>1. IInv => ResidualExitSeesEarlierFills
  BY DEF IInv
<1> QED BY <1>1, Invariance, PTL

(* No answer of the broker, late, repeated or out of order, changes a      *)
(* terminal row or takes an executed lot back.                             *)
THEOREM HistoryKept == Spec => HistoryIsKept
<1>1. IInv /\ [Next]_vars => [KeepsHistory]_vars
  <2> SUFFICES ASSUME IInv, Next PROVE KeepsHistory
    BY DEF vars
  <2> USE DEF KeepsHistory
  <2>1. \A r \in actions : r \in Row
    BY DEF IInv, TypeOK
  <2>2. CASE Reserve
    <3>1. actions \subseteq actions'
      BY <2>2 DEF Reserve, reserve
    <3> QED BY <2>1, <3>1 DEF Row
  <2>3. CASE Record
    <3>1. PICK r0 \in actions, status \in Reported, filled \in 0..MaxLots :
            \E stamp \in r0.reserved_at..now : record(r0, status, filled, stamp)
      BY <2>3 DEF Record
    <3>2. PICK new \in Row :
            /\ actions' = (actions \ {r0}) \cup {new}
            /\ OrderOf(new) = OrderOf(r0)
            /\ new.snapshot_at = r0.snapshot_at /\ new.lots = r0.lots
            /\ new.filled_lots >= r0.filled_lots
            /\ r0.state \notin TERMINAL
      BY <3>1, RecordStep
    <3> QED BY <2>1, <3>2 DEF Row
  <2>4. CASE StageLegacy
    BY <2>4 DEF StageLegacy, stage_legacy
  <2>5. CASE enroll
    BY <2>5 DEF enroll
  <2>6. CASE Tick
    BY <2>1, <2>6 DEF Tick, Row
  <2> QED BY <2>2, <2>3, <2>4, <2>5, <2>6 DEF Next
<1> QED BY <1>1, Invariance, PTL DEF Spec, HistoryIsKept

(* An order that is recorded without a terminal answer stays open, one     *)
(* that is recorded with one is closed.                                    *)
LEMMA RecordCloses ==
  ASSUME IInv, NEW r0 \in actions, NEW status \in Reported,
         NEW filled \in 0..MaxLots, NEW stamp \in r0.reserved_at..now,
         record(r0, status, filled, stamp)
  PROVE  [Ledger!Next]_<<OpenOrders, ClosedOrders>>
<1>1. PICK new \in Row :
        /\ actions' = (actions \ {r0}) \cup {new}
        /\ OrderOf(new) = OrderOf(r0)
        /\ new.state = status /\ new.filled_lots = filled
        /\ r0.state \notin TERMINAL
  BY RecordStep
<1>2. \A r \in actions : r \in Row /\ (OrderOf(r) = OrderOf(r0) => r = r0)
  BY DEF IInv, TypeOK, KeysAndStamps
<1>3. CASE status \in TERMINAL
  <2>1. OrderOf(r0) \in OpenOrders
    BY <1>1 DEF OpenOrders
  <2>2. OpenOrders' = OpenOrders \ {OrderOf(r0)}
    BY <1>1, <1>2, <1>3 DEF OpenOrders
  <2>3. ClosedOrders' =
          ClosedOrders \cup {[order |-> OrderOf(r0), outcome |-> OutcomeOf(new)]}
    BY <1>1, <1>3 DEF ClosedOrders
  <2>4. OrderOf(r0) \in Orders /\ OutcomeOf(new) \in Outcomes
    BY <1>1, <1>2, <1>3 DEF OrderOf, Orders, OutcomeOf, Outcomes, Row
  <2>5. Ledger!Close(OrderOf(r0), OutcomeOf(new))
    BY <2>1, <2>2, <2>3 DEF Ledger!Close
  <2> QED BY <2>4, <2>5 DEF Ledger!Next
<1>4. CASE status \notin TERMINAL
  <2>1. OpenOrders' = OpenOrders
    BY <1>1, <1>4 DEF OpenOrders
  <2>2. ClosedOrders' = ClosedOrders
    BY <1>1, <1>4 DEF ClosedOrders
  <2> QED BY <2>1, <2>2
<1> QED BY <1>3, <1>4

(* A reserved order is new to the ledger and alone in its account.         *)
LEMMA ReserveOpens ==
  ASSUME IInv, NEW a \in Accounts, NEW l \in LogicalIds, NEW lots \in 1..MaxLots,
         NEW plan \in Plans, NEW snapshot \in 0..now, NEW residual_exit \in BOOLEAN,
         reserve(a, l, lots, plan, snapshot, residual_exit)
  PROVE  Ledger!Next
<1>1. PICK g \in NextGeneration(a, l, plan, snapshot, residual_exit) :
        /\ g <= MaxGeneration
        /\ actions' = actions \cup {Inserted(a, l, g, lots, plan, snapshot)}
  BY DEF reserve
<1> DEFINE new == Inserted(a, l, g, lots, plan, snapshot)
           o == [account |-> a, logical_id |-> l, generation |-> g]
<1>2. OrderOf(new) = o /\ new.state \notin TERMINAL
  BY DEF Inserted, OrderOf, TERMINAL
<1>3. g \in 1..MaxGeneration /\ \A r \in Chain(a, l) : r.generation < g
  BY <1>1, BoundsAssumption DEF IInv, TypeOK, Row, NextGeneration, Last, Chain
<1>4. ~ Ledger!Opened(o)
  <2>1. ASSUME NEW r \in actions PROVE OrderOf(r) # o
    <3>1. r.account = a /\ r.logical_id = l => r.generation < g
      BY <1>3 DEF Chain
    <3>2. r \in Row
      BY DEF IInv, TypeOK
    <3> QED BY <1>3, <3>1, <3>2 DEF OrderOf, Row
  <2> QED BY <2>1 DEF Ledger!Opened, OpenOrders, ClosedOrders
<1>5. \A p \in OpenOrders : AccountOfOrder(p) # AccountOfOrder(o)
  BY DEF reserve, Unresolved, OpenOrders, AccountOfOrder, OrderOf
<1>6. OpenOrders' = OpenOrders \cup {o}
  BY <1>1, <1>2 DEF OpenOrders
<1>7. ClosedOrders' = ClosedOrders
  BY <1>1, <1>2 DEF ClosedOrders
<1>8. o \in Orders
  BY <1>3 DEF Orders
<1> HIDE DEF o, new
<1>9. Ledger!Open(o)
  BY <1>4, <1>5, <1>6, <1>7 DEF Ledger!Open
<1> QED BY <1>8, <1>9 DEF Ledger!Next

(* The SQLite journal implements the abstract order ledger: every          *)
(* transaction opens, closes or imports orders there, or changes nothing.  *)
THEOREM ImplementsLedger == Spec => LedgerSpec
<1>1. Init => Ledger!Init
  BY DEF Init, Ledger!Init, OpenOrders, ClosedOrders
<1>2. IInv /\ IInv' /\ [Next]_vars => [Ledger!Next]_<<OpenOrders, ClosedOrders>>
  <2> SUFFICES ASSUME IInv, IInv', [Next]_vars
               PROVE  [Ledger!Next]_<<OpenOrders, ClosedOrders>>
    OBVIOUS
  <2>1. CASE Reserve
    BY <2>1, ReserveOpens DEF Reserve
  <2>2. CASE Record
    BY <2>2, RecordCloses DEF Record
  <2>3. CASE StageLegacy
    <3>1. actions = {} /\ \A r \in actions' : r.state = "unknown"
      BY <2>3 DEF StageLegacy, stage_legacy, Imported
    <3>2. OpenOrders = {} /\ ClosedOrders = {} /\ ClosedOrders' = {}
      BY <3>1 DEF OpenOrders, ClosedOrders, TERMINAL
    <3>3. OpenOrders' \in SUBSET Orders
      BY DEF IInv, TypeOK, OpenOrders, Orders, OrderOf, Row
    <3>4. Ledger!Import(OpenOrders')
      BY <3>2 DEF Ledger!Import
    <3> QED BY <3>3, <3>4 DEF Ledger!Next
  <2>4. CASE UNCHANGED actions
    BY <2>4 DEF OpenOrders, ClosedOrders
  <2>5. enroll \/ Tick \/ UNCHANGED vars => UNCHANGED actions
    BY DEF enroll, Tick, vars
  <2> QED BY <2>1, <2>2, <2>3, <2>4, <2>5 DEF Next
<1> QED BY <1>1, <1>2, Invariance, PTL DEF Spec, LedgerSpec, Ledger!Spec

(* What the runs check in one: for any number of accounts, orders, plans   *)
(* and concurrent calls, the table is well typed and an account has at     *)
(* most one order of unknown end (execution_journal.py:100-142).           *)
THEOREM JournalStaysSafe == Spec => []JournalIsSafe
<1>1. TypeOK /\ OneUnresolvedPerAccount => JournalIsSafe
  BY DEF JournalIsSafe
<1> QED BY <1>1, TypeCorrect, OneUnresolved, PTL
==============================================================================
