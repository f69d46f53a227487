--------------------------- MODULE IntradayProofs ---------------------------
(***************************************************************************)
(* The day of the intraday robot is in order, and its plans fit what the   *)
(* account holds, for every number of instruments, cycles, reruns and      *)
(* kills.  Two facts carry the proof.  The journal has one open row at     *)
(* most, the last one.  And a snapshot stays true of the account as long   *)
(* as only rows of its own plan have come after the rows it knows: then an *)
(* instrument of which the plan has no row is held as the snapshot says,   *)
(* and one of which it has a row differs by what that order was filled     *)
(* with.  reserve() refuses a plan that another has overtaken, so that     *)
(* each request is of such a plan.  The history at the end: later bars are *)
(* not among those a decision knew.                                        *)
(***************************************************************************)
EXTENDS MCIntraday, TLAPS, FiniteSetTheorems, WellFoundedInduction

Pcs == {"idle", "cancel_active", "lookup", "found", "portfolio", "orders", "plan", "check",
        "execute", "post", "answer", "record", "poll", "wait", "cancel_order", "verify_cancel",
        "settled"}

Sights == [status : Statuses, filled : Nat]

Locals ==
  [pc : Pcs, job : Nat, todo : SUBSET Nat, next : Nat, projected : [Secs -> Int],
   req : Nat, seen : Sights]

------------------------------------------------------------------------------
(* Types.                                                                  *)

Ids ==
  ({"flat"} \X Secs) \cup ({"exit"} \X Secs \X Nat) \cup ({"entry"} \X Secs \X Bars \X {-1, 1})

Intents ==
  [id : Ids, sec : Secs, side : {-1, 1}, lots : Nat, margin : BOOLEAN,
   rule : {"mandatory flat", "managed exit", "entry"}]

Plans == UNION {[D -> Intents] : D \in SUBSET Nat}

Rows == [intent : Intents, plan : Nat, status : Statuses, filled : Nat]
Orders == [sec : Secs, side : {-1, 1}, lots : Nat, filled : Nat, state : States]
Files ==
  [completed : SUBSET Nat, position : [Secs -> Int], open : Nat, at : 0 .. 2, intents : Plans,
   phase : {"none", "entries", "monitor", "force_flat", "loss", "exit"}]

TypeInv ==
  /\ rows \in Seq(Rows) /\ orders \in Seq(Orders) /\ Len(orders) = Len(rows)
  /\ artifacts \in Seq(Files)
  /\ position \in [Secs -> Int]
  /\ clock \in 0 .. 2 /\ opening \in {0} \cup Equity

------------------------------------------------------------------------------
(* The books: the journal, the orders, the files, the account, the marks.  *)

OrdersAreRight ==
  \A r \in DOMAIN orders :
    /\ orders[r].filled <= orders[r].lots
    /\ orders[r].state \notin Terminal => orders[r].filled < orders[r].lots

(* A row is an intent of its plan, which was written before.               *)
RowIsOfPlan(r) ==
  /\ orders[r].sec = rows[r].intent.sec /\ orders[r].side = rows[r].intent.side
  /\ orders[r].lots = rows[r].intent.lots /\ rows[r].filled <= rows[r].intent.lots
  /\ rows[r].plan \in DOMAIN artifacts /\ artifacts[rows[r].plan].phase # "none"
  /\ \E i \in DOMAIN artifacts[rows[r].plan].intents :
       rows[r].intent = artifacts[rows[r].plan].intents[i]

RowsAreOfPlans == \A r \in DOMAIN rows : RowIsOfPlan(r)

OnlyTheLastIsOpen == \A r \in Unresolved : r = Len(rows)

ClosesAll(intent, held) == intent.side * intent.lots = - held

(* A plan names an instrument once; what closes a position closes all of   *)
(* it; what enters has its mark.                                           *)
SoundPlan(intents, pos, marks) ==
  /\ \A i, j \in DOMAIN intents : intents[i].sec = intents[j].sec => i = j
  /\ \A i \in DOMAIN intents :
       /\ intents[i].lots > 0
       /\ intents[i].rule # "entry" => ClosesAll(intents[i], pos[intents[i].sec])
       /\ intents[i].rule = "entry" =>
            \E bar \in Bars :
              /\ intents[i].id = <<"entry", intents[i].sec, bar, intents[i].side>>
              /\ <<intents[i].sec, bar, intents[i].side>> \in marks

PlansAreSound ==
  \A a \in DOMAIN artifacts : SoundPlan(artifacts[a].intents, artifacts[a].position, marked)

(* Rows completed before a snapshot come before all others, and rows of    *)
(* its plan after them and before those of any other.                      *)
RowsAreInOrder ==
  \A a \in DOMAIN artifacts :
    /\ artifacts[a].completed \subseteq Completed
    /\ \A r \in artifacts[a].completed : rows[r].plan # a
    /\ \A r \in artifacts[a].completed, q \in DOMAIN rows : q <= r => q \in artifacts[a].completed
    /\ \A r, q \in DOMAIN rows :
         rows[r].plan = a /\ q <= r => q \in artifacts[a].completed \/ rows[q].plan = a

OneRowEach ==
  \A r, q \in DOMAIN rows : rows[r].plan = rows[q].plan /\ orders[r].sec = orders[q].sec => r = q

(* While nothing but its own plan came after a snapshot, the account holds *)
(* what the snapshot says and what the plan's orders were filled with.     *)
Fresh(a) == \A r \in DOMAIN rows : r \in artifacts[a].completed \/ rows[r].plan = a

SnapshotHolds(a) ==
  /\ \A s \in Secs :
       (\A r \in DOMAIN rows : rows[r].plan = a => orders[r].sec # s)
         => position[s] = artifacts[a].position[s]
  /\ \A r \in DOMAIN rows :
       rows[r].plan = a =>
         position[orders[r].sec] =
           artifacts[a].position[orders[r].sec] + orders[r].side * orders[r].filled

SnapshotsHold == \A a \in DOMAIN artifacts : Fresh(a) => SnapshotHolds(a)

EntriesOnce ==
  \A r, q \in DOMAIN rows :
    /\ rows[r].intent.rule = "entry" /\ rows[q].intent.rule = "entry"
    /\ rows[r].intent.id = rows[q].intent.id
    => r = q

MarksAreBounded == IsFiniteSet(marked) /\ Cardinality(marked) <= MaxEntries

Books ==
  /\ TypeInv /\ OrdersAreRight /\ RowsAreOfPlans /\ OnlyTheLastIsOpen /\ FinalRowsAreTrue
  /\ PlansAreSound /\ RowsAreInOrder /\ OneRowEach /\ SnapshotsHold /\ EntriesOnce
  /\ MarksAreBounded

------------------------------------------------------------------------------
(* The processes.                                                          *)

Sending ==
  {"post", "answer", "record", "poll", "wait", "cancel_order", "verify_cancel", "settled"}
Working == {"execute"} \cup Sending
Looking == {"record", "poll", "wait", "cancel_order", "verify_cancel", "settled", "found"}

(* A process executes a written plan, and what it projects for an intent   *)
(* that is still to come is what the snapshot says.                        *)
HasPlan(p) ==
  /\ proc[p].pc \in Working \cup {"check"} => proc[p].job \in DOMAIN artifacts
  /\ proc[p].pc \in Working =>
       /\ Job(p).phase # "none"
       /\ \A i \in DOMAIN Job(p).intents :
            proc[p].next <= i =>
              proc[p].projected[Job(p).intents[i].sec] = Job(p).position[Job(p).intents[i].sec]

(* Only the timer makes plans, each in its own files.                      *)
IsPlanning(p) ==
  /\ proc[p].pc \in {"portfolio", "orders", "plan"} => p = Timer
  /\ proc[p].pc \in {"orders", "plan"} =>
       proc[p].job \in DOMAIN artifacts /\ Job(p).phase = "none"

HasOrder(p) ==
  /\ proc[p].pc \in Sending =>
       /\ proc[p].next \in DOMAIN Job(p).intents /\ proc[p].req \in DOMAIN rows
       /\ rows[proc[p].req].plan = proc[p].job /\ rows[proc[p].req].intent = Intent(p)
  /\ At(p, "post") => orders[proc[p].req].state = "unsent"
  /\ At(p, "found") => proc[p].req \in DOMAIN rows

(* What a process has seen of its order was so, and is so if it is final.  *)
SawTheTruth(p) ==
  LET seen == proc[p].seen IN
  \/ seen = Idle.seen
  \/ /\ proc[p].pc \in Looking /\ proc[p].req \in DOMAIN rows
     /\ seen.filled <= orders[proc[p].req].lots
     /\ seen.status \in Terminal =>
          orders[proc[p].req].state = seen.status /\ orders[proc[p].req].filled = seen.filled

Right(p) == HasPlan(p) /\ IsPlanning(p) /\ HasOrder(p) /\ SawTheTruth(p)

Processes ==
  /\ proc \in [Proc -> Locals]
  /\ \A p \in Proc : Right(p) /\ proc[p].todo \subseteq Request
  /\ \A p, q \in Proc : At(p, "post") /\ At(q, "post") /\ proc[p].req = proc[q].req => p = q

DayInv == Books /\ Processes

------------------------------------------------------------------------------
(* Sequences and moves.                                                    *)

(* A change of Move() names fields of a process other than its place, and  *)
(* gives them values they may have.                                        *)
Change(change) ==
  /\ DOMAIN change \subseteq {"job", "todo", "next", "projected", "req", "seen"}
  /\ "job" \in DOMAIN change => change["job"] \in Nat
  /\ "todo" \in DOMAIN change => change["todo"] \in SUBSET Nat
  /\ "next" \in DOMAIN change => change["next"] \in Nat
  /\ "projected" \in DOMAIN change => change["projected"] \in [Secs -> Int]
  /\ "req" \in DOMAIN change => change["req"] \in Nat
  /\ "seen" \in DOMAIN change => change["seen"] \in Sights

(* What a process is after a move: the fields of the change are new.       *)
LEMMA MovedIs ==
  ASSUME NEW old \in Locals, NEW pc \in Pcs, NEW change, Change(change)
  PROVE  /\ Moved(old, pc, change) \in Locals
         /\ Moved(old, pc, change).pc = pc
         /\ Moved(old, pc, change).job = IF "job" \in DOMAIN change THEN change["job"] ELSE old.job
         /\ Moved(old, pc, change).todo = IF "todo" \in DOMAIN change THEN change["todo"] ELSE old.todo
         /\ Moved(old, pc, change).next = IF "next" \in DOMAIN change THEN change["next"] ELSE old.next
         /\ Moved(old, pc, change).projected =
              IF "projected" \in DOMAIN change THEN change["projected"] ELSE old.projected
         /\ Moved(old, pc, change).req = IF "req" \in DOMAIN change THEN change["req"] ELSE old.req
         /\ Moved(old, pc, change).seen = IF "seen" \in DOMAIN change THEN change["seen"] ELSE old.seen
<1> DEFINE fields == {"pc", "job", "todo", "next", "projected", "req", "seen"}
           new == Moved(old, pc, change)
<1>1. DOMAIN old = fields
  BY DEF Locals
<1>2. new = [field \in fields |-> IF field = "pc" THEN pc
               ELSE IF field \in DOMAIN change THEN change[field] ELSE old[field]]
  BY <1>1 DEF Moved
<1>3. /\ new.pc = pc
      /\ new.job = IF "job" \in DOMAIN change THEN change["job"] ELSE old.job
      /\ new.todo = IF "todo" \in DOMAIN change THEN change["todo"] ELSE old.todo
      /\ new.next = IF "next" \in DOMAIN change THEN change["next"] ELSE old.next
      /\ new.projected = IF "projected" \in DOMAIN change THEN change["projected"] ELSE old.projected
      /\ new.req = IF "req" \in DOMAIN change THEN change["req"] ELSE old.req
      /\ new.seen = IF "seen" \in DOMAIN change THEN change["seen"] ELSE old.seen
  BY <1>2
<1>4. new \in Locals
  <2>1. /\ new.pc \in Pcs /\ new.job \in Nat /\ new.todo \in SUBSET Nat /\ new.next \in Nat
        /\ new.projected \in [Secs -> Int] /\ new.req \in Nat /\ new.seen \in Sights
    BY <1>3 DEF Change, Locals
  <2>2. new = [pc |-> new.pc, job |-> new.job, todo |-> new.todo, next |-> new.next,
               projected |-> new.projected, req |-> new.req, seen |-> new.seen]
    <3> HIDE DEF new
    <3>1. DOMAIN new = fields /\ new = [f \in fields |-> new[f]]
      BY <1>2
    <3> QED
      BY <3>1
  <2> HIDE DEF new
  <2> QED
    BY <2>1, <2>2 DEF Locals
<1> QED
  BY <1>3, <1>4

(* A process that moves is what it was but for what the move changes.      *)
LEMMA MoveIs ==
  ASSUME proc \in [Proc -> Locals], NEW p \in Proc, NEW pc \in Pcs, NEW change, Change(change),
         Move(p, pc, change)
  PROVE  /\ proc' \in [Proc -> Locals] /\ \A q \in Proc : q # p => proc'[q] = proc[q]
         /\ proc'[p].pc = pc
         /\ proc'[p].job = IF "job" \in DOMAIN change THEN change["job"] ELSE proc[p].job
         /\ proc'[p].todo = IF "todo" \in DOMAIN change THEN change["todo"] ELSE proc[p].todo
         /\ proc'[p].next = IF "next" \in DOMAIN change THEN change["next"] ELSE proc[p].next
         /\ proc'[p].projected =
              IF "projected" \in DOMAIN change THEN change["projected"] ELSE proc[p].projected
         /\ proc'[p].req = IF "req" \in DOMAIN change THEN change["req"] ELSE proc[p].req
         /\ proc'[p].seen = IF "seen" \in DOMAIN change THEN change["seen"] ELSE proc[p].seen
<1>1. proc[p] \in Locals /\ proc' = [proc EXCEPT ![p] = Moved(proc[p], pc, change)]
  BY DEF Move
<1>2. Moved(proc[p], pc, change) \in Locals
  BY <1>1, MovedIs
<1>3. proc' \in [Proc -> Locals] /\ (\A q \in Proc : q # p => proc'[q] = proc[q])
        /\ proc'[p] = Moved(proc[p], pc, change)
  BY <1>1, <1>2
<1> QED
  BY <1>1, <1>3, MovedIs

(* What an idle process is.                                                 *)
LEMMA IdleTyped ==
  /\ Idle \in Locals /\ Idle.pc = "idle" /\ Idle.todo = {}
  /\ Idle.seen = [status |-> "unknown", filled |-> 0] /\ Idle.seen \in Sights
  /\ Idle.seen.status = "unknown" /\ Idle.seen.filled = 0 /\ NoRow \in Nat
  /\ "unknown" \notin Terminal
BY DEF Idle, Locals, Pcs, Sights, Statuses, Terminal, NoRow

(* A process that moves on with nothing changed.                            *)
LEMMA StayIs ==
  ASSUME proc \in [Proc -> Locals], NEW p \in Proc, NEW pc \in Pcs, Move(p, pc, Stay)
  PROVE  /\ proc' \in [Proc -> Locals] /\ \A q \in Proc : q # p => proc'[q] = proc[q]
         /\ proc'[p].pc = pc /\ proc'[p].job = proc[p].job /\ proc'[p].todo = proc[p].todo
         /\ proc'[p].next = proc[p].next /\ proc'[p].projected = proc[p].projected
         /\ proc'[p].req = proc[p].req /\ proc'[p].seen = proc[p].seen
<1>1. DOMAIN Stay = {}
  BY DEF Stay
<1> QED
  BY <1>1, MoveIs DEF Change

(* A process that moves on with what it has seen.                           *)
LEMMA SeesIs ==
  ASSUME proc \in [Proc -> Locals], NEW p \in Proc, NEW pc \in Pcs, NEW sight \in Sights,
         NEW change, change = [seen |-> sight], Move(p, pc, change)
  PROVE  /\ proc' \in [Proc -> Locals] /\ \A q \in Proc : q # p => proc'[q] = proc[q]
         /\ proc'[p].pc = pc /\ proc'[p].job = proc[p].job /\ proc'[p].todo = proc[p].todo
         /\ proc'[p].next = proc[p].next /\ proc'[p].projected = proc[p].projected
         /\ proc'[p].req = proc[p].req /\ proc'[p].seen = sight
<1>1. DOMAIN change = {"seen"} /\ change["seen"] = sight
  OBVIOUS
<1> QED
  BY <1>1, MoveIs DEF Change

(* A process that moves on with an order and what it has seen of it.        *)
LEMMA FindsIs ==
  ASSUME proc \in [Proc -> Locals], NEW p \in Proc, NEW pc \in Pcs, NEW sight \in Sights,
         NEW r \in Nat, NEW change, change = [req |-> r, seen |-> sight], Move(p, pc, change)
  PROVE  /\ proc' \in [Proc -> Locals] /\ \A q \in Proc : q # p => proc'[q] = proc[q]
         /\ proc'[p].pc = pc /\ proc'[p].job = proc[p].job /\ proc'[p].todo = proc[p].todo
         /\ proc'[p].next = proc[p].next /\ proc'[p].projected = proc[p].projected
         /\ proc'[p].req = r /\ proc'[p].seen = sight
<1>1. DOMAIN change = {"req", "seen"} /\ change["seen"] = sight /\ change["req"] = r
  OBVIOUS
<1> QED
  BY <1>1, MoveIs DEF Change

(* A process whose command ends is idle; the others are as they were.       *)
LEMMA EndIs ==
  ASSUME proc \in [Proc -> Locals], NEW p \in Proc, End(p)
  PROVE  /\ proc' \in [Proc -> Locals] /\ \A q \in Proc : q # p => proc'[q] = proc[q]
         /\ proc'[p] = Idle
BY IdleTyped DEF End

(* An element of a sequence is replaced.                                    *)
LEMMA ElementReplaced ==
  ASSUME NEW S, NEW s \in Seq(S), NEW i \in DOMAIN s, NEW e \in S
  PROVE  /\ [s EXCEPT ![i] = e] \in Seq(S)
         /\ Len([s EXCEPT ![i] = e]) = Len(s) /\ DOMAIN [s EXCEPT ![i] = e] = DOMAIN s
         /\ [s EXCEPT ![i] = e][i] = e
         /\ \A j \in DOMAIN s : j # i => [s EXCEPT ![i] = e][j] = s[j]
OBVIOUS

(* An element is appended to a sequence.                                    *)
LEMMA ElementAppended ==
  ASSUME NEW S, NEW s \in Seq(S), NEW e \in S
  PROVE  /\ Append(s, e) \in Seq(S) /\ Len(Append(s, e)) = Len(s) + 1
         /\ DOMAIN Append(s, e) = DOMAIN s \cup {Len(s) + 1} /\ Len(s) + 1 \notin DOMAIN s
         /\ Append(s, e)[Len(s) + 1] = e
         /\ \A j \in DOMAIN s : Append(s, e)[j] = s[j]
OBVIOUS

(* What the fields are.                                                    *)
LEMMA OrderTyped ==
  ASSUME TypeInv, NEW r \in DOMAIN orders
  PROVE  /\ orders[r] \in Orders
         /\ orders[r].sec \in Secs /\ orders[r].side \in {-1, 1} /\ orders[r].lots \in Nat
         /\ orders[r].filled \in Nat /\ orders[r].state \in States
<1>1. orders[r] \in Orders
  BY DEF TypeInv
<1> QED
  BY <1>1 DEF Orders

(* What the fields of a row are.                                            *)
LEMMA RowTyped ==
  ASSUME TypeInv, NEW r \in DOMAIN rows
  PROVE  /\ rows[r] \in Rows /\ r \in Nat
         /\ rows[r].intent \in Intents /\ rows[r].plan \in Nat /\ rows[r].status \in Statuses
         /\ rows[r].filled \in Nat
<1>1. rows[r] \in Rows /\ r \in Nat
  BY DEF TypeInv
<1> QED
  BY <1>1 DEF Rows

(* What the fields of an intent are.                                        *)
LEMMA IntentTyped ==
  ASSUME NEW intent \in Intents
  PROVE  /\ intent.id \in Ids /\ intent.sec \in Secs /\ intent.side \in {-1, 1}
         /\ intent.lots \in Nat /\ intent.margin \in BOOLEAN
BY DEF Intents

(* What the files of a plan hold.                                           *)
LEMMA FileTyped ==
  ASSUME TypeInv, NEW a \in DOMAIN artifacts
  PROVE  /\ artifacts[a] \in Files /\ a \in Nat
         /\ artifacts[a].completed \in SUBSET Nat /\ artifacts[a].position \in [Secs -> Int]
         /\ artifacts[a].open \in Nat /\ artifacts[a].at \in 0 .. 2 /\ artifacts[a].intents \in Plans
<1>1. artifacts[a] \in Files /\ a \in Nat
  BY DEF TypeInv
<1> QED
  BY <1>1 DEF Files

(* A plan is a numbered set of intents.                                     *)
LEMMA PlanTyped ==
  ASSUME NEW intents \in Plans
  PROVE  /\ DOMAIN intents \in SUBSET Nat
         /\ \A i \in DOMAIN intents : intents[i] \in Intents
BY DEF Plans

(* What a process holds.                                                    *)
LEMMA ProcessTyped ==
  ASSUME proc \in [Proc -> Locals], NEW p \in Proc
  PROVE  /\ proc[p] \in Locals /\ proc[p].pc \in Pcs /\ proc[p].job \in Nat
         /\ proc[p].todo \in SUBSET Nat /\ proc[p].next \in Nat
         /\ proc[p].projected \in [Secs -> Int] /\ proc[p].req \in Nat /\ proc[p].seen \in Sights
         /\ proc[p].seen.status \in Statuses /\ proc[p].seen.filled \in Nat
<1>1. proc[p] \in Locals
  OBVIOUS
<1>2. proc[p].seen \in Sights
  BY <1>1 DEF Locals
<1> QED
  BY <1>1, <1>2 DEF Locals, Sights

------------------------------------------------------------------------------
(* An order that is still open changes: the broker's steps, a request that *)
(* is sent and a cancellation.                                             *)

(* An order that may still be filled is filled, refused or cancelled, and   *)
(* the account changes by the lots that were filled: the books stay right.  *)
LEMMA OrderChanges ==
  ASSUME Books, NEW r \in DOMAIN orders, orders[r].state \notin Terminal, NEW new \in Orders,
         new.sec = orders[r].sec, new.side = orders[r].side, new.lots = orders[r].lots,
         new.filled <= new.lots, new.state \notin Terminal => new.filled < new.lots,
         orders' = [orders EXCEPT ![r] = new],
         position' = [position EXCEPT ![new.sec] = @ + new.side * (new.filled - orders[r].filled)],
         UNCHANGED <<rows, artifacts, marked, clock, opening>>
  PROVE  Books'
<1>1. /\ orders' \in Seq(Orders) /\ Len(orders') = Len(orders) /\ DOMAIN orders' = DOMAIN orders
      /\ orders'[r] = new /\ \A q \in DOMAIN orders : q # r => orders'[q] = orders[q]
  BY ElementReplaced DEF Books, TypeInv
<1>2. /\ DOMAIN rows = DOMAIN orders /\ r \in Unresolved
  <2>1. DOMAIN rows = DOMAIN orders
    BY DEF Books, TypeInv
  <2> QED
    BY <2>1 DEF Books, FinalRowsAreTrue, Completed, Unresolved
<1>3. \A q \in DOMAIN orders : /\ orders'[q].sec = orders[q].sec /\ orders'[q].side = orders[q].side
                              /\ orders'[q].lots = orders[q].lots
  BY <1>1
<1>4. /\ position' \in [Secs -> Int]
      /\ position'[new.sec] = position[new.sec] + new.side * (new.filled - orders[r].filled)
      /\ \A s \in Secs : s # new.sec => position'[s] = position[s]
  <2>1. new.sec \in Secs /\ new.side \in {-1, 1} /\ new.filled \in Nat /\ orders[r].filled \in Nat
    BY OrderTyped DEF Orders, Books
  <2>2. position[new.sec] + new.side * (new.filled - orders[r].filled) \in Int
    <3>1. position[new.sec] \in Int
      BY <2>1 DEF Books, TypeInv
    <3>2. CASE new.side = 1
      BY <2>1, <3>1, <3>2
    <3>3. CASE new.side = -1
      BY <2>1, <3>1, <3>3
    <3> QED
      BY <2>1, <3>2, <3>3
  <2> QED
    BY <2>1, <2>2 DEF Books, TypeInv
<1>5. TypeInv'
  BY <1>1, <1>4 DEF Books, TypeInv
<1>6. OrdersAreRight'
  BY <1>1 DEF Books, OrdersAreRight
<1>7. RowsAreOfPlans'
  BY <1>2, <1>3 DEF Books, RowsAreOfPlans, RowIsOfPlan
<1>8. OnlyTheLastIsOpen' /\ PlansAreSound' /\ EntriesOnce' /\ MarksAreBounded'
  BY DEF Books, OnlyTheLastIsOpen, Unresolved, PlansAreSound, EntriesOnce, MarksAreBounded
<1>9. FinalRowsAreTrue'
  BY <1>1, <1>2 DEF Books, FinalRowsAreTrue, Completed, Unresolved
<1>10. RowsAreInOrder'
  BY DEF Books, RowsAreInOrder, Completed
<1>11. OneRowEach'
  BY <1>2, <1>3 DEF Books, OneRowEach
<1>12. SnapshotsHold'
  <2> SUFFICES ASSUME NEW a \in DOMAIN artifacts, Fresh(a)
               PROVE  /\ \A s \in Secs :
                           (\A q \in DOMAIN rows : rows[q].plan = a => orders'[q].sec # s)
                             => position'[s] = artifacts[a].position[s]
                      /\ \A q \in DOMAIN rows :
                           rows[q].plan = a =>
                             position'[orders'[q].sec] =
                               artifacts[a].position[orders'[q].sec] + orders'[q].side * orders'[q].filled
    BY DEF SnapshotsHold, SnapshotHolds, Fresh
  <2>1. rows[r].plan = a
    BY <1>2 DEF Books, RowsAreInOrder, Fresh, Completed, Unresolved
  <2>2. ASSUME NEW s \in Secs, \A q \in DOMAIN rows : rows[q].plan = a => orders'[q].sec # s
        PROVE  position'[s] = artifacts[a].position[s]
    <3>1. s # new.sec
      BY <1>1, <1>2, <2>1, <2>2
    <3>2. position[s] = artifacts[a].position[s]
      BY <1>2, <1>3, <2>2 DEF Books, SnapshotsHold, SnapshotHolds
    <3> QED
      BY <1>4, <3>1, <3>2
  <2>3. ASSUME NEW q \in DOMAIN rows, rows[q].plan = a
        PROVE  position'[orders'[q].sec] =
                 artifacts[a].position[orders'[q].sec] + orders'[q].side * orders'[q].filled
    <3>1. position[orders[q].sec] =
            artifacts[a].position[orders[q].sec] + orders[q].side * orders[q].filled
      BY <2>3 DEF Books, SnapshotsHold, SnapshotHolds
    <3>2. CASE q = r
      <4> DEFINE s == new.sec
      <4>1. /\ new.side \in {-1, 1} /\ new.filled \in Nat /\ orders[r].filled \in Nat /\ s \in Secs
            /\ position[s] \in Int /\ artifacts[a].position[s] \in Int
        <5>1. /\ new.side \in {-1, 1} /\ new.filled \in Nat /\ s \in Secs
          BY DEF Orders
        <5>2. orders[r].filled \in Nat /\ artifacts[a].position \in [Secs -> Int]
          BY OrderTyped, FileTyped DEF Books
        <5> HIDE DEF s
        <5> QED
          BY <5>1, <5>2 DEF Books, TypeInv
      <4>2. position'[s] = artifacts[a].position[s] + new.side * orders[r].filled
                             + new.side * (new.filled - orders[r].filled)
        BY <1>4, <3>1, <3>2
      <4>3. position'[s] = artifacts[a].position[s] + new.side * new.filled
        <5> HIDE DEF s
        <5>1. CASE new.side = 1
          BY <4>1, <4>2, <5>1
        <5>2. CASE new.side = -1
          BY <4>1, <4>2, <5>2
        <5> QED
          BY <4>1, <5>1, <5>2
      <4> QED
        BY <1>1, <3>2, <4>3
    <3>3. CASE q # r
      <4>1. orders[q].sec # orders[r].sec
        BY <1>2, <2>1, <2>3, <3>3 DEF Books, OneRowEach
      <4>2. orders[q].sec \in Secs
        BY <1>2, OrderTyped DEF Books
      <4> QED
        BY <1>1, <1>2, <1>4, <3>1, <3>3, <4>1, <4>2
    <3> QED
      BY <3>2, <3>3
  <2> QED
    BY <2>2, <2>3
<1> QED
  BY <1>5, <1>6, <1>7, <1>8, <1>9, <1>10, <1>11, <1>12 DEF Books

------------------------------------------------------------------------------
(* The journal records what was seen of an order.                          *)

(* What record() does to the rows: one row has the state that was seen, and *)
(* no row changes its intent or its plan.                                   *)
LEMMA RecordIs ==
  ASSUME TypeInv, NEW r \in DOMAIN rows, NEW seen \in Sights, Record(r, seen)
  PROVE  /\ rows' \in Seq(Rows) /\ Len(rows') = Len(rows) /\ DOMAIN rows' = DOMAIN rows
         /\ rows'[r].status = seen.status /\ rows'[r].filled = seen.filled
         /\ \A q \in DOMAIN rows :
              /\ rows'[q].intent = rows[q].intent /\ rows'[q].plan = rows[q].plan
              /\ q # r => rows'[q] = rows[q]
<1> DEFINE new == [rows[r] EXCEPT !.status = seen.status, !.filled = seen.filled]
<1>1. rows[r] \in Rows
  BY RowTyped
<1>2. /\ new \in Rows /\ new.status = seen.status /\ new.filled = seen.filled
      /\ new.intent = rows[r].intent /\ new.plan = rows[r].plan
  BY <1>1 DEF Rows, Sights
<1>3. rows' = [rows EXCEPT ![r] = new]
  BY DEF Record
<1> HIDE DEF new
<1> QED
  BY <1>2, <1>3, ElementReplaced DEF TypeInv

(* A state that record() accepts, and that is true if it is final, leaves   *)
(* the books right.                                                         *)
LEMMA RowRecorded ==
  ASSUME Books, NEW r \in DOMAIN rows, NEW seen \in Sights, seen.filled <= orders[r].lots,
         seen.status \in Terminal => orders[r].state = seen.status /\ orders[r].filled = seen.filled,
         Recordable(r, seen), Record(r, seen),
         UNCHANGED <<orders, artifacts, position, marked, clock, opening>>
  PROVE  Books'
<1>1. /\ rows' \in Seq(Rows) /\ Len(rows') = Len(rows) /\ DOMAIN rows' = DOMAIN rows
      /\ rows'[r].status = seen.status /\ rows'[r].filled = seen.filled
      /\ \A q \in DOMAIN rows :
           /\ rows'[q].intent = rows[q].intent /\ rows'[q].plan = rows[q].plan
           /\ q # r => rows'[q] = rows[q]
  BY RecordIs DEF Books
<1>2. \A q \in Completed : rows'[q].status = rows[q].status /\ rows'[q].filled = rows[q].filled
  BY <1>1 DEF Recordable, Completed
<1>3. Completed \subseteq Completed' /\ Unresolved' \subseteq Unresolved
  BY <1>1, <1>2 DEF Completed, Unresolved
<1>4. TypeInv' /\ OrdersAreRight' /\ MarksAreBounded' /\ PlansAreSound'
  BY <1>1 DEF Books, TypeInv, OrdersAreRight, MarksAreBounded, PlansAreSound
<1>5. RowsAreOfPlans'
  <2>1. \A q \in DOMAIN rows : rows'[q].filled <= rows[q].intent.lots
    BY <1>1 DEF Books, RowsAreOfPlans, RowIsOfPlan
  <2> QED
    BY <1>1, <2>1 DEF Books, RowsAreOfPlans, RowIsOfPlan
<1>6. OnlyTheLastIsOpen'
  BY <1>1, <1>3 DEF Books, OnlyTheLastIsOpen
<1>7. FinalRowsAreTrue'
  BY <1>1, <1>2 DEF Books, FinalRowsAreTrue, Completed
<1>8. RowsAreInOrder'
  BY <1>1, <1>3 DEF Books, RowsAreInOrder, Completed
<1>9. OneRowEach'
  BY <1>1 DEF Books, OneRowEach
<1>10. SnapshotsHold'
  BY <1>1 DEF Books, SnapshotsHold, SnapshotHolds, Fresh
<1>11. EntriesOnce'
  BY <1>1 DEF Books, EntriesOnce
<1> QED
  BY <1>4, <1>5, <1>6, <1>7, <1>8, <1>9, <1>10, <1>11 DEF Books

------------------------------------------------------------------------------
(* A request is reserved.                                                  *)

(* A set of numbers has a least element.                                    *)
LEMMA LeastExists ==
  ASSUME NEW S \in SUBSET Nat, S # {}
  PROVE  \E n \in S : \A m \in S : n <= m
<1>1. IsWellFoundedOn({pair \in Nat \X Nat : pair[1] < pair[2]}, Nat)
  BY NatLessThanWellFounded DEF OpToRel
<1>2. PICK n \in S : \A m \in S : <<m, n>> \notin {pair \in Nat \X Nat : pair[1] < pair[2]}
  BY <1>1, WFMin
<1>3. ASSUME NEW m \in S PROVE n <= m
  <2>1. <<m, n>> \in Nat \X Nat /\ <<m, n>>[1] = m /\ <<m, n>>[2] = n /\ m \in Nat /\ n \in Nat
    OBVIOUS
  <2>2. ~(<<m, n>>[1] < <<m, n>>[2])
    BY <1>2, <2>1
  <2> QED
    BY <2>1, <2>2
<1> QED
  BY <1>3

(* The last row of a logical order, or none: what reserve() reads first.    *)
LEMMA LastOfIs ==
  ASSUME TypeInv, NEW logical
  PROVE  LET same == {r \in DOMAIN rows : rows[r].intent.id = logical}
         IN /\ same = {} => LastOf(logical) = NoRow
            /\ same # {} => /\ LastOf(logical) \in same /\ LastOf(logical) # NoRow
                            /\ \A q \in same : q <= LastOf(logical)
<1> DEFINE same == {r \in DOMAIN rows : rows[r].intent.id = logical}
           n == Len(rows)
           back == {n - r : r \in same}
<1>1. n \in Nat /\ DOMAIN rows = 1 .. n /\ same \subseteq 1 .. n
  BY DEF TypeInv
<1>2. CASE same = {}
  BY <1>2 DEF LastOf
<1>3. CASE same # {}
  <2>1. back \in SUBSET Nat /\ back # {}
    BY <1>1, <1>3
  <2>2. PICK m \in back : \A k \in back : m <= k
    BY <2>1, LeastExists
  <2>3. PICK r \in same : m = n - r
    BY <2>2
  <2>4. \A q \in same : q <= r
    <3> TAKE q \in same
    <3>1. n - q \in back
      OBVIOUS
    <3>2. n - r <= n - q
      BY <2>2, <2>3, <3>1
    <3> QED
      BY <1>1, <3>2
  <2>5. LastOf(logical) = CHOOSE x \in same : \A q \in same : q <= x
    BY <1>3 DEF LastOf
  <2>6. LastOf(logical) \in same /\ \A q \in same : q <= LastOf(logical)
    BY <2>3, <2>4, <2>5
  <2> QED
    BY <1>1, <1>3, <2>6 DEF NoRow
<1> QED
  BY <1>2, <1>3

(* A plan whose newest row or snapshot is the newest of the journal is     *)
(* fresh.                                                                  *)
LEMMA NewestIsFresh ==
  ASSUME Books, NEW a \in DOMAIN artifacts,
         Len(rows) # 0 => rows[Len(rows)].plan = a \/ Len(rows) \in artifacts[a].completed
  PROVE  Fresh(a)
<1>1. Len(rows) \in Nat /\ DOMAIN rows = 1 .. Len(rows)
  BY DEF Books, TypeInv
<1>2. ASSUME NEW r \in DOMAIN rows PROVE r \in artifacts[a].completed \/ rows[r].plan = a
  <2>1. Len(rows) \in DOMAIN rows /\ r <= Len(rows)
    BY <1>1
  <2> QED
    BY <1>1, <2>1 DEF Books, RowsAreInOrder
<1> QED
  BY <1>2 DEF Fresh

(* What the journal knows when it answers with a new request.              *)
LEMMA RequestIsFresh ==
  ASSUME Books, NEW a \in DOMAIN artifacts, NEW i \in DOMAIN artifacts[a].intents,
         Reservation(a, artifacts[a].intents[i]) = "request"
  PROVE  LET intent == artifacts[a].intents[i]
         IN /\ Unresolved = {} /\ Fresh(a)
            /\ \A r \in DOMAIN rows : rows[r].plan = a => orders[r].sec # intent.sec
            /\ intent.rule = "entry" => \A r \in DOMAIN rows : rows[r].intent.id # intent.id
<1> DEFINE intent == artifacts[a].intents[i]
           last == LastOf(intent.id)
<1>1. /\ Unresolved = {}
      /\ last # NoRow => Repeatable(last, a, intent)
      /\ Len(rows) # 0 => rows[Len(rows)].plan = a \/ Len(rows) \in artifacts[a].completed
  BY DEF Reservation
<1>2. Fresh(a)
  BY <1>1, NewestIsFresh
<1>3. ASSUME NEW r \in DOMAIN rows, rows[r].intent.id = intent.id
      PROVE  /\ last \in DOMAIN rows /\ r <= last /\ rows[last].plan # a
             /\ intent.rule = "mandatory flat"
  BY <1>1, <1>3, LastOfIs DEF Books, Repeatable
<1>4. ASSUME NEW r \in DOMAIN rows, rows[r].plan = a, orders[r].sec = intent.sec
      PROVE  FALSE
  <2>1. PICK j \in DOMAIN artifacts[a].intents : rows[r].intent = artifacts[a].intents[j]
    BY <1>4 DEF Books, RowsAreOfPlans, RowIsOfPlan
  <2>2. artifacts[a].intents[j].sec = intent.sec
    BY <1>4, <2>1 DEF Books, RowsAreOfPlans, RowIsOfPlan
  <2>3. rows[r].intent = intent
    BY <2>1, <2>2 DEF Books, PlansAreSound, SoundPlan
  <2>4. last \in DOMAIN rows /\ r <= last /\ rows[last].plan # a
    BY <1>3, <2>3
  <2>5. last \in artifacts[a].completed
    BY <1>2, <2>4 DEF Fresh
  <2>6. r \in artifacts[a].completed
    BY <2>4, <2>5 DEF Books, RowsAreInOrder
  <2> QED
    BY <1>4, <2>6 DEF Books, RowsAreInOrder
<1> QED
  BY <1>1, <1>2, <1>3, <1>4

RequestAppended(a, intent) ==
  /\ rows' = Append(rows, [intent |-> intent, plan |-> a,
                           status |-> "request_pending", filled |-> 0])
  /\ orders' = Append(orders, [sec |-> intent.sec, side |-> intent.side,
                               lots |-> intent.lots, filled |-> 0, state |-> "unsent"])

(* A row and its order are appended.                                       *)
LEMMA RowReserved ==
  ASSUME Books, NEW a \in DOMAIN artifacts, artifacts[a].phase # "none",
         NEW i \in DOMAIN artifacts[a].intents, NEW intent, intent = artifacts[a].intents[i],
         Reservation(a, intent) = "request",
         RequestAppended(a, intent), UNCHANGED <<artifacts, position, marked, clock, opening>>
  PROVE  /\ Books' /\ DOMAIN rows' = DOMAIN rows \cup {Len(rows) + 1} /\ Len(rows) + 1 \notin DOMAIN rows
         /\ rows'[Len(rows) + 1].intent = intent /\ rows'[Len(rows) + 1].plan = a
         /\ orders'[Len(rows) + 1].state = "unsent"
         /\ \A r \in DOMAIN rows : rows'[r] = rows[r] /\ orders'[r] = orders[r]
<1> DEFINE row == [intent |-> intent, plan |-> a, status |-> "request_pending", filled |-> 0]
           order == [sec |-> intent.sec, side |-> intent.side, lots |-> intent.lots,
                     filled |-> 0, state |-> "unsent"]
           n == Len(rows) + 1
<1>1. /\ Unresolved = {} /\ Fresh(a)
      /\ \A r \in DOMAIN rows : rows[r].plan = a => orders[r].sec # intent.sec
      /\ intent.rule = "entry" => \A r \in DOMAIN rows : rows[r].intent.id # intent.id
  BY RequestIsFresh
<1>2. /\ intent \in Intents /\ intent.sec \in Secs /\ intent.side \in {-1, 1} /\ intent.lots \in Nat
      /\ intent.lots > 0 /\ a \in Nat
  BY FileTyped, PlanTyped, IntentTyped DEF Books, PlansAreSound, SoundPlan
<1>3. /\ row \in Rows /\ row.intent = intent /\ row.plan = a /\ row.filled = 0
      /\ row.status = "request_pending"
  BY <1>2 DEF Rows, Statuses
<1>4. /\ order \in Orders /\ order.sec = intent.sec /\ order.side = intent.side
      /\ order.lots = intent.lots /\ order.filled = 0 /\ order.state = "unsent"
  BY <1>2 DEF Orders, States
<1> HIDE DEF row, order
<1>5. /\ rows' \in Seq(Rows) /\ Len(rows') = n /\ DOMAIN rows' = DOMAIN rows \cup {n}
      /\ n \notin DOMAIN rows /\ rows'[n] = row /\ \A r \in DOMAIN rows : rows'[r] = rows[r]
  BY <1>3, ElementAppended DEF Books, TypeInv, row, RequestAppended
<1>6. /\ orders' \in Seq(Orders) /\ Len(orders') = n /\ DOMAIN orders' = DOMAIN rows \cup {n}
      /\ orders'[n] = order /\ \A r \in DOMAIN rows : orders'[r] = orders[r]
  <2>1. DOMAIN orders = DOMAIN rows /\ Len(orders) = Len(rows)
    BY DEF Books, TypeInv
  <2> QED
    BY <1>4, <2>1, ElementAppended DEF Books, TypeInv, order, RequestAppended
<1>7. /\ Completed' = Completed /\ Completed = DOMAIN rows
      /\ \A r \in Unresolved' : r = n
  BY <1>1, <1>3, <1>5 DEF Completed, Unresolved, Terminal
<1>8. n \in Nat /\ \A r \in DOMAIN rows : r < n /\ r \in Nat
  BY DEF Books, TypeInv
<1>9. TypeInv'
  BY <1>5, <1>6 DEF Books, TypeInv
<1>10. OrdersAreRight'
  <2>1. DOMAIN orders = DOMAIN rows
    BY DEF Books, TypeInv
  <2> QED
    BY <1>2, <1>4, <1>6, <2>1 DEF Books, OrdersAreRight
<1>11. RowsAreOfPlans'
  <2> SUFFICES ASSUME NEW r \in DOMAIN rows' PROVE RowIsOfPlan(r)'
    BY DEF RowsAreOfPlans
  <2>1. artifacts' = artifacts
    OBVIOUS
  <2>2. CASE r \in DOMAIN rows
    <3>1. rows'[r] = rows[r] /\ orders'[r] = orders[r]
      BY <1>5, <1>6, <2>2
    <3> QED
      BY <2>1, <2>2, <3>1 DEF Books, RowsAreOfPlans, RowIsOfPlan
  <2>3. CASE r = n
    BY <1>2, <1>3, <1>4, <1>5, <1>6, <2>1, <2>3 DEF RowIsOfPlan
  <2> QED
    BY <1>5, <2>2, <2>3
<1>12. OnlyTheLastIsOpen'
  BY <1>5, <1>7 DEF OnlyTheLastIsOpen
<1>13. FinalRowsAreTrue'
  BY <1>5, <1>6, <1>7 DEF Books, FinalRowsAreTrue
<1>14. PlansAreSound' /\ MarksAreBounded'
  BY DEF Books, PlansAreSound, MarksAreBounded
<1>15. RowsAreInOrder'
  <2> SUFFICES ASSUME NEW b \in DOMAIN artifacts
               PROVE  /\ artifacts[b].completed \subseteq Completed
                      /\ \A r \in artifacts[b].completed : rows'[r].plan # b
                      /\ \A r \in artifacts[b].completed, q \in DOMAIN rows' :
                           q <= r => q \in artifacts[b].completed
                      /\ \A r, q \in DOMAIN rows' :
                           rows'[r].plan = b /\ q <= r =>
                             q \in artifacts[b].completed \/ rows'[q].plan = b
    BY <1>7 DEF RowsAreInOrder
  <2>1. /\ artifacts[b].completed \subseteq Completed
        /\ \A r \in artifacts[b].completed : rows[r].plan # b
    BY DEF Books, RowsAreInOrder
  <2>2. ASSUME NEW r \in artifacts[b].completed, NEW q \in DOMAIN rows', q <= r
        PROVE  q \in artifacts[b].completed
    <3>1. r \in DOMAIN rows /\ q \in DOMAIN rows
      BY <1>5, <1>7, <1>8, <2>1, <2>2
    <3> QED
      BY <2>2, <3>1 DEF Books, RowsAreInOrder
  <2>3. ASSUME NEW r \in DOMAIN rows', NEW q \in DOMAIN rows', rows'[r].plan = b, q <= r
        PROVE  q \in artifacts[b].completed \/ rows'[q].plan = b
    <3>1. CASE r \in DOMAIN rows
      <4>1. q \in DOMAIN rows
        BY <1>5, <1>8, <2>3, <3>1
      <4> QED
        BY <1>5, <2>3, <3>1, <4>1 DEF Books, RowsAreInOrder
    <3>2. CASE r = n
      <4>1. b = a
        BY <1>3, <1>5, <2>3, <3>2
      <4> QED
        BY <1>1, <1>3, <1>5, <2>3, <3>2, <4>1 DEF Fresh
    <3> QED
      BY <1>5, <2>3, <3>1, <3>2
  <2> QED
    BY <1>5, <1>7, <2>1, <2>2, <2>3
<1>16. OneRowEach'
  <2>1. \A r, q \in DOMAIN rows : rows'[r].plan = rows'[q].plan /\ orders'[r].sec = orders'[q].sec => r = q
    BY <1>5, <1>6 DEF Books, OneRowEach
  <2>2. \A r \in DOMAIN rows : rows'[r].plan = rows'[n].plan => orders'[r].sec # orders'[n].sec
    BY <1>1, <1>3, <1>4, <1>5, <1>6
  <2>3. ASSUME NEW r \in DOMAIN rows', NEW q \in DOMAIN rows',
               rows'[r].plan = rows'[q].plan, orders'[r].sec = orders'[q].sec
        PROVE  r = q
    <3>1. CASE r \in DOMAIN rows /\ q \in DOMAIN rows
      BY <2>1, <2>3, <3>1
    <3>2. CASE r = n /\ q \in DOMAIN rows
      BY <2>2, <2>3, <3>2
    <3>3. CASE r \in DOMAIN rows /\ q = n
      BY <2>2, <2>3, <3>3
    <3> QED
      BY <1>5, <3>1, <3>2, <3>3
  <2> QED
    BY <2>3 DEF OneRowEach
<1>17. SnapshotsHold'
  <2>7. artifacts' = artifacts /\ position' = position
    OBVIOUS
  <2> SUFFICES ASSUME NEW b \in DOMAIN artifacts', Fresh(b)' PROVE SnapshotHolds(b)'
    BY DEF SnapshotsHold
  <2>8. \A r \in DOMAIN rows' : r \in artifacts[b].completed \/ rows'[r].plan = b
    BY <2>7 DEF Fresh
  <2>1. b = a
    <3>1. n \notin artifacts[b].completed
      BY <1>5, <1>7, <2>7 DEF Books, RowsAreInOrder
    <3> QED
      BY <1>3, <1>5, <2>8, <3>1
  <2>2. /\ \A s \in Secs : (\A r \in DOMAIN rows : rows[r].plan = b => orders[r].sec # s)
                             => position[s] = artifacts[b].position[s]
        /\ \A r \in DOMAIN rows : rows[r].plan = b =>
             position[orders[r].sec] = artifacts[b].position[orders[r].sec] + orders[r].side * orders[r].filled
    BY <1>1, <2>1 DEF Books, SnapshotsHold, SnapshotHolds
  <2>3. position[intent.sec] = artifacts[b].position[intent.sec]
    BY <1>1, <1>2, <2>1, <2>2
  <2>4. position[orders'[n].sec] = artifacts[b].position[orders'[n].sec] + orders'[n].side * orders'[n].filled
    <3>1. artifacts[b].position[intent.sec] \in Int
      BY <1>2, FileTyped DEF Books
    <3> QED
      BY <1>2, <1>4, <1>6, <2>3, <3>1
  <2>5. ASSUME NEW s \in Secs, \A r \in DOMAIN rows' : rows'[r].plan = b => orders'[r].sec # s
        PROVE  position'[s] = artifacts'[b].position[s]
    <3>1. \A r \in DOMAIN rows : rows[r].plan = b => orders[r].sec # s
      BY <1>5, <1>6, <2>5
    <3> QED
      BY <2>2, <2>7, <3>1
  <2>6. ASSUME NEW r \in DOMAIN rows', rows'[r].plan = b
        PROVE  position'[orders'[r].sec] =
                 artifacts'[b].position[orders'[r].sec] + orders'[r].side * orders'[r].filled
    <3>1. CASE r \in DOMAIN rows
      <4>1. rows'[r] = rows[r] /\ orders'[r] = orders[r]
        BY <1>5, <1>6, <3>1
      <4>2. position[orders[r].sec] =
              artifacts[b].position[orders[r].sec] + orders[r].side * orders[r].filled
        BY <2>2, <2>6, <3>1, <4>1
      <4> QED
        BY <2>7, <4>1, <4>2
    <3>2. CASE r = n
      BY <2>4, <2>7, <3>2
    <3> QED
      BY <1>5, <3>1, <3>2
  <2> QED
    BY <2>5, <2>6, Zenon DEF SnapshotHolds
<1>18. EntriesOnce'
  <2>1. \A r, q \in DOMAIN rows :
          rows'[r].intent.rule = "entry" /\ rows'[q].intent.rule = "entry"
            /\ rows'[r].intent.id = rows'[q].intent.id => r = q
    BY <1>5 DEF Books, EntriesOnce
  <2>2. \A r \in DOMAIN rows : rows'[n].intent.rule = "entry" => rows'[r].intent.id # rows'[n].intent.id
    BY <1>1, <1>3, <1>5
  <2> QED
    BY <1>5, <2>1, <2>2 DEF EntriesOnce
<1>19. Books'
  BY <1>9, <1>10, <1>11, <1>12, <1>13, <1>14, <1>15, <1>16, <1>17, <1>18 DEF Books
<1> QED
  BY <1>3, <1>4, <1>5, <1>6, <1>19

------------------------------------------------------------------------------
(* The files of a plan: a snapshot is taken, its orders are read, the plan *)
(* is written.                                                             *)

(* A snapshot of a journal whose last row may be open: the rows completed   *)
(* are all that come before it, and the account is as the snapshot says.    *)
LEMMA SnapshotTaken ==
  ASSUME Books,
         artifacts' = Append(artifacts, [completed |-> Completed, position |-> position, open |-> 0,
                                         at |-> clock, intents |-> <<>>, phase |-> "none"]),
         UNCHANGED <<rows, orders, position, marked, clock, opening>>
  PROVE  Books'
<1> DEFINE file == [completed |-> Completed, position |-> position, open |-> 0,
                    at |-> clock, intents |-> <<>>, phase |-> "none"]
           n == Len(artifacts) + 1
<1>1. /\ file \in Files /\ file.completed = Completed /\ file.position = position
      /\ file.intents = <<>> /\ file.phase = "none"
  <2>1. <<>> \in Plans
    <3>1. <<>> \in [{} -> Intents]
      OBVIOUS
    <3> QED
      BY <3>1 DEF Plans
  <2>2. Completed \in SUBSET Nat
    BY RowTyped DEF Completed, Books
  <2> QED
    BY <2>1, <2>2 DEF Files, Books, TypeInv
<1> HIDE DEF file
<1>2. /\ artifacts' \in Seq(Files) /\ DOMAIN artifacts' = DOMAIN artifacts \cup {n}
      /\ n \notin DOMAIN artifacts /\ artifacts'[n] = file
      /\ \A a \in DOMAIN artifacts : artifacts'[a] = artifacts[a]
  BY <1>1, ElementAppended DEF Books, TypeInv, file
<1>3. \A r \in DOMAIN rows : rows[r].plan \in DOMAIN artifacts /\ rows[r].plan # n
  BY <1>2 DEF Books, RowsAreOfPlans, RowIsOfPlan
<1>4. /\ Completed' = Completed
      /\ TypeInv' /\ OrdersAreRight' /\ OnlyTheLastIsOpen' /\ FinalRowsAreTrue' /\ OneRowEach'
      /\ EntriesOnce' /\ MarksAreBounded'
  BY <1>2 DEF Books, TypeInv, OrdersAreRight, OnlyTheLastIsOpen, FinalRowsAreTrue, OneRowEach,
              EntriesOnce, MarksAreBounded, Unresolved, Completed
<1>5. RowsAreOfPlans'
  BY <1>2, <1>3 DEF Books, RowsAreOfPlans, RowIsOfPlan
<1>6. PlansAreSound'
  <2>1. DOMAIN artifacts'[n].intents = {}
    BY <1>1, <1>2
  <2>2. SoundPlan(artifacts'[n].intents, artifacts'[n].position, marked)
    BY <2>1 DEF SoundPlan
  <2>3. \A a \in DOMAIN artifacts' : SoundPlan(artifacts'[a].intents, artifacts'[a].position, marked)
    BY <1>2, <2>2 DEF Books, PlansAreSound
  <2> QED
    BY <2>3 DEF PlansAreSound
<1>7. RowsAreInOrder'
  <2>1. ASSUME NEW r \in Completed, NEW q \in DOMAIN rows, q <= r
        PROVE  q \in Completed
    <3>1. r <= Len(rows) /\ r \in DOMAIN rows /\ r \in Nat /\ q \in Nat /\ Len(rows) \in Nat
      BY DEF Completed, Books, TypeInv
    <3>2. CASE q \in Unresolved
      BY <2>1, <3>1, <3>2 DEF Books, OnlyTheLastIsOpen
    <3> QED
      BY <3>2 DEF Unresolved, Completed
  <2> QED
    BY <1>1, <1>2, <1>3, <1>4, <2>1 DEF Books, RowsAreInOrder, Completed
<1>8. SnapshotsHold'
  BY <1>1, <1>2, <1>3 DEF Books, SnapshotsHold, SnapshotHolds, Fresh
<1> QED
  BY <1>4, <1>5, <1>6, <1>7, <1>8 DEF Books

(* The files that are not yet a plan change, but for their snapshot.       *)
LEMMA PlanWritten ==
  ASSUME Books, NEW a \in DOMAIN artifacts, artifacts[a].phase = "none", NEW new \in Files,
         new.completed = artifacts[a].completed, new.position = artifacts[a].position,
         artifacts' = [artifacts EXCEPT ![a] = new],
         marked \subseteq marked', MarksAreBounded',
         SoundPlan(new.intents, new.position, marked'),
         UNCHANGED <<rows, orders, position, clock>>, opening' \in {0} \cup Equity
  PROVE  Books'
<1>1. /\ artifacts' \in Seq(Files) /\ DOMAIN artifacts' = DOMAIN artifacts /\ artifacts'[a] = new
      /\ \A b \in DOMAIN artifacts : b # a => artifacts'[b] = artifacts[b]
  BY ElementReplaced DEF Books, TypeInv
<1>2. \A b \in DOMAIN artifacts : /\ artifacts'[b].completed = artifacts[b].completed
                                 /\ artifacts'[b].position = artifacts[b].position
  BY <1>1
<1>3. \A r \in DOMAIN rows : rows[r].plan \in DOMAIN artifacts /\ rows[r].plan # a
  BY DEF Books, RowsAreOfPlans, RowIsOfPlan
<1>4. /\ Completed' = Completed
      /\ TypeInv' /\ OrdersAreRight' /\ OnlyTheLastIsOpen' /\ FinalRowsAreTrue' /\ OneRowEach'
      /\ EntriesOnce'
  BY <1>1 DEF Books, TypeInv, OrdersAreRight, OnlyTheLastIsOpen, FinalRowsAreTrue, OneRowEach,
              EntriesOnce, Unresolved, Completed
<1>5. RowsAreOfPlans'
  BY <1>1, <1>3 DEF Books, RowsAreOfPlans, RowIsOfPlan
<1>6. PlansAreSound'
  <2>1. ASSUME NEW b \in DOMAIN artifacts, b # a
        PROVE  SoundPlan(artifacts[b].intents, artifacts[b].position, marked')
    <3>1. SoundPlan(artifacts[b].intents, artifacts[b].position, marked)
      BY DEF Books, PlansAreSound
    <3> QED
      BY <3>1 DEF SoundPlan
  <2> QED
    BY <1>1, <2>1 DEF PlansAreSound
<1>7. RowsAreInOrder'
  BY <1>1, <1>2, <1>4 DEF Books, RowsAreInOrder
<1>8. SnapshotsHold'
  BY <1>1, <1>2 DEF Books, SnapshotsHold, SnapshotHolds, Fresh
<1> QED
  BY <1>4, <1>5, <1>6, <1>7, <1>8 DEF Books

------------------------------------------------------------------------------
(* What a step of another leaves to a process.                             *)

Leaves(q) ==
  /\ DOMAIN rows \subseteq DOMAIN rows'
  /\ \A r \in DOMAIN rows :
       /\ rows'[r].intent = rows[r].intent /\ rows'[r].plan = rows[r].plan
       /\ orders'[r].lots = orders[r].lots
       /\ orders[r].state \in Terminal => orders'[r] = orders[r]
  /\ At(q, "post") => orders'[proc[q].req] = orders[proc[q].req]
  /\ DOMAIN artifacts \subseteq DOMAIN artifacts'
  /\ \A a \in DOMAIN artifacts :
       /\ artifacts'[a].position = artifacts[a].position
       /\ artifacts[a].phase # "none" =>
            artifacts'[a].intents = artifacts[a].intents /\ artifacts'[a].phase = artifacts[a].phase
       /\ q = Timer => artifacts'[a].phase = artifacts[a].phase

(* A process that another leaves alone stays right.                         *)
LEMMA OtherStaysRight ==
  ASSUME NEW q \in Proc, Right(q), proc'[q] = proc[q], Leaves(q)
  PROVE  Right(q)'
<1>1. HasPlan(q)'
  <2>1. ASSUME proc[q].pc \in Working \cup {"check"} PROVE proc[q].job \in DOMAIN artifacts'
    BY <2>1 DEF Right, HasPlan, Leaves
  <2>2. ASSUME proc[q].pc \in Working
        PROVE  /\ artifacts'[proc[q].job].phase # "none"
               /\ artifacts'[proc[q].job].intents = artifacts[proc[q].job].intents
               /\ artifacts'[proc[q].job].position = artifacts[proc[q].job].position
    BY <2>2 DEF Right, HasPlan, Leaves, Job
  <2>3. ASSUME proc[q].pc \in Working, NEW i \in DOMAIN artifacts'[proc[q].job].intents,
               proc[q].next <= i
        PROVE  proc[q].projected[artifacts'[proc[q].job].intents[i].sec] =
                 artifacts'[proc[q].job].position[artifacts'[proc[q].job].intents[i].sec]
    BY <2>2, <2>3 DEF Right, HasPlan, Job
  <2> QED
    BY <2>1, <2>2, <2>3 DEF HasPlan, Job
<1>2. IsPlanning(q)'
  BY DEF Right, IsPlanning, Leaves, Job
<1>3. HasOrder(q)'
  <2>1. ASSUME proc[q].pc \in Sending
        PROVE  /\ proc[q].next \in DOMAIN artifacts'[proc[q].job].intents
               /\ proc[q].req \in DOMAIN rows'
               /\ rows'[proc[q].req].plan = proc[q].job
               /\ rows'[proc[q].req].intent = artifacts'[proc[q].job].intents[proc[q].next]
    <3>1. artifacts'[proc[q].job].intents = artifacts[proc[q].job].intents
      BY <2>1 DEF Right, HasPlan, Leaves, Job, Working
    <3> QED
      BY <2>1, <3>1 DEF Right, HasOrder, Leaves, Job, Intent
  <2>2. proc[q].pc = "post" => orders'[proc[q].req].state = "unsent"
    BY DEF Right, HasOrder, Leaves, At
  <2>3. proc[q].pc = "found" => proc[q].req \in DOMAIN rows'
    BY DEF Right, HasOrder, Leaves, At
  <2> QED
    BY <2>1, <2>2, <2>3 DEF HasOrder, At, Job, Intent
<1>4. SawTheTruth(q)'
  BY DEF Right, SawTheTruth, Leaves
<1> QED
  BY <1>1, <1>2, <1>3, <1>4 DEF Right

(* A step that changes no book leaves every process alone.                  *)
LEMMA NothingLeavesAll ==
  ASSUME UNCHANGED <<rows, orders, artifacts>>
  PROVE  \A q \in Proc : Leaves(q)
BY DEF Leaves

(* One process moves.                                                      *)
LEMMA ProcessesStayRight ==
  ASSUME Processes, Books, Books', NEW p \in Proc,
         proc' \in [Proc -> Locals], \A q \in Proc : q # p => proc'[q] = proc[q],
         \A q \in Proc : q # p => Leaves(q),
         Right(p)', proc'[p].todo \subseteq Request',
         proc'[p].pc = "post" => proc'[p].req \notin DOMAIN rows
  PROVE  Processes'
<1>1. \A q \in Proc : Right(q)'
  BY OtherStaysRight DEF Processes
<1>2. ASSUME NEW q \in Proc PROVE proc'[q].todo \subseteq Request'
  <2>1. CASE q = p
    BY <2>1
  <2>2. CASE q # p
    <3>1. DOMAIN orders = DOMAIN rows /\ DOMAIN orders' = DOMAIN rows'
      BY DEF Books, TypeInv
    <3> QED
      BY <2>2, <3>1 DEF Processes, Leaves, Request
  <2> QED
    BY <2>1, <2>2
<1>3. ASSUME NEW q \in Proc, q # p, proc'[p].pc = "post", proc'[q].pc = "post"
      PROVE  proc'[p].req # proc'[q].req
  BY <1>3 DEF Processes, Right, HasOrder, Sending
<1>4. \A q, t \in Proc :
        proc'[q].pc = "post" /\ proc'[t].pc = "post" /\ proc'[q].req = proc'[t].req => q = t
  BY <1>3 DEF Processes, At
<1> QED
  BY <1>1, <1>2, <1>4 DEF Processes, At

(* A step of the market leaves the processes right.                         *)
LEMMA NobodyMoves ==
  ASSUME Processes, Books, Books', proc' = proc, \A q \in Proc : Leaves(q)
  PROVE  Processes'
<1>1. \A q \in Proc : Right(q)'
  BY OtherStaysRight DEF Processes
<1>2. DOMAIN orders = DOMAIN rows /\ DOMAIN orders' = DOMAIN rows'
  BY DEF Books, TypeInv
<1>3. \A q \in Proc : proc'[q].todo \subseteq Request'
  BY <1>2 DEF Processes, Leaves, Request
<1> QED
  BY <1>1, <1>3 DEF Processes, At

(* A step that changes nothing but one process.                            *)
LEMMA LocalStep ==
  ASSUME DayInv, NEW p \in Proc,
         UNCHANGED <<rows, orders, artifacts, position, marked>>,
         clock' \in 0 .. 2, opening' \in {0} \cup Equity,
         proc' \in [Proc -> Locals], \A q \in Proc : q # p => proc'[q] = proc[q],
         Right(p)', proc'[p].todo \subseteq Request, proc'[p].pc # "post"
  PROVE  DayInv'
<1>1. Books'
  BY DEF DayInv, Books, TypeInv, OrdersAreRight, RowsAreOfPlans, RowIsOfPlan, OnlyTheLastIsOpen,
         FinalRowsAreTrue, PlansAreSound, RowsAreInOrder, OneRowEach, SnapshotsHold, SnapshotHolds,
         Fresh, EntriesOnce, MarksAreBounded, Completed, Unresolved
<1> QED
  BY <1>1, NothingLeavesAll, ProcessesStayRight DEF DayInv, Request

(* An idle process holds nothing that could be wrong.                       *)
LEMMA IdleIsRight ==
  ASSUME NEW p \in Proc, proc'[p] = Idle
  PROVE  Right(p)' /\ proc'[p].todo = {} /\ proc'[p].pc # "post"
BY IdleTyped DEF Right, HasPlan, IsPlanning, HasOrder, SawTheTruth, Working, Sending, At

(* A command ends.                                                         *)
LEMMA EndStep ==
  ASSUME DayInv, NEW p \in Proc, End(p),
         UNCHANGED <<rows, orders, artifacts, position, marked>>,
         clock' \in 0 .. 2, opening' \in {0} \cup Equity
  PROVE  DayInv'
<1>1. /\ proc' \in [Proc -> Locals] /\ \A q \in Proc : q # p => proc'[q] = proc[q]
      /\ proc'[p] = Idle
  BY EndIs DEF DayInv, Processes
<1> QED
  BY <1>1, IdleIsRight, LocalStep

------------------------------------------------------------------------------
(* What is read of an order.                                               *)

(* A final state that the broker answers is the one the order has.          *)
LEMMA StateOfIs ==
  ASSUME NEW r \in DOMAIN orders, orders[r].state \in States
  PROVE  StateOf(r) \in Statuses /\ (StateOf(r) \in Terminal => orders[r].state = StateOf(r))
<1>1. CASE orders[r].state \in Terminal
  <2>1. StateOf(r) = orders[r].state
    BY <1>1 DEF StateOf, Terminal
  <2> QED
    BY <1>1, <2>1 DEF Statuses
<1>2. CASE orders[r].state = "new"
  <2>1. StateOf(r) \in {"accepted", "partially_filled"}
    BY <1>2 DEF StateOf, Terminal
  <2> QED
    BY <2>1 DEF Statuses, Terminal
<1>3. CASE orders[r].state \notin Terminal /\ orders[r].state # "new"
  <2>1. StateOf(r) = "unknown"
    BY <1>3 DEF StateOf, Terminal
  <2> QED
    BY <2>1 DEF Statuses, Terminal
<1> QED
  BY <1>1, <1>2, <1>3

(* What is read of an order is true of it.                                  *)
LEMMA SeenIs ==
  ASSUME Books, NEW r \in DOMAIN rows
  PROVE  /\ Seen(r).seen \in Sights /\ Seen(r).seen.filled <= orders[r].lots
         /\ Seen(r).seen.status \in Terminal =>
              orders[r].state = Seen(r).seen.status /\ orders[r].filled = Seen(r).seen.filled
         /\ Seen(r) = [seen |-> Seen(r).seen]
<1>1. r \in DOMAIN orders
  BY DEF Books, TypeInv
<1>2. orders[r].filled \in Nat /\ orders[r].state \in States /\ orders[r].filled <= orders[r].lots
  BY <1>1, OrderTyped DEF Books, OrdersAreRight
<1>3. Seen(r).seen = [status |-> StateOf(r), filled |-> orders[r].filled]
  BY DEF Seen
<1> QED
  BY <1>1, <1>2, <1>3, StateOfIs DEF Seen, Sights

(* What a process keeps when an answer is lost is no final state, and has   *)
(* no more lots than the order.                                             *)
LEMMA UnknownIs ==
  ASSUME DayInv, NEW p \in Proc, proc[p].pc \in Sending
  PROVE  /\ UnknownTo(p).seen \in Sights /\ UnknownTo(p).seen.status \notin Terminal
         /\ UnknownTo(p).seen.filled <= orders[proc[p].req].lots
         /\ UnknownTo(p) = [seen |-> UnknownTo(p).seen]
<1>1. proc[p].seen.filled \in Nat
  BY ProcessTyped DEF DayInv, Processes
<1>2. proc[p].seen.filled <= orders[proc[p].req].lots
  <2>1. proc[p].req \in DOMAIN orders
    BY DEF DayInv, Processes, Right, HasOrder, Books, TypeInv
  <2>2. orders[proc[p].req].lots \in Nat
    BY <2>1, OrderTyped DEF DayInv, Books
  <2>3. CASE proc[p].seen = Idle.seen
    BY <2>2, <2>3, IdleTyped
  <2>4. CASE proc[p].seen # Idle.seen
    BY <2>4 DEF DayInv, Processes, Right, SawTheTruth
  <2> QED
    BY <2>3, <2>4
<1>3. UnknownTo(p).seen = [status |-> "unknown", filled |-> proc[p].seen.filled]
  BY DEF UnknownTo
<1> QED
  BY <1>1, <1>2, <1>3, IdleTyped DEF UnknownTo, Sights, Statuses

------------------------------------------------------------------------------
(* The steps of an execution that read, wait or stop.                      *)

(* A process that has sent an order goes on with it.                       *)
LEMMA SendingGoesOn ==
  ASSUME DayInv, NEW p \in Proc, proc[p].pc \in Sending,
         UNCHANGED <<rows, orders, artifacts, position, marked, clock, opening>>,
         proc' \in [Proc -> Locals], \A q \in Proc : q # p => proc'[q] = proc[q],
         proc'[p].pc \in Sending \ {"post"}, proc'[p].job = proc[p].job, proc'[p].todo = proc[p].todo,
         proc'[p].next = proc[p].next, proc'[p].projected = proc[p].projected,
         proc'[p].req = proc[p].req,
         \/ proc'[p].seen = Idle.seen
         \/ /\ proc'[p].pc \in Looking /\ proc'[p].seen.filled <= orders[proc[p].req].lots
            /\ proc'[p].seen.status \in Terminal =>
                 /\ orders[proc[p].req].state = proc'[p].seen.status
                 /\ orders[proc[p].req].filled = proc'[p].seen.filled
  PROVE  DayInv'
<1>1. Right(p)
  BY DEF DayInv, Processes
<1>2. HasPlan(p)'
  BY <1>1 DEF Right, HasPlan, Working, Job
<1>3. IsPlanning(p)'
  BY DEF IsPlanning, Sending
<1>4. HasOrder(p)'
  BY <1>1 DEF Right, HasOrder, Sending, Job, Intent, At
<1>5. SawTheTruth(p)'
  BY <1>1 DEF Right, HasOrder, SawTheTruth
<1>6. clock \in 0 .. 2 /\ opening \in {0} \cup Equity
  BY DEF DayInv, Books, TypeInv
<1> QED
  BY <1>2, <1>3, <1>4, <1>5, <1>6, LocalStep DEF Right, DayInv, Processes

(* The answer is read or lost, the order is polled, waited for and verified *)
(* (tinvest_sandbox.py:823-867): nothing is taken for final that is not.    *)
LEMMA ReadersGoOn ==
  ASSUME DayInv, NEW p \in Proc, UNCHANGED <<marked, clock, opening>>,
         Answer(p) \/ Poll(p) \/ Wait(p) \/ VerifyCancel(p)
  PROVE  DayInv'
<1>1. proc \in [Proc -> Locals] /\ Right(p) /\ Books
  BY DEF DayInv, Processes
<1>2. UNCHANGED <<rows, orders, artifacts, position, marked, clock, opening>>
  BY DEF Answer, Poll, Wait, VerifyCancel
<1>3. ASSUME proc[p].pc \in Sending
      PROVE  /\ proc[p].req \in DOMAIN rows /\ orders[proc[p].req].lots \in Nat
  <2>1. proc[p].req \in DOMAIN rows /\ proc[p].req \in DOMAIN orders
    BY <1>1, <1>3 DEF Right, HasOrder, Books, TypeInv
  <2> QED
    BY <1>1, <2>1, OrderTyped DEF Books
<1>4. CASE Answer(p)
  <2>1. proc[p].pc \in Sending
    BY <1>4 DEF Answer, At, Sending
  <2>2. CASE Move(p, "record", [seen |-> [status |-> "unknown", filled |-> 0]])
    <3>1. [status |-> "unknown", filled |-> 0] = Idle.seen /\ Idle.seen \in Sights
      BY IdleTyped
    <3>2. /\ proc' \in [Proc -> Locals] /\ \A q \in Proc : q # p => proc'[q] = proc[q]
          /\ proc'[p].pc = "record" /\ proc'[p].job = proc[p].job /\ proc'[p].todo = proc[p].todo
          /\ proc'[p].next = proc[p].next /\ proc'[p].projected = proc[p].projected
          /\ proc'[p].req = proc[p].req /\ proc'[p].seen = Idle.seen
      BY <1>1, <2>2, <3>1, SeesIs DEF Pcs
    <3> QED
      BY <1>2, <2>1, <3>2, SendingGoesOn DEF Sending
  <2>3. CASE Move(p, "record", Seen(proc[p].req))
    <3> DEFINE sight == Seen(proc[p].req).seen
    <3>1. /\ sight \in Sights /\ sight.filled <= orders[proc[p].req].lots
          /\ sight.status \in Terminal =>
               orders[proc[p].req].state = sight.status /\ orders[proc[p].req].filled = sight.filled
          /\ Seen(proc[p].req) = [seen |-> sight]
      BY <1>1, <1>3, <2>1, SeenIs
    <3> HIDE DEF sight
    <3>2. /\ proc' \in [Proc -> Locals] /\ \A q \in Proc : q # p => proc'[q] = proc[q]
          /\ proc'[p].pc = "record" /\ proc'[p].job = proc[p].job /\ proc'[p].todo = proc[p].todo
          /\ proc'[p].next = proc[p].next /\ proc'[p].projected = proc[p].projected
          /\ proc'[p].req = proc[p].req /\ proc'[p].seen = sight
      BY <1>1, <2>3, <3>1, SeesIs DEF Pcs
    <3> QED
      BY <1>2, <2>1, <3>1, <3>2, SendingGoesOn DEF Sending, Looking
  <2> QED
    BY <1>4, <2>2, <2>3 DEF Answer
<1>5. CASE Poll(p)
  <2>1. proc[p].pc \in Sending
    BY <1>5 DEF Poll, At, Sending
  <2>2. PICK change \in {Seen(proc[p].req), UnknownTo(p)} :
          Move(p, IF change.seen.status \in Terminal THEN "settled" ELSE "wait", change)
    BY <1>5 DEF Poll
  <2> DEFINE sight == change.seen
             pc == IF change.seen.status \in Terminal THEN "settled" ELSE "wait"
  <2>3. /\ sight \in Sights /\ sight.filled <= orders[proc[p].req].lots
        /\ sight.status \in Terminal =>
             orders[proc[p].req].state = sight.status /\ orders[proc[p].req].filled = sight.filled
        /\ change = [seen |-> sight]
    BY <1>1, <1>3, <2>1, SeenIs, UnknownIs
  <2>4. pc \in {"settled", "wait"} /\ Move(p, pc, change)
    BY <2>2
  <2> HIDE DEF sight, pc
  <2>5. /\ proc' \in [Proc -> Locals] /\ \A q \in Proc : q # p => proc'[q] = proc[q]
        /\ proc'[p].pc = pc /\ proc'[p].job = proc[p].job /\ proc'[p].todo = proc[p].todo
        /\ proc'[p].next = proc[p].next /\ proc'[p].projected = proc[p].projected
        /\ proc'[p].req = proc[p].req /\ proc'[p].seen = sight
    BY <1>1, <2>3, <2>4, SeesIs DEF Pcs
  <2> QED
    BY <1>2, <2>1, <2>3, <2>4, <2>5, SendingGoesOn DEF Sending, Looking
<1>6. CASE Wait(p)
  <2>1. proc[p].pc \in Sending /\ proc[p].pc \in Looking
    BY <1>6 DEF Wait, At, Sending, Looking
  <2>2. PICK pc \in {"poll", "cancel_order"} : Move(p, pc, Stay)
    BY <1>6 DEF Wait
  <2>3. /\ proc' \in [Proc -> Locals] /\ \A q \in Proc : q # p => proc'[q] = proc[q]
        /\ proc'[p].pc = pc /\ proc'[p].job = proc[p].job /\ proc'[p].todo = proc[p].todo
        /\ proc'[p].next = proc[p].next /\ proc'[p].projected = proc[p].projected
        /\ proc'[p].req = proc[p].req /\ proc'[p].seen = proc[p].seen
    BY <1>1, <2>2, StayIs DEF Pcs
  <2>4. SawTheTruth(p)
    BY <1>1 DEF Right
  <2> QED
    BY <1>2, <2>1, <2>2, <2>3, <2>4, SendingGoesOn DEF Sending, Looking, SawTheTruth
<1>7. CASE VerifyCancel(p)
  <2>1. proc[p].pc \in Sending
    BY <1>7 DEF VerifyCancel, At, Sending
  <2>2. PICK change \in {Seen(proc[p].req), UnknownTo(p)} :
          Move(p, "settled", IF change.seen.status \in Terminal THEN change
                             ELSE [seen |-> [change.seen EXCEPT !.status = "unknown"]])
    BY <1>7 DEF VerifyCancel
  <2>3. /\ change.seen \in Sights /\ change.seen.filled <= orders[proc[p].req].lots
        /\ change.seen.status \in Terminal =>
             /\ orders[proc[p].req].state = change.seen.status
             /\ orders[proc[p].req].filled = change.seen.filled
        /\ change = [seen |-> change.seen]
    BY <1>1, <1>3, <2>1, SeenIs, UnknownIs
  <2> DEFINE sight == IF change.seen.status \in Terminal THEN change.seen
                      ELSE [change.seen EXCEPT !.status = "unknown"]
  <2>4. /\ sight \in Sights /\ sight.filled <= orders[proc[p].req].lots
        /\ sight.status \in Terminal =>
             orders[proc[p].req].state = sight.status /\ orders[proc[p].req].filled = sight.filled
    BY <2>3 DEF Sights, Statuses, Terminal
  <2>5. Move(p, "settled", [seen |-> sight])
    BY <2>2, <2>3
  <2> HIDE DEF sight
  <2>6. /\ proc' \in [Proc -> Locals] /\ \A q \in Proc : q # p => proc'[q] = proc[q]
        /\ proc'[p].pc = "settled" /\ proc'[p].job = proc[p].job /\ proc'[p].todo = proc[p].todo
        /\ proc'[p].next = proc[p].next /\ proc'[p].projected = proc[p].projected
        /\ proc'[p].req = proc[p].req /\ proc'[p].seen = sight
    BY <1>1, <2>4, <2>5, SeesIs DEF Pcs
  <2> QED
    BY <1>2, <2>1, <2>4, <2>6, SendingGoesOn DEF Sending, Looking
<1> QED
  BY <1>4, <1>5, <1>6, <1>7

------------------------------------------------------------------------------
(* The steps that change an order.                                         *)

(* An order that is not final changes its state, and nothing else.          *)
LEMMA StateChanges ==
  ASSUME Books, NEW r \in DOMAIN orders, orders[r].state \notin Terminal, NEW state \in States,
         InState(r, state), UNCHANGED <<rows, artifacts, position, marked, clock, opening>>
  PROVE  /\ Books' /\ orders' \in Seq(Orders) /\ DOMAIN orders' = DOMAIN orders
         /\ orders'[r].state = state /\ orders'[r].lots = orders[r].lots
         /\ orders'[r].filled = orders[r].filled
         /\ \A q \in DOMAIN orders : q # r => orders'[q] = orders[q]
<1> DEFINE new == [orders[r] EXCEPT !.state = state]
<1>1. /\ orders[r] \in Orders /\ orders[r].sec \in Secs /\ orders[r].side \in {-1, 1}
      /\ orders[r].filled \in Nat
  BY OrderTyped DEF Books
<1>2. /\ new \in Orders /\ new.sec = orders[r].sec /\ new.side = orders[r].side
      /\ new.lots = orders[r].lots /\ new.filled = orders[r].filled /\ new.state = state
  BY <1>1 DEF Orders
<1>3. orders' = [orders EXCEPT ![r] = new]
  BY DEF InState
<1> HIDE DEF new
<1>4. position' = [position EXCEPT ![new.sec] = @ + new.side * (new.filled - orders[r].filled)]
  <2>1. position \in [Secs -> Int] /\ position[new.sec] \in Int
    BY <1>1, <1>2 DEF Books, TypeInv
  <2>2. position[new.sec] + new.side * (new.filled - orders[r].filled) = position[new.sec]
    <3>1. new.filled - orders[r].filled = 0
      BY <1>1, <1>2
    <3> QED
      BY <1>1, <1>2, <2>1, <3>1
  <2> QED
    BY <2>1, <2>2
<1>5. new.filled <= new.lots /\ (new.state \notin Terminal => new.filled < new.lots)
  BY <1>2 DEF Books, OrdersAreRight
<1>6. Books'
  BY <1>2, <1>3, <1>4, <1>5, OrderChanges
<1> QED
  BY <1>2, <1>3, <1>6, ElementReplaced DEF Books, TypeInv

(* The broker fills one lot: the order and the account change together.     *)
LEMMA LotFilled ==
  ASSUME Books, NEW r \in DOMAIN orders, FillLot(r),
         UNCHANGED <<rows, artifacts, marked, clock, opening>>
  PROVE  /\ Books' /\ DOMAIN orders' = DOMAIN orders /\ orders'[r].lots = orders[r].lots
         /\ orders'[r].filled = orders[r].filled + 1
         /\ \A q \in DOMAIN orders : q # r => orders'[q] = orders[q]
<1> DEFINE filled == orders[r].filled + 1
           state == IF filled = orders[r].lots THEN "filled" ELSE orders[r].state
           new == [orders[r] EXCEPT !.filled = filled, !.state = state]
<1>1. /\ orders[r] \in Orders /\ orders[r].sec \in Secs /\ orders[r].side \in {-1, 1}
      /\ orders[r].filled \in Nat /\ orders[r].lots \in Nat
  BY OrderTyped DEF Books
<1>2. /\ orders[r].state = "new" /\ orders[r].state \notin Terminal
      /\ orders' = [orders EXCEPT ![r] = new]
      /\ position' = [position EXCEPT ![orders[r].sec] = @ + orders[r].side]
  BY DEF FillLot, Terminal
<1>3. orders[r].filled < orders[r].lots
  BY <1>2 DEF Books, OrdersAreRight
<1>4. /\ new \in Orders /\ new.sec = orders[r].sec /\ new.side = orders[r].side
      /\ new.lots = orders[r].lots /\ new.filled = orders[r].filled + 1
      /\ new.state = IF orders[r].filled + 1 = orders[r].lots THEN "filled" ELSE "new"
  <2>1. filled \in Nat /\ state \in States
    BY <1>1, <1>2 DEF States
  <2>2. new \in Orders /\ new.sec = orders[r].sec /\ new.side = orders[r].side
        /\ new.lots = orders[r].lots /\ new.filled = filled /\ new.state = state
    <3> HIDE DEF filled, state
    <3> QED
      BY <1>1, <2>1 DEF Orders
  <2> QED
    BY <1>2, <2>2
<1> HIDE DEF new
<1>5. position' = [position EXCEPT ![new.sec] = @ + new.side * (new.filled - orders[r].filled)]
  <2>1. position \in [Secs -> Int] /\ position[new.sec] \in Int
    BY <1>1, <1>4 DEF Books, TypeInv
  <2>2. new.side * (new.filled - orders[r].filled) = orders[r].side
    <3>1. new.filled - orders[r].filled = 1
      BY <1>1, <1>4
    <3> QED
      BY <1>1, <1>4, <3>1
  <2> QED
    BY <1>2, <1>4, <2>1, <2>2
<1>6. new.filled <= new.lots /\ (new.state \notin Terminal => new.filled < new.lots)
  BY <1>1, <1>3, <1>4 DEF Terminal
<1>7. Books'
  BY <1>2, <1>4, <1>5, <1>6, OrderChanges
<1> QED
  BY <1>2, <1>4, <1>7, ElementReplaced DEF Books, TypeInv

(* An order that changes leaves every process alone but the one that is     *)
(* about to send it.                                                        *)
LEMMA OrderLeaves ==
  ASSUME Books, Processes, NEW r \in DOMAIN orders, orders[r].state \notin Terminal,
         UNCHANGED <<rows, artifacts>>, orders'[r].lots = orders[r].lots,
         \A q \in DOMAIN orders : q # r => orders'[q] = orders[q],
         NEW q \in Proc, At(q, "post") => proc[q].req # r
  PROVE  Leaves(q)
<1>1. DOMAIN rows = DOMAIN orders
  BY DEF Books, TypeInv
<1>2. At(q, "post") => orders'[proc[q].req] = orders[proc[q].req]
  <2>1. At(q, "post") => proc[q].req \in DOMAIN orders
    BY <1>1 DEF Processes, Right, HasOrder, Sending, At
  <2> QED
    BY <2>1
<1>3. \A t \in DOMAIN rows :
        orders'[t].lots = orders[t].lots /\ (orders[t].state \in Terminal => orders'[t] = orders[t])
  BY <1>1
<1> QED
  BY <1>2, <1>3 DEF Leaves

(* An order that was sent is not one that a process is about to send.      *)
LEMMA SentIsNotUnsent ==
  ASSUME Processes, NEW r, orders[r].state # "unsent"
  PROVE  \A q \in Proc : At(q, "post") => proc[q].req # r
BY DEF Processes, Right, HasOrder

(* The steps of the broker.                                                 *)
LEMMA MarketKeeps ==
  ASSUME DayInv, Market
  PROVE  DayInv'
<1>1. UNCHANGED <<rows, artifacts, proc, clock, marked, opening>>
  BY DEF Market, Kept
<1>2. PICK r \in DOMAIN orders : Arrive(r) \/ FillLot(r)
  BY DEF Market, BrokerStep, Request
<1>3. Books /\ Processes
  BY DEF DayInv
<1>4. CASE Arrive(r)
  <2>1. PICK state \in {"new", "rejected", "lost"} : InState(r, state)
    BY <1>4 DEF Arrive
  <2>2. state \in States /\ orders[r].state = "travelling" /\ orders[r].state \notin Terminal
        /\ orders[r].state # "unsent" /\ UNCHANGED position
    BY <1>4, <2>1 DEF States, Arrive, Terminal
  <2>3. /\ Books' /\ orders'[r].lots = orders[r].lots
        /\ \A q \in DOMAIN orders : q # r => orders'[q] = orders[q]
    BY <1>1, <1>3, <2>1, <2>2, StateChanges
  <2>4. \A q \in Proc : Leaves(q)
    BY <1>1, <1>3, <2>2, <2>3, OrderLeaves, SentIsNotUnsent
  <2> QED
    BY <1>1, <1>3, <2>3, <2>4, NobodyMoves DEF DayInv
<1>5. CASE FillLot(r)
  <2>1. orders[r].state \notin Terminal /\ orders[r].state # "unsent"
    BY <1>5 DEF FillLot, Terminal
  <2>2. /\ Books' /\ orders'[r].lots = orders[r].lots
        /\ \A q \in DOMAIN orders : q # r => orders'[q] = orders[q]
    BY <1>1, <1>3, <1>5, LotFilled
  <2>3. \A q \in Proc : Leaves(q)
    BY <1>1, <1>3, <2>1, <2>2, OrderLeaves, SentIsNotUnsent
  <2> QED
    BY <1>1, <1>3, <2>2, <2>3, NobodyMoves DEF DayInv
<1> QED
  BY <1>2, <1>4, <1>5

(* A cancellation: whatever the process does next.                         *)
LEMMA CancelActiveIs ==
  ASSUME DayInv, NEW r, CancelActive(r), UNCHANGED <<rows, artifacts, marked, clock, opening>>
  PROVE  /\ Books' /\ DOMAIN orders' = DOMAIN orders /\ r \in DOMAIN orders
         /\ \A q \in DOMAIN orders : orders'[q].lots = orders[q].lots
         /\ \A q \in Proc : Leaves(q)
<1>1. /\ r \in DOMAIN orders /\ orders[r].state = "new" /\ InState(r, "cancelled")
      /\ UNCHANGED position
  BY DEF CancelActive, Active, Request
<1>2. orders[r].state \notin Terminal /\ orders[r].state # "unsent" /\ "cancelled" \in States
  BY <1>1 DEF Terminal, States
<1>3. /\ Books' /\ DOMAIN orders' = DOMAIN orders /\ orders'[r].lots = orders[r].lots
      /\ \A q \in DOMAIN orders : q # r => orders'[q] = orders[q]
  BY <1>1, <1>2, StateChanges DEF DayInv
<1>4. \A q \in Proc : Leaves(q)
  BY <1>1, <1>2, <1>3, OrderLeaves, SentIsNotUnsent DEF DayInv
<1> QED
  BY <1>1, <1>3, <1>4

(* The cycle cancels one of the active orders (run-intraday-cycle.sh).      *)
LEMMA CancelOneKeeps ==
  ASSUME DayInv, NEW p \in Proc, CancelOne(p)
  PROVE  DayInv'
<1>1. /\ UNCHANGED <<rows, artifacts, marked, clock, opening>> /\ At(p, "cancel_active")
      /\ clock \in 0 .. 2 /\ opening \in {0} \cup Equity
  BY DEF CancelOne, Kept, DayInv, Books, TypeInv
<1>2. PICK r \in proc[p].todo :
        \/ CancelActive(r) /\ Move(p, "cancel_active", [todo |-> proc[p].todo \ {r}])
        \/ End(p) /\ UNCHANGED <<orders, position>>
  BY DEF CancelOne
<1>3. CASE CancelActive(r) /\ Move(p, "cancel_active", [todo |-> proc[p].todo \ {r}])
  <2>1. /\ Books' /\ DOMAIN orders' = DOMAIN orders /\ \A q \in Proc : Leaves(q)
    BY <1>1, <1>3, CancelActiveIs
  <2> DEFINE change == [todo |-> proc[p].todo \ {r}]
  <2>2. /\ DOMAIN change = {"todo"} /\ change["todo"] = proc[p].todo \ {r}
        /\ proc \in [Proc -> Locals] /\ proc[p].todo \in SUBSET Nat
    BY ProcessTyped DEF DayInv, Processes
  <2>3. Change(change) /\ Move(p, "cancel_active", change)
    BY <1>3, <2>2 DEF Change
  <2> HIDE DEF change
  <2>4. /\ proc' \in [Proc -> Locals] /\ \A q \in Proc : q # p => proc'[q] = proc[q]
        /\ proc'[p].pc = "cancel_active" /\ proc'[p].todo = proc[p].todo \ {r}
        /\ proc'[p].seen = proc[p].seen
    BY <2>2, <2>3, MoveIs DEF Pcs
  <2>5. proc[p].seen = Idle.seen
    BY <1>1 DEF DayInv, Processes, Right, SawTheTruth, At, Looking
  <2>6. Right(p)'
    BY <2>4, <2>5 DEF Right, HasPlan, IsPlanning, HasOrder, SawTheTruth, Working, Sending, At, Idle
  <2>7. proc'[p].todo \subseteq Request'
    BY <2>1, <2>4 DEF DayInv, Processes, Request
  <2> QED
    BY <2>1, <2>4, <2>6, <2>7, ProcessesStayRight DEF DayInv
<1>4. CASE End(p) /\ UNCHANGED <<orders, position>>
  BY <1>1, <1>4, EndStep
<1> QED
  BY <1>2, <1>3, <1>4

(* settle() cancels an order whose time to live is over.                    *)
LEMMA CancelOrderKeeps ==
  ASSUME DayInv, NEW p \in Proc, CancelOrder(p), UNCHANGED <<marked, clock, opening>>
  PROVE  DayInv'
<1>1. /\ UNCHANGED <<rows, artifacts>> /\ proc[p].pc \in Sending /\ proc[p].pc \in Looking
      /\ proc \in [Proc -> Locals] /\ Right(p)
  BY DEF CancelOrder, At, Sending, Looking, DayInv, Processes
<1> DEFINE sight == UnknownTo(p).seen
<1>2. /\ sight \in Sights /\ sight.status \notin Terminal
      /\ sight.filled <= orders[proc[p].req].lots /\ UnknownTo(p) = [seen |-> sight]
  BY <1>1, UnknownIs
<1> HIDE DEF sight
<1>3. ASSUME Move(p, "settled", UnknownTo(p))
      PROVE  /\ proc' \in [Proc -> Locals] /\ \A q \in Proc : q # p => proc'[q] = proc[q]
             /\ proc'[p].pc = "settled" /\ proc'[p].job = proc[p].job /\ proc'[p].todo = proc[p].todo
             /\ proc'[p].next = proc[p].next /\ proc'[p].projected = proc[p].projected
             /\ proc'[p].req = proc[p].req /\ proc'[p].seen = sight
  BY <1>1, <1>2, <1>3, SeesIs DEF Pcs
<1>4. CASE Move(p, "settled", UnknownTo(p)) /\ UNCHANGED <<orders, position>>
  BY <1>1, <1>2, <1>3, <1>4, SendingGoesOn DEF Sending, Looking
<1>5. CASE CancelActive(proc[p].req)
  <2>1. /\ Books' /\ DOMAIN orders' = DOMAIN orders /\ \A q \in Proc : Leaves(q)
        /\ orders[proc[p].req].state = "new" /\ proc[p].req \in DOMAIN orders
        /\ orders'[proc[p].req].lots = orders[proc[p].req].lots
    BY <1>1, <1>5, CancelActiveIs DEF CancelActive, Active
  <2>2. PICK pc \in {"settled", "verify_cancel"} :
          Move(p, pc, IF pc = "settled" THEN UnknownTo(p) ELSE Stay)
    BY <1>5, <2>1 DEF CancelOrder
  <2>3. /\ proc' \in [Proc -> Locals] /\ \A q \in Proc : q # p => proc'[q] = proc[q]
        /\ proc'[p].pc \in {"settled", "verify_cancel"} /\ proc'[p].job = proc[p].job
        /\ proc'[p].todo = proc[p].todo /\ proc'[p].next = proc[p].next
        /\ proc'[p].projected = proc[p].projected /\ proc'[p].req = proc[p].req
        /\ proc'[p].seen \in {sight, proc[p].seen}
    <3>1. CASE pc = "settled"
      BY <1>3, <2>2, <3>1
    <3>2. CASE pc = "verify_cancel"
      <4>1. Move(p, "verify_cancel", Stay)
        BY <2>2, <3>2
      <4> QED
        BY <1>1, <4>1, StayIs DEF Pcs
    <3> QED
      BY <3>1, <3>2
  <2>4. HasPlan(p)' /\ IsPlanning(p)'
    BY <1>1, <2>3 DEF Right, HasPlan, IsPlanning, Working, Sending, Job
  <2>5. HasOrder(p)'
    BY <1>1, <2>3 DEF Right, HasOrder, Sending, Job, Intent, At
  <2>6. SawTheTruth(p)'
    <3>1. CASE proc'[p].seen = sight
      <4>1. proc[p].req \in DOMAIN rows'
        BY <1>1 DEF Right, HasOrder
      <4> QED
        BY <1>2, <2>1, <2>3, <3>1, <4>1 DEF SawTheTruth, Looking
    <3>2. CASE proc'[p].seen = proc[p].seen
      <4>1. proc[p].seen.status \notin Terminal
        BY <1>1, <2>1, IdleTyped DEF Right, SawTheTruth, Terminal
      <4> QED
        BY <1>1, <2>1, <2>3, <3>2, <4>1 DEF Right, SawTheTruth, Looking
    <3> QED
      BY <2>3, <3>1, <3>2
  <2>7. proc'[p].todo \subseteq Request'
    BY <2>1, <2>3 DEF DayInv, Processes, Request
  <2> QED
    BY <2>1, <2>3, <2>4, <2>5, <2>6, <2>7, ProcessesStayRight DEF DayInv, Right
<1> QED
  BY <1>4, <1>5 DEF CancelOrder

(* submit(): the request is sent, or a short is refused.                   *)
LEMMA PostKeeps ==
  ASSUME DayInv, NEW p \in Proc, Post(p), UNCHANGED <<marked, clock, opening>>
  PROVE  DayInv'
<1>1. /\ UNCHANGED <<rows, artifacts, position>> /\ proc[p].pc = "post" /\ proc[p].pc \in Sending
      /\ proc \in [Proc -> Locals] /\ Right(p)
      /\ clock \in 0 .. 2 /\ opening \in {0} \cup Equity
  BY DEF Post, At, Sending, DayInv, Processes, Books, TypeInv
<1>2. CASE End(p) /\ UNCHANGED orders
  BY <1>1, <1>2, EndStep
<1>3. CASE InState(proc[p].req, "travelling") /\ Move(p, "answer", Stay)
  <2> DEFINE r == proc[p].req
  <2>1. r \in DOMAIN orders /\ orders[r].state = "unsent" /\ orders[r].state \notin Terminal
        /\ "travelling" \in States
    BY <1>1 DEF Right, HasOrder, At, DayInv, Books, TypeInv, Terminal, States
  <2>2. /\ Books' /\ DOMAIN orders' = DOMAIN orders /\ orders'[r].lots = orders[r].lots
        /\ \A q \in DOMAIN orders : q # r => orders'[q] = orders[q]
    BY <1>1, <1>3, <2>1, StateChanges DEF DayInv
  <2>3. \A q \in Proc : q # p => Leaves(q)
    <3>1. \A q \in Proc : q # p /\ At(q, "post") => proc[q].req # r
      BY <1>1 DEF DayInv, Processes, At
    <3> QED
      BY <1>1, <2>1, <2>2, <3>1, OrderLeaves DEF DayInv
  <2>4. /\ proc' \in [Proc -> Locals] /\ \A q \in Proc : q # p => proc'[q] = proc[q]
        /\ proc'[p].pc = "answer" /\ proc'[p].job = proc[p].job /\ proc'[p].todo = proc[p].todo
        /\ proc'[p].next = proc[p].next /\ proc'[p].projected = proc[p].projected
        /\ proc'[p].req = proc[p].req /\ proc'[p].seen = proc[p].seen
    BY <1>1, <1>3, StayIs DEF Pcs
  <2>5. HasPlan(p)' /\ IsPlanning(p)'
    BY <1>1, <2>4 DEF Right, HasPlan, IsPlanning, Working, Sending, Job
  <2>6. HasOrder(p)'
    BY <1>1, <2>4 DEF Right, HasOrder, Sending, Job, Intent, At
  <2>7. proc'[p].seen = Idle.seen
    BY <1>1, <2>4 DEF Right, SawTheTruth, Looking
  <2>8. SawTheTruth(p)'
    BY <2>7 DEF SawTheTruth, Idle
  <2>9. proc'[p].todo \subseteq Request'
    BY <2>2, <2>4 DEF DayInv, Processes, Request
  <2> QED
    BY <2>2, <2>3, <2>4, <2>5, <2>6, <2>8, <2>9, ProcessesStayRight DEF DayInv, Right
<1> QED
  BY <1>2, <1>3 DEF Post

(* A process that executes a plan and has no order under way.              *)
LEMMA ExecutingIs ==
  ASSUME DayInv, NEW p \in Proc, At(p, "execute")
  PROVE  /\ proc \in [Proc -> Locals] /\ Right(p) /\ Books
         /\ proc[p].job \in DOMAIN artifacts /\ artifacts[proc[p].job].phase # "none"
         /\ DOMAIN artifacts[proc[p].job].intents \in SUBSET Nat /\ proc[p].next \in Nat
         /\ proc[p].seen = Idle.seen /\ proc[p].todo \subseteq Request
         /\ clock \in 0 .. 2 /\ opening \in {0} \cup Equity
         /\ \A i \in DOMAIN artifacts[proc[p].job].intents :
              proc[p].next <= i =>
                proc[p].projected[artifacts[proc[p].job].intents[i].sec] =
                  artifacts[proc[p].job].position[artifacts[proc[p].job].intents[i].sec]
<1>1. proc \in [Proc -> Locals] /\ Right(p) /\ Books /\ proc[p].pc = "execute"
      /\ proc[p].todo \subseteq Request
  BY DEF DayInv, Processes, At
<1>2. /\ proc[p].job \in DOMAIN artifacts /\ artifacts[proc[p].job].phase # "none"
      /\ \A i \in DOMAIN artifacts[proc[p].job].intents :
           proc[p].next <= i =>
             proc[p].projected[artifacts[proc[p].job].intents[i].sec] =
               artifacts[proc[p].job].position[artifacts[proc[p].job].intents[i].sec]
  BY <1>1 DEF Right, HasPlan, Working, Job
<1>3. artifacts[proc[p].job].intents \in Plans /\ proc[p].next \in Nat
  BY <1>1, <1>2, FileTyped, ProcessTyped DEF Books
<1>4. proc[p].seen = Idle.seen
  BY <1>1 DEF Right, SawTheTruth, Looking
<1> QED
  BY <1>1, <1>2, <1>3, <1>4, PlanTyped DEF Books, TypeInv

(* An intent is reserved, was done before, or is refused.                  *)
LEMMA ReserveKeeps ==
  ASSUME DayInv, NEW p \in Proc, Reserve(p), UNCHANGED <<marked, clock, opening>>
  PROVE  DayInv'
<1> DEFINE a == proc[p].job
           i == proc[p].next
           intent == Intent(p)
           n == Len(rows) + 1
<1>1. /\ UNCHANGED <<artifacts, position>> /\ proc[p].pc = "execute" /\ At(p, "execute")
      /\ i \in DOMAIN artifacts[a].intents /\ intent = artifacts[a].intents[i]
  BY DEF Reserve, At, Batch, Intent, Job
<1>2. /\ proc \in [Proc -> Locals] /\ Right(p) /\ Books
      /\ a \in DOMAIN artifacts /\ artifacts[a].phase # "none"
      /\ DOMAIN artifacts[a].intents \in SUBSET Nat /\ i \in Nat
      /\ proc[p].seen = Idle.seen /\ proc[p].todo \subseteq Request
      /\ clock \in 0 .. 2 /\ opening \in {0} \cup Equity
      /\ \A j \in DOMAIN artifacts[a].intents :
           i <= j => proc[p].projected[artifacts[a].intents[j].sec] =
                       artifacts[a].position[artifacts[a].intents[j].sec]
  BY <1>1, ExecutingIs
<1>3. CASE End(p) /\ UNCHANGED <<rows, orders>>
  BY <1>1, <1>2, <1>3, EndStep
<1>4. CASE Move(p, "execute", NextIntent(p)) /\ UNCHANGED <<rows, orders>>
  <2> DEFINE change == NextIntent(p)
  <2>1. DOMAIN change = {"next"} /\ change["next"] = i + 1
    BY DEF NextIntent
  <2>2. Change(change)
    BY <1>2, <2>1 DEF Change
  <2>3. Move(p, "execute", change)
    BY <1>4
  <2> HIDE DEF change
  <2>4. /\ proc' \in [Proc -> Locals] /\ \A q \in Proc : q # p => proc'[q] = proc[q]
        /\ proc'[p].pc = "execute" /\ proc'[p].job = a /\ proc'[p].todo = proc[p].todo
        /\ proc'[p].next = i + 1 /\ proc'[p].projected = proc[p].projected
        /\ proc'[p].seen = Idle.seen
    BY <1>2, <2>1, <2>2, <2>3, MoveIs DEF Pcs
  <2>5. \A j \in DOMAIN artifacts[a].intents :
           i + 1 <= j => proc[p].projected[artifacts[a].intents[j].sec] =
                           artifacts[a].position[artifacts[a].intents[j].sec]
    BY <1>2
  <2>6. HasPlan(p)'
    BY <1>1, <1>2, <2>4, <2>5 DEF HasPlan, Job, Working
  <2>7. IsPlanning(p)' /\ HasOrder(p)' /\ SawTheTruth(p)'
    BY <2>4 DEF IsPlanning, HasOrder, SawTheTruth, Sending, At, Idle
  <2> QED
    BY <1>1, <1>2, <1>4, <2>4, <2>6, <2>7, LocalStep DEF Right
<1>5. CASE /\ Reservation(a, intent) = "request"
           /\ RequestAppended(a, intent)
           /\ Move(p, "post", [req |-> Len(rows) + 1])
  <2>1. /\ Books' /\ DOMAIN rows' = DOMAIN rows \cup {n} /\ n \notin DOMAIN rows
        /\ rows'[n].intent = intent /\ rows'[n].plan = a /\ orders'[n].state = "unsent"
        /\ \A r \in DOMAIN rows : rows'[r] = rows[r] /\ orders'[r] = orders[r]
    <3>1. UNCHANGED <<artifacts, position, marked, clock, opening>>
      BY <1>1
    <3> HIDE DEF a, i, intent
    <3> QED
      BY <1>1, <1>2, <1>5, <3>1, RowReserved
  <2> DEFINE change == [req |-> n]
  <2>2. /\ DOMAIN change = {"req"} /\ change["req"] = n /\ n \in Nat
    BY <1>2 DEF Books, TypeInv
  <2>3. Change(change) /\ Move(p, "post", change)
    BY <1>5, <2>2 DEF Change
  <2> HIDE DEF change
  <2>4. /\ proc' \in [Proc -> Locals] /\ \A q \in Proc : q # p => proc'[q] = proc[q]
        /\ proc'[p].pc = "post" /\ proc'[p].job = a /\ proc'[p].todo = proc[p].todo
        /\ proc'[p].next = i /\ proc'[p].projected = proc[p].projected
        /\ proc'[p].req = n /\ proc'[p].seen = Idle.seen
    BY <1>2, <2>2, <2>3, MoveIs DEF Pcs
  <2>5. \A q \in Proc : Leaves(q)
    <3>1. \A q \in Proc : At(q, "post") => proc[q].req \in DOMAIN rows
      BY DEF DayInv, Processes, Right, HasOrder, At, Sending
    <3> QED
      BY <1>1, <2>1, <3>1 DEF Leaves
  <2>6. HasPlan(p)'
    BY <1>1, <1>2, <2>4 DEF HasPlan, Job, Working
  <2>7. HasOrder(p)'
    BY <1>1, <2>1, <2>4 DEF HasOrder, Job, Intent, At, Sending
  <2>8. IsPlanning(p)' /\ SawTheTruth(p)'
    BY <2>4 DEF IsPlanning, SawTheTruth, Sending, At, Idle
  <2>9. proc'[p].todo \subseteq Request'
    <3>1. DOMAIN orders = DOMAIN rows /\ DOMAIN orders' = DOMAIN rows'
      BY <1>2, <2>1 DEF Books, TypeInv
    <3> QED
      BY <1>2, <2>1, <2>4, <3>1 DEF Request
  <2> QED
    BY <1>2, <2>1, <2>4, <2>5, <2>6, <2>7, <2>8, <2>9, ProcessesStayRight DEF DayInv, Right
<1>6. Reserve(p) => \/ End(p) /\ UNCHANGED <<rows, orders>>
                    \/ Move(p, "execute", NextIntent(p)) /\ UNCHANGED <<rows, orders>>
                    \/ /\ Reservation(a, intent) = "request"
                       /\ RequestAppended(a, intent)
                       /\ Move(p, "post", [req |-> Len(rows) + 1])
  <2> HIDE DEF a, i, intent
  <2> QED
    BY DEF Reserve, a, intent, RequestAppended
<1> QED
  BY <1>3, <1>4, <1>5, <1>6

(* A batch ends.                                                            *)
LEMMA ExecutedKeeps ==
  ASSUME DayInv, NEW p \in Proc, Executed(p), UNCHANGED <<marked, clock, opening>>
  PROVE  DayInv'
<1>1. End(p) /\ UNCHANGED <<rows, orders, artifacts, position>>
      /\ clock \in 0 .. 2 /\ opening \in {0} \cup Equity
  BY DEF Executed, DayInv, Books, TypeInv
<1> QED
  BY <1>1, EndStep

(* What a process knows of the order it records.                           *)
LEMMA SawIs ==
  ASSUME DayInv, NEW p \in Proc, proc[p].pc \in Looking
  PROVE  /\ proc[p].req \in DOMAIN rows /\ proc[p].req \in DOMAIN orders /\ proc[p].seen \in Sights
         /\ proc[p].seen.filled <= orders[proc[p].req].lots
         /\ proc[p].seen.status \in Terminal =>
              /\ orders[proc[p].req].state = proc[p].seen.status
              /\ orders[proc[p].req].filled = proc[p].seen.filled
<1>1. proc[p].req \in DOMAIN rows /\ proc[p].req \in DOMAIN orders
  BY DEF DayInv, Processes, Right, HasOrder, Looking, Sending, At, Books, TypeInv
<1>2. orders[proc[p].req].lots \in Nat /\ proc[p].seen \in Sights
  BY <1>1, OrderTyped, ProcessTyped DEF DayInv, Books, Processes
<1>3. SawTheTruth(p)
  BY DEF DayInv, Processes, Right
<1> QED
  BY <1>1, <1>2, <1>3, IdleTyped DEF SawTheTruth

(* What a process has seen is recorded.                                    *)
LEMMA SeenIsRecorded ==
  ASSUME DayInv, NEW p \in Proc, proc[p].pc \in Looking,
         Recordable(proc[p].req, proc[p].seen), Record(proc[p].req, proc[p].seen),
         UNCHANGED <<orders, artifacts, position, marked, clock, opening>>
  PROVE  /\ Books' /\ DOMAIN rows' = DOMAIN rows
         /\ \A r \in DOMAIN rows : rows'[r].intent = rows[r].intent /\ rows'[r].plan = rows[r].plan
         /\ \A q \in Proc : Leaves(q)
<1> DEFINE r == proc[p].req
           seen == proc[p].seen
<1>1. /\ r \in DOMAIN rows /\ seen \in Sights /\ seen.filled <= orders[r].lots
      /\ seen.status \in Terminal => orders[r].state = seen.status /\ orders[r].filled = seen.filled
      /\ Recordable(r, seen) /\ Record(r, seen) /\ Books
  BY SawIs DEF DayInv
<1> HIDE DEF r, seen
<1>2. Books'
  BY <1>1, RowRecorded
<1>3. /\ DOMAIN rows' = DOMAIN rows
      /\ \A q \in DOMAIN rows : rows'[q].intent = rows[q].intent /\ rows'[q].plan = rows[q].plan
  BY <1>1, RecordIs DEF Books
<1>4. \A q \in Proc : Leaves(q)
  BY <1>3 DEF Leaves
<1> QED
  BY <1>2, <1>3, <1>4

(* The answer of the broker is recorded.                                    *)
LEMMA RecordAnswerKeeps ==
  ASSUME DayInv, NEW p \in Proc, RecordAnswer(p), UNCHANGED <<marked, clock, opening>>
  PROVE  DayInv'
<1>1. /\ UNCHANGED <<artifacts, orders, position>> /\ proc[p].pc = "record"
      /\ proc[p].pc \in Looking /\ proc[p].pc \in Sending
      /\ proc \in [Proc -> Locals] /\ Right(p) /\ proc[p].todo \subseteq Request
      /\ clock \in 0 .. 2 /\ opening \in {0} \cup Equity
  BY DEF RecordAnswer, At, Looking, Sending, DayInv, Processes, Books, TypeInv
<1>2. CASE End(p) /\ UNCHANGED rows
  BY <1>1, <1>2, EndStep
<1>3. CASE /\ Recordable(proc[p].req, proc[p].seen) /\ Record(proc[p].req, proc[p].seen)
           /\ Move(p, IF proc[p].seen.status \in Terminal THEN "settled" ELSE "poll", Stay)
  <2>1. /\ Books' /\ DOMAIN rows' = DOMAIN rows
        /\ \A r \in DOMAIN rows : rows'[r].intent = rows[r].intent /\ rows'[r].plan = rows[r].plan
        /\ \A q \in Proc : Leaves(q)
    BY <1>1, <1>3, SeenIsRecorded
  <2>2. PICK pc \in {"settled", "poll"} : Move(p, pc, Stay)
    BY <1>3
  <2>3. /\ proc' \in [Proc -> Locals] /\ \A q \in Proc : q # p => proc'[q] = proc[q]
        /\ proc'[p].pc = pc /\ proc'[p].job = proc[p].job /\ proc'[p].todo = proc[p].todo
        /\ proc'[p].next = proc[p].next /\ proc'[p].projected = proc[p].projected
        /\ proc'[p].req = proc[p].req /\ proc'[p].seen = proc[p].seen
    BY <1>1, <2>2, StayIs DEF Pcs
  <2>4. HasPlan(p)'
    BY <1>1, <2>3 DEF Right, HasPlan, Working, Sending, Job
  <2>5. HasOrder(p)'
    BY <1>1, <2>1, <2>3 DEF Right, HasOrder, Sending, Job, Intent, At
  <2>6. IsPlanning(p)' /\ SawTheTruth(p)'
    BY <1>1, <2>1, <2>3 DEF Right, IsPlanning, SawTheTruth, Looking
  <2> QED
    BY <1>1, <2>1, <2>3, <2>4, <2>5, <2>6, ProcessesStayRight DEF DayInv, Right, Request
<1> QED
  BY <1>2, <1>3 DEF RecordAnswer

(* The settled state is recorded and projected on the next intents of the   *)
(* batch, which are of other instruments.                                   *)
LEMMA SettledKeeps ==
  ASSUME DayInv, NEW p \in Proc, Settled(p), UNCHANGED <<marked, clock, opening>>
  PROVE  DayInv'
<1> DEFINE r == proc[p].req
           a == proc[p].job
           projected == [proc[p].projected EXCEPT
                           ![orders[r].sec] = @ + orders[r].side * proc[p].seen.filled]
           change == [next |-> proc[p].next + 1, req |-> NoRow, seen |-> Idle.seen,
                      projected |-> projected]
<1>1. /\ UNCHANGED <<artifacts, orders, position>> /\ proc[p].pc = "settled"
      /\ proc[p].pc \in Looking /\ proc[p].pc \in Sending /\ proc[p].pc \in Working
      /\ proc \in [Proc -> Locals] /\ Right(p) /\ Books /\ proc[p].todo \subseteq Request
      /\ clock \in 0 .. 2 /\ opening \in {0} \cup Equity
  BY DEF Settled, At, Looking, Sending, Working, DayInv, Processes, Books, TypeInv
<1>2. CASE End(p) /\ UNCHANGED rows
  BY <1>1, <1>2, EndStep
<1>3. ASSUME Recordable(r, proc[p].seen), Record(r, proc[p].seen)
      PROVE  /\ Books' /\ DOMAIN rows' = DOMAIN rows
             /\ \A q \in DOMAIN rows : rows'[q].intent = rows[q].intent /\ rows'[q].plan = rows[q].plan
             /\ \A q \in Proc : Leaves(q)
  BY <1>1, <1>3, SeenIsRecorded
<1>4. CASE Recordable(r, proc[p].seen) /\ Record(r, proc[p].seen) /\ End(p)
  <2>1. /\ proc' \in [Proc -> Locals] /\ \A q \in Proc : q # p => proc'[q] = proc[q]
        /\ Right(p)' /\ proc'[p].todo = {} /\ proc'[p].pc # "post"
    BY <1>1, <1>4, EndIs, IdleIsRight
  <2> QED
    BY <1>3, <1>4, <2>1, ProcessesStayRight DEF DayInv
<1>5. CASE Recordable(r, proc[p].seen) /\ Record(r, proc[p].seen) /\ Move(p, "execute", change)
  <2>1. /\ a \in DOMAIN artifacts /\ artifacts[a].phase # "none"
        /\ proc[p].next \in DOMAIN artifacts[a].intents /\ r \in DOMAIN rows
        /\ rows[r].intent = artifacts[a].intents[proc[p].next]
        /\ \A i \in DOMAIN artifacts[a].intents :
             proc[p].next <= i =>
               proc[p].projected[artifacts[a].intents[i].sec] =
                 artifacts[a].position[artifacts[a].intents[i].sec]
    BY <1>1 DEF Right, HasPlan, HasOrder, Job, Intent
  <2>2. orders[r].sec = artifacts[a].intents[proc[p].next].sec
    BY <1>1, <2>1 DEF Books, RowsAreOfPlans, RowIsOfPlan
  <2>3. DOMAIN artifacts[a].intents \in SUBSET Nat /\ proc[p].next \in Nat
    BY <1>1, <2>1, FileTyped, PlanTyped, ProcessTyped DEF Books
  <2>4. /\ projected \in [Secs -> Int]
        /\ \A s \in Secs : s # orders[r].sec => projected[s] = proc[p].projected[s]
    <3>1. /\ proc[p].projected \in [Secs -> Int] /\ proc[p].seen.filled \in Nat
          /\ orders[r].sec \in Secs /\ orders[r].side \in {-1, 1}
      BY <1>1, <2>1, ProcessTyped, OrderTyped DEF Books, TypeInv
    <3>2. proc[p].projected[orders[r].sec] + orders[r].side * proc[p].seen.filled \in Int
      <4>1. CASE orders[r].side = 1
        BY <3>1, <4>1
      <4>2. CASE orders[r].side = -1
        BY <3>1, <4>2
      <4> QED
        BY <3>1, <4>1, <4>2
    <3> QED
      BY <3>1, <3>2
  <2> HIDE DEF projected
  <2>5. /\ DOMAIN change = {"next", "req", "seen", "projected"} /\ change["next"] = proc[p].next + 1
        /\ change["req"] = NoRow /\ change["seen"] = Idle.seen /\ change["projected"] = projected
    OBVIOUS
  <2>6. Move(p, "execute", change)
    BY <1>5
  <2> HIDE DEF change
  <2>7. Change(change)
    BY <2>3, <2>4, <2>5, IdleTyped DEF Change
  <2>8. /\ proc' \in [Proc -> Locals] /\ \A q \in Proc : q # p => proc'[q] = proc[q]
        /\ proc'[p].pc = "execute" /\ proc'[p].job = a /\ proc'[p].todo = proc[p].todo
        /\ proc'[p].next = proc[p].next + 1 /\ proc'[p].projected = projected
        /\ proc'[p].seen = Idle.seen
    BY <1>1, <2>5, <2>6, <2>7, MoveIs DEF Pcs
  <2>9. \A i \in DOMAIN artifacts[a].intents :
          proc[p].next + 1 <= i =>
            projected[artifacts[a].intents[i].sec] = artifacts[a].position[artifacts[a].intents[i].sec]
    <3> SUFFICES ASSUME NEW i \in DOMAIN artifacts[a].intents, proc[p].next + 1 <= i
                 PROVE  projected[artifacts[a].intents[i].sec] =
                          artifacts[a].position[artifacts[a].intents[i].sec]
      OBVIOUS
    <3>1. proc[p].next <= i /\ proc[p].next # i
      BY <2>3
    <3>2. artifacts[a].intents[i].sec # orders[r].sec
      BY <1>1, <2>1, <2>2, <3>1 DEF Books, PlansAreSound, SoundPlan
    <3>3. artifacts[a].intents[i].sec \in Secs
      BY <1>1, <2>1, FileTyped, PlanTyped, IntentTyped DEF Books
    <3> QED
      BY <2>1, <2>4, <3>1, <3>2, <3>3
  <2>10. HasPlan(p)'
    BY <1>1, <2>1, <2>8, <2>9 DEF HasPlan, Job, Working
  <2>11. IsPlanning(p)' /\ HasOrder(p)' /\ SawTheTruth(p)'
    BY <2>8 DEF IsPlanning, HasOrder, SawTheTruth, Sending, At, Idle
  <2> QED
    BY <1>1, <1>3, <1>5, <2>8, <2>10, <2>11, ProcessesStayRight DEF DayInv, Right, Request
<1> QED
  BY <1>2, <1>4, <1>5 DEF Settled

(* The journal is reconciled.                                              *)
LEMMA LookupRowKeeps ==
  ASSUME DayInv, NEW p \in Proc, LookupRow(p, IF p = Timer THEN "portfolio" ELSE "idle"),
         UNCHANGED <<marked, clock, opening>>
  PROVE  DayInv'
<1> DEFINE pc == IF p = Timer THEN "portfolio" ELSE "idle"
<1>1. /\ UNCHANGED <<rows, artifacts, orders, position, marked, clock, opening>> /\ proc[p].pc = "lookup"
      /\ proc \in [Proc -> Locals] /\ Books /\ proc[p].todo \subseteq Request
      /\ clock \in 0 .. 2 /\ opening \in {0} \cup Equity
  BY DEF LookupRow, At, DayInv, Processes, Books, TypeInv
<1>2. CASE Move(p, pc, Forget)
  <2>1. pc \in Pcs /\ (pc = "portfolio" => p = Timer) /\ pc \in {"portfolio", "idle"}
    BY DEF Pcs
  <2> HIDE DEF pc
  <2>2. /\ proc' \in [Proc -> Locals] /\ \A q \in Proc : q # p => proc'[q] = proc[q]
        /\ proc'[p].pc = pc /\ proc'[p].todo = proc[p].todo /\ proc'[p].seen = Idle.seen
    <3>1. Forget = [req |-> NoRow, seen |-> Idle.seen] /\ Idle.seen \in Sights /\ NoRow \in Nat
      BY IdleTyped DEF Forget
    <3> QED
      BY <1>1, <1>2, <2>1, <3>1, FindsIs
  <2>3. HasPlan(p)' /\ IsPlanning(p)' /\ HasOrder(p)' /\ SawTheTruth(p)'
    BY <2>1, <2>2 DEF HasPlan, IsPlanning, HasOrder, SawTheTruth, Working, Sending, At, Idle
  <2> QED
    BY <1>1, <2>1, <2>2, <2>3, LocalStep DEF Right
<1>3. ASSUME NEW r \in Unresolved,
             NEW seen \in {Seen(r).seen, [status |-> "unknown", filled |-> rows[r].filled]},
             Move(p, "found", [req |-> r, seen |-> seen])
      PROVE  DayInv'
  <2>1. r \in DOMAIN rows /\ r \in Nat /\ r \in DOMAIN orders
    BY <1>1 DEF Unresolved, Books, TypeInv
  <2>2. /\ seen \in Sights /\ seen.filled <= orders[r].lots
        /\ seen.status \in Terminal => orders[r].state = seen.status /\ orders[r].filled = seen.filled
    <3>1. CASE seen = Seen(r).seen
      BY <1>1, <2>1, <3>1, SeenIs
    <3>2. CASE seen = [status |-> "unknown", filled |-> rows[r].filled]
      <4>1. rows[r].filled \in Nat /\ rows[r].filled <= orders[r].lots
        BY <1>1, <2>1, RowTyped DEF Books, RowsAreOfPlans, RowIsOfPlan
      <4> QED
        BY <3>2, <4>1 DEF Sights, Statuses, Terminal
    <3> QED
      BY <1>3, <3>1, <3>2
  <2>3. /\ proc' \in [Proc -> Locals] /\ \A q \in Proc : q # p => proc'[q] = proc[q]
        /\ proc'[p].pc = "found" /\ proc'[p].todo = proc[p].todo
        /\ proc'[p].req = r /\ proc'[p].seen = seen
    BY <1>1, <1>3, <2>1, <2>2, FindsIs DEF Pcs
  <2>4. HasPlan(p)' /\ IsPlanning(p)'
    BY <2>3 DEF HasPlan, IsPlanning, Working, Sending
  <2>5. HasOrder(p)'
    BY <1>1, <2>1, <2>3 DEF HasOrder, Sending, At
  <2>6. SawTheTruth(p)'
    BY <1>1, <2>1, <2>2, <2>3 DEF SawTheTruth, Looking
  <2> QED
    BY <1>1, <2>3, <2>4, <2>5, <2>6, LocalStep DEF Right
<1> QED
  BY <1>2, <1>3 DEF LookupRow

(* What reconcile_execution_journal() found is recorded.                    *)
LEMMA RecordFoundKeeps ==
  ASSUME DayInv, NEW p \in Proc, RecordFound(p), UNCHANGED <<marked, clock, opening>>
  PROVE  DayInv'
<1>1. /\ UNCHANGED <<artifacts, orders, position>> /\ proc[p].pc = "found" /\ proc[p].pc \in Looking
      /\ proc \in [Proc -> Locals] /\ Books /\ proc[p].todo \subseteq Request
      /\ clock \in 0 .. 2 /\ opening \in {0} \cup Equity
  BY DEF RecordFound, At, Looking, DayInv, Processes, Books, TypeInv
<1>2. CASE End(p) /\ UNCHANGED rows
  BY <1>1, <1>2, EndStep
<1>3. CASE Recordable(proc[p].req, proc[p].seen) /\ Record(proc[p].req, proc[p].seen)
  <2>1. /\ Books' /\ DOMAIN rows' = DOMAIN rows /\ \A q \in Proc : Leaves(q)
    BY <1>1, <1>3, SeenIsRecorded
  <2>2. CASE End(p)
    <3>1. /\ proc' \in [Proc -> Locals] /\ \A q \in Proc : q # p => proc'[q] = proc[q]
          /\ Right(p)' /\ proc'[p].todo = {} /\ proc'[p].pc # "post"
      BY <1>1, <2>2, EndIs, IdleIsRight
    <3> QED
      BY <2>1, <3>1, ProcessesStayRight DEF DayInv
  <2>3. CASE Move(p, "lookup", Forget)
    <3>1. Forget = [req |-> NoRow, seen |-> Idle.seen] /\ Idle.seen \in Sights /\ NoRow \in Nat
      BY IdleTyped DEF Forget
    <3>2. /\ proc' \in [Proc -> Locals] /\ \A q \in Proc : q # p => proc'[q] = proc[q]
          /\ proc'[p].pc = "lookup" /\ proc'[p].todo = proc[p].todo /\ proc'[p].seen = Idle.seen
      BY <1>1, <2>3, <3>1, FindsIs DEF Pcs
    <3>3. HasPlan(p)' /\ IsPlanning(p)' /\ HasOrder(p)' /\ SawTheTruth(p)'
      BY <3>2 DEF HasPlan, IsPlanning, HasOrder, SawTheTruth, Working, Sending, At, Idle
    <3> QED
      BY <1>1, <2>1, <3>2, <3>3, ProcessesStayRight DEF DayInv, Right, Request
  <2> QED
    BY <1>3, <2>2, <2>3 DEF RecordFound
<1> QED
  BY <1>2, <1>3 DEF RecordFound

------------------------------------------------------------------------------
(* The steps of the cycle that read, and the commands that begin and end.  *)

(* The cycle reads the active orders.                                       *)
LEMMA StartCycleKeeps ==
  ASSUME DayInv, NEW p \in Proc, StartCycle(p)
  PROVE  DayInv'
<1> DEFINE change == [todo |-> Active]
<1>1. /\ UNCHANGED <<rows, orders, artifacts, position, marked, clock, opening>> /\ proc[p].pc = "idle"
      /\ proc \in [Proc -> Locals] /\ clock \in 0 .. 2 /\ opening \in {0} \cup Equity
      /\ proc[p].seen = Idle.seen
  BY DEF StartCycle, Kept, At, DayInv, Processes, Books, TypeInv, Right, SawTheTruth, Looking
<1>2. Active \in SUBSET Nat /\ Active \subseteq Request
  BY DEF Active, Request, DayInv, Books, TypeInv
<1>3. DOMAIN change = {"todo"} /\ change["todo"] = Active /\ Move(p, "cancel_active", change)
  BY DEF StartCycle
<1> HIDE DEF change
<1>4. Change(change)
  BY <1>2, <1>3 DEF Change
<1>5. /\ proc' \in [Proc -> Locals] /\ \A q \in Proc : q # p => proc'[q] = proc[q]
      /\ proc'[p].pc = "cancel_active" /\ proc'[p].todo = Active /\ proc'[p].seen = Idle.seen
  BY <1>1, <1>3, <1>4, MoveIs DEF Pcs
<1>6. HasPlan(p)' /\ IsPlanning(p)' /\ HasOrder(p)' /\ SawTheTruth(p)'
  BY <1>5 DEF HasPlan, IsPlanning, HasOrder, SawTheTruth, Working, Sending, At, Idle
<1> QED
  BY <1>1, <1>2, <1>5, <1>6, LocalStep DEF Right

(* The list of active orders is read again.                                 *)
LEMMA VerifyNoneActiveKeeps ==
  ASSUME DayInv, NEW p \in Proc, VerifyNoneActive(p)
  PROVE  DayInv'
<1>1. /\ UNCHANGED <<rows, orders, artifacts, position, marked, clock, opening>>
      /\ proc[p].pc = "cancel_active" /\ proc[p].todo \subseteq Request
      /\ proc \in [Proc -> Locals] /\ clock \in 0 .. 2 /\ opening \in {0} \cup Equity
      /\ proc[p].seen = Idle.seen
  BY DEF VerifyNoneActive, Kept, At, DayInv, Processes, Books, TypeInv, Right, SawTheTruth, Looking
<1>2. CASE End(p)
  BY <1>1, <1>2, EndStep
<1>3. CASE Move(p, "lookup", Stay)
  <2>1. /\ proc' \in [Proc -> Locals] /\ \A q \in Proc : q # p => proc'[q] = proc[q]
        /\ proc'[p].pc = "lookup" /\ proc'[p].todo = proc[p].todo /\ proc'[p].seen = Idle.seen
    BY <1>1, <1>3, StayIs DEF Pcs
  <2>2. HasPlan(p)' /\ IsPlanning(p)' /\ HasOrder(p)' /\ SawTheTruth(p)'
    BY <2>1 DEF HasPlan, IsPlanning, HasOrder, SawTheTruth, Working, Sending, At, Idle
  <2> QED
    BY <1>1, <2>1, <2>2, LocalStep DEF Right
<1> QED
  BY <1>2, <1>3 DEF VerifyNoneActive

(* A snapshot begins: the completed rows and the portfolio are read.        *)
LEMMA ReadPortfolioKeeps ==
  ASSUME DayInv, NEW p \in Proc, ReadPortfolio(p)
  PROVE  DayInv'
<1> DEFINE n == Len(artifacts) + 1
           change == [job |-> n]
           file == [completed |-> Completed, position |-> position, open |-> 0, at |-> clock,
                    intents |-> <<>>, phase |-> "none"]
<1>1. /\ UNCHANGED <<rows, orders, position, marked, clock, opening>> /\ proc[p].pc = "portfolio"
      /\ proc \in [Proc -> Locals] /\ Right(p) /\ Books /\ proc[p].todo \subseteq Request
      /\ proc[p].seen = Idle.seen /\ p = Timer
  BY DEF ReadPortfolio, Kept, At, DayInv, Processes, Right, SawTheTruth, Looking, IsPlanning
<1>2. artifacts' = Append(artifacts, file) /\ Move(p, "orders", change)
  BY DEF ReadPortfolio
<1>3. Books'
  BY <1>1, <1>2, SnapshotTaken
<1>4. /\ DOMAIN artifacts' = DOMAIN artifacts \cup {n} /\ n \in Nat
      /\ artifacts'[n] = file /\ \A a \in DOMAIN artifacts : artifacts'[a] = artifacts[a]
  <2> HIDE DEF file
  <2> QED
    BY <1>1, <1>2 DEF Books, TypeInv
<1>5. \A q \in Proc : Leaves(q)
  BY <1>1, <1>4 DEF Leaves
<1>6. DOMAIN change = {"job"} /\ change["job"] = n
  OBVIOUS
<1>7. artifacts'[n].phase = "none"
  BY <1>4
<1> HIDE DEF change, file, n
<1>8. Change(change)
  BY <1>4, <1>6 DEF Change
<1>9. /\ proc' \in [Proc -> Locals] /\ \A q \in Proc : q # p => proc'[q] = proc[q]
      /\ proc'[p].pc = "orders" /\ proc'[p].job = n /\ proc'[p].todo = proc[p].todo
      /\ proc'[p].seen = Idle.seen
  BY <1>1, <1>2, <1>6, <1>8, MoveIs DEF Pcs
<1>10. HasPlan(p)' /\ HasOrder(p)' /\ SawTheTruth(p)'
  BY <1>9 DEF HasPlan, HasOrder, SawTheTruth, Working, Sending, At, Idle
<1>11. IsPlanning(p)'
  BY <1>1, <1>4, <1>7, <1>9 DEF IsPlanning, Job
<1> QED
  BY <1>1, <1>3, <1>5, <1>9, <1>10, <1>11, ProcessesStayRight DEF DayInv, Right, Request

(* What is written into files without a plan is of no one but the timer.   *)
LEMMA PlanLeaves ==
  ASSUME Books, NEW a \in DOMAIN artifacts, artifacts[a].phase = "none", NEW new \in Files,
         new.position = artifacts[a].position, artifacts' = [artifacts EXCEPT ![a] = new],
         UNCHANGED <<rows, orders>>, NEW q \in Proc, q # Timer
  PROVE  Leaves(q)
<1>1. /\ DOMAIN artifacts' = DOMAIN artifacts /\ artifacts'[a] = new
      /\ \A b \in DOMAIN artifacts : b # a => artifacts'[b] = artifacts[b]
  BY ElementReplaced DEF Books, TypeInv
<1> QED
  BY <1>1 DEF Leaves

(* The active orders are read into the snapshot.                            *)
LEMMA ReadOrdersKeeps ==
  ASSUME DayInv, NEW p \in Proc, ReadOrders(p)
  PROVE  DayInv'
<1> DEFINE a == proc[p].job
           new == [artifacts[a] EXCEPT !.open = Cardinality(Active), !.at = clock]
<1>1. /\ UNCHANGED <<rows, orders, position, marked, clock, opening>> /\ proc[p].pc = "orders"
      /\ proc \in [Proc -> Locals] /\ Right(p) /\ Books /\ proc[p].todo \subseteq Request
      /\ proc[p].seen = Idle.seen /\ p = Timer
      /\ clock \in 0 .. 2 /\ opening \in {0} \cup Equity
      /\ a \in DOMAIN artifacts /\ artifacts[a].phase = "none"
  BY DEF ReadOrders, Kept, At, DayInv, Processes, Books, TypeInv, Right, SawTheTruth, Looking,
         IsPlanning, Job
<1>2. CASE End(p) /\ UNCHANGED artifacts
  BY <1>1, <1>2, EndStep
<1>3. CASE artifacts' = [artifacts EXCEPT ![a] = new] /\ Move(p, "plan", Stay)
  <2>1. Cardinality(Active) \in Nat
    <3>1. Len(orders) \in Nat /\ Active \subseteq 1 .. Len(orders)
      BY <1>1 DEF Active, Request, Books, TypeInv
    <3>2. IsFiniteSet(1 .. Len(orders))
      BY <3>1, FS_Interval
    <3> QED
      BY <3>1, <3>2, FS_Subset, FS_CardinalityType
  <2>2. artifacts[a] \in Files
    BY <1>1, FileTyped DEF Books
  <2>3. /\ new \in Files /\ new.completed = artifacts[a].completed
        /\ new.position = artifacts[a].position /\ new.intents = artifacts[a].intents
        /\ new.phase = "none"
    BY <1>1, <2>1, <2>2 DEF Files
  <2> HIDE DEF new
  <2>4. SoundPlan(new.intents, new.position, marked') /\ MarksAreBounded'
    BY <1>1, <2>3 DEF Books, PlansAreSound, MarksAreBounded
  <2>5. Books'
    BY <1>1, <1>3, <2>3, <2>4, PlanWritten
  <2>6. \A q \in Proc : q # p => Leaves(q)
    BY <1>1, <1>3, <2>3, PlanLeaves
  <2>7. DOMAIN artifacts' = DOMAIN artifacts /\ artifacts'[a] = new
    BY <1>1, <1>3, <2>3, ElementReplaced DEF Books, TypeInv
  <2>8. /\ proc' \in [Proc -> Locals] /\ \A q \in Proc : q # p => proc'[q] = proc[q]
        /\ proc'[p].pc = "plan" /\ proc'[p].job = a /\ proc'[p].todo = proc[p].todo
        /\ proc'[p].seen = Idle.seen
    BY <1>1, <1>3, StayIs DEF Pcs
  <2>9. HasPlan(p)' /\ HasOrder(p)' /\ SawTheTruth(p)'
    BY <2>8 DEF HasPlan, HasOrder, SawTheTruth, Working, Sending, At, Idle
  <2>10. IsPlanning(p)'
    BY <1>1, <2>3, <2>7, <2>8 DEF IsPlanning, Job
  <2> QED
    BY <1>1, <2>5, <2>6, <2>8, <2>9, <2>10, ProcessesStayRight DEF DayInv, Right, Request
<1> QED
  BY <1>2, <1>3 DEF ReadOrders

(* The execution of a written plan begins.                                 *)
LEMMA BeginStep ==
  ASSUME DayInv, NEW p \in Proc, proc[p].pc \notin Looking, NEW a \in DOMAIN artifacts,
         artifacts[a].phase # "none", Begin(p, a),
         UNCHANGED <<rows, orders, artifacts, position, marked, clock, opening>>
  PROVE  DayInv'
<1> DEFINE change == [job |-> a, next |-> 1, projected |-> artifacts[a].position]
<1>1. /\ proc \in [Proc -> Locals] /\ proc[p].todo \subseteq Request /\ Books
      /\ clock \in 0 .. 2 /\ opening \in {0} \cup Equity /\ proc[p].seen = Idle.seen
  BY DEF DayInv, Processes, Books, TypeInv, Right, SawTheTruth
<1>2. a \in Nat /\ artifacts[a].position \in [Secs -> Int]
  BY <1>1, FileTyped DEF Books
<1>3. /\ DOMAIN change = {"job", "next", "projected"} /\ change["job"] = a /\ change["next"] = 1
      /\ change["projected"] = artifacts[a].position
  OBVIOUS
<1>4. Move(p, "execute", change)
  BY DEF Begin
<1> HIDE DEF change
<1>5. Change(change)
  BY <1>2, <1>3 DEF Change
<1>6. /\ proc' \in [Proc -> Locals] /\ \A q \in Proc : q # p => proc'[q] = proc[q]
      /\ proc'[p].pc = "execute" /\ proc'[p].job = a /\ proc'[p].todo = proc[p].todo
      /\ proc'[p].projected = artifacts[a].position /\ proc'[p].seen = Idle.seen
  BY <1>1, <1>3, <1>4, <1>5, MoveIs DEF Pcs
<1>7. HasPlan(p)'
  BY <1>6 DEF HasPlan, Job, Working
<1>8. IsPlanning(p)' /\ HasOrder(p)' /\ SawTheTruth(p)'
  BY <1>6 DEF IsPlanning, HasOrder, SawTheTruth, Sending, At, Idle
<1> QED
  BY <1>1, <1>6, <1>7, <1>8, LocalStep DEF Right

(* The plan the cycle wrote is checked, and its execution begins.           *)
LEMMA CheckKeeps ==
  ASSUME DayInv, NEW p \in Proc, Check(p)
  PROVE  DayInv'
<1>1. /\ UNCHANGED <<rows, orders, artifacts, position, marked, clock, opening>>
      /\ proc[p].pc \notin Looking /\ proc[p].job \in DOMAIN artifacts
      /\ clock \in 0 .. 2 /\ opening \in {0} \cup Equity
  BY DEF Check, Kept, At, Looking, DayInv, Processes, Books, TypeInv, Right, HasPlan
<1>2. CASE Executable(proc[p].job, clock) /\ Begin(p, proc[p].job)
  BY <1>1, <1>2, BeginStep DEF Executable
<1>3. CASE End(p)
  BY <1>1, <1>3, EndStep
<1> QED
  BY <1>2, <1>3 DEF Check

(* An operator executes a written plan again, or reconciles the journal.    *)
LEMMA RerunKeeps ==
  ASSUME DayInv, NEW p \in Proc, Rerun(p)
  PROVE  DayInv'
<1>1. /\ UNCHANGED <<rows, orders, artifacts, position, marked, clock, opening>>
      /\ proc[p].pc = "idle" /\ proc[p].pc \notin Looking /\ proc[p].todo \subseteq Request
      /\ proc \in [Proc -> Locals] /\ clock \in 0 .. 2 /\ opening \in {0} \cup Equity
      /\ proc[p].seen = Idle.seen
  BY DEF Rerun, At, Looking, DayInv, Processes, Books, TypeInv, Right, SawTheTruth
<1>2. ASSUME NEW a \in DOMAIN artifacts, Executable(a, clock), Begin(p, a)
      PROVE  DayInv'
  BY <1>1, <1>2, BeginStep DEF Executable
<1>3. CASE Move(p, "lookup", Stay)
  <2>1. /\ proc' \in [Proc -> Locals] /\ \A q \in Proc : q # p => proc'[q] = proc[q]
        /\ proc'[p].pc = "lookup" /\ proc'[p].todo = proc[p].todo /\ proc'[p].seen = Idle.seen
    BY <1>1, <1>3, StayIs DEF Pcs
  <2>2. HasPlan(p)' /\ IsPlanning(p)' /\ HasOrder(p)' /\ SawTheTruth(p)'
    BY <2>1 DEF HasPlan, IsPlanning, HasOrder, SawTheTruth, Working, Sending, At, Idle
  <2> QED
    BY <1>1, <2>1, <2>2, LocalStep DEF Right
<1> QED
  BY <1>2, <1>3 DEF Rerun

(* A command is killed.                                                     *)
LEMMA KillKeeps ==
  ASSUME DayInv, NEW p \in Proc, Kill(p)
  PROVE  DayInv'
<1>1. End(p) /\ UNCHANGED <<rows, orders, artifacts, position, marked, clock, opening>>
      /\ clock \in 0 .. 2 /\ opening \in {0} \cup Equity
  BY DEF Kill, DayInv, Books, TypeInv
<1> QED
  BY <1>1, EndStep

(* Time passes.                                                             *)
LEMMA TickKeeps ==
  ASSUME DayInv, Tick
  PROVE  DayInv'
<1>1. /\ UNCHANGED <<rows, orders, artifacts, position, marked, opening, proc>> /\ clock' \in 0 .. 2
  BY DEF Tick, DayInv, Books, TypeInv
<1>2. Books'
  BY <1>1 DEF DayInv, Books, TypeInv, OrdersAreRight, RowsAreOfPlans, RowIsOfPlan, OnlyTheLastIsOpen,
         FinalRowsAreTrue, PlansAreSound, RowsAreInOrder, OneRowEach, SnapshotsHold, SnapshotHolds,
         Fresh, EntriesOnce, MarksAreBounded, Completed, Unresolved
<1> QED
  BY <1>1, <1>2, NothingLeavesAll, NobodyMoves DEF DayInv

(* Every step of an execution.                                              *)
LEMMA ExecuteKeeps ==
  ASSUME DayInv, NEW p \in Proc, Execute(p)
  PROVE  DayInv'
<1>1. UNCHANGED <<marked, clock, opening>>
  BY DEF Execute, Kept
<1> QED
  BY <1>1, ReserveKeeps, PostKeeps, ReadersGoOn, RecordAnswerKeeps, CancelOrderKeeps, SettledKeeps,
     ExecutedKeeps DEF Execute, ExecuteStep

(* Every step of the reconciliation of the journal.                         *)
LEMMA ReconcileJournalKeeps ==
  ASSUME DayInv, NEW p \in Proc, ReconcileJournal(p)
  PROVE  DayInv'
<1>1. UNCHANGED <<marked, clock, opening>>
  BY DEF ReconcileJournal, Kept
<1> QED
  BY <1>1, LookupRowKeeps, RecordFoundKeeps DEF ReconcileJournal

------------------------------------------------------------------------------
(* The plan.                                                               *)

(* A sequence made of a set has each of its elements at one place only.     *)
LEMMA SeqsOf ==
  ASSUME NEW S, NEW f \in SetToSeqs(S)
  PROVE  /\ DOMAIN f \in SUBSET Nat /\ \A i \in DOMAIN f : f[i] \in S /\ i >= 1
         /\ \A i, j \in DOMAIN f : f[i] = f[j] => i = j
BY DEF SetToSeqs

(* The side and the lots of an order that closes a position.                *)
LEMMA Opposite ==
  ASSUME NEW x \in Int, x # 0, NEW side, NEW lots,
         side = IF x > 0 THEN -1 ELSE 1, lots = IF x > 0 THEN x ELSE -x
  PROVE  side \in {-1, 1} /\ lots \in Nat /\ lots > 0 /\ side * lots = - x
<1>1. CASE x > 0
  <2>1. side = -1 /\ lots = x
    BY <1>1
  <2> QED
    BY <1>1, <2>1
<1>2. CASE ~(x > 0)
  <2>1. side = 1 /\ lots = -x /\ x < 0
    BY <1>2
  <2> QED
    BY <2>1
<1> QED
  BY <1>1, <1>2

ClosingRules == {"mandatory flat", "managed exit"}

(* An order that closes a position is of all of its lots.                  *)
LEMMA CloseIs ==
  ASSUME NEW pos \in [Secs -> Int], NEW s \in Held(pos), NEW id \in Ids,
         NEW rule \in ClosingRules
  PROVE  /\ Close(pos, s, id, rule) \in Intents /\ Close(pos, s, id, rule).sec = s
         /\ Close(pos, s, id, rule).lots > 0 /\ Close(pos, s, id, rule).rule = rule
         /\ ClosesAll(Close(pos, s, id, rule), pos[s])
<1> DEFINE order == Close(pos, s, id, rule)
<1>1. s \in Secs /\ pos[s] \in Int /\ pos[s] # 0
  BY DEF Held
<1>2. /\ order.id = id /\ order.sec = s /\ order.margin = FALSE /\ order.rule = rule
      /\ order.side = IF pos[s] > 0 THEN -1 ELSE 1
      /\ order.lots = IF pos[s] > 0 THEN pos[s] ELSE - pos[s]
  BY DEF Close
<1>3. /\ order = [id |-> order.id, sec |-> order.sec, side |-> order.side, lots |-> order.lots,
                  margin |-> order.margin, rule |-> order.rule]
  BY DEF Close
<1>4. /\ order.side \in {-1, 1} /\ order.lots \in Nat /\ order.lots > 0
      /\ order.side * order.lots = - pos[s]
  <2> DEFINE x == pos[s]
             side == order.side
             lots == order.lots
  <2>1. /\ x \in Int /\ x # 0
        /\ side = IF x > 0 THEN -1 ELSE 1
        /\ lots = IF x > 0 THEN x ELSE - x
    BY <1>1, <1>2
  <2> HIDE DEF x, side, lots
  <2>2. side \in {-1, 1} /\ lots \in Nat /\ lots > 0 /\ side * lots = - x
    BY <2>1, Opposite
  <2> QED
    BY <2>2 DEF x, side, lots
<1> HIDE DEF order
<1>5. order \in Intents
  BY <1>1, <1>2, <1>3, <1>4 DEF Intents, ClosingRules
<1> QED
  BY <1>2, <1>4, <1>5 DEF order, ClosesAll

(* A plan that closes the positions of a set of instruments.               *)
LEMMA ClosingIsSound ==
  ASSUME NEW pos \in [Secs -> Int], NEW set \in SUBSET Held(pos), NEW names \in ByName(set),
         NEW rule \in ClosingRules, NEW id, NEW marks,
         id \in [DOMAIN names -> Ids], NEW plan,
         plan = [i \in DOMAIN names |-> Close(pos, names[i], id[i], rule)]
  PROVE  plan \in Plans /\ SoundPlan(plan, pos, marks)
<1>1. /\ DOMAIN names \in SUBSET Nat /\ \A i \in DOMAIN names : names[i] \in Held(pos)
      /\ \A i, j \in DOMAIN names : names[i] = names[j] => i = j
  BY SeqsOf DEF ByName
<1>2. ASSUME NEW i \in DOMAIN names
      PROVE  /\ plan[i] \in Intents /\ plan[i].sec = names[i] /\ plan[i].lots > 0
             /\ plan[i].rule = rule /\ ClosesAll(plan[i], pos[plan[i].sec])
  <2> DEFINE order == Close(pos, names[i], id[i], rule)
  <2>1. plan[i] = order /\ names[i] \in Held(pos) /\ id[i] \in Ids
    BY <1>1
  <2>2. /\ order \in Intents /\ order.sec = names[i] /\ order.lots > 0 /\ order.rule = rule
        /\ ClosesAll(order, pos[names[i]])
    BY <2>1, CloseIs
  <2> HIDE DEF order
  <2> QED
    BY <2>1, <2>2, Zenon
<1>3. plan \in Plans
  <2>1. plan \in [DOMAIN names -> Intents]
    BY <1>2
  <2> QED
    BY <1>1, <2>1 DEF Plans
<1>4. DOMAIN plan = DOMAIN names
  OBVIOUS
<1>5. \A i, j \in DOMAIN plan : plan[i].sec = plan[j].sec => i = j
  <2> SUFFICES ASSUME NEW i \in DOMAIN names, NEW j \in DOMAIN names, plan[i].sec = plan[j].sec
               PROVE  i = j
    BY <1>4, Zenon
  <2>1. plan[i].sec = names[i] /\ plan[j].sec = names[j]
    BY <1>2, Zenon
  <2> QED
    BY <1>1, <2>1, Zenon
<1>6. \A i \in DOMAIN plan : plan[i].rule # "entry"
  BY <1>2, <1>4 DEF ClosingRules
<1> QED
  BY <1>2, <1>3, <1>4, <1>5, <1>6 DEF SoundPlan

(* _flatten_orders() closes every position it found.                        *)
LEMMA FlattenIsSound ==
  ASSUME NEW pos \in [Secs -> Int], NEW names \in ByName(Held(pos)), NEW marks
  PROVE  FlattenOrders(pos, names) \in Plans /\ SoundPlan(FlattenOrders(pos, names), pos, marks)
<1> DEFINE id == [i \in DOMAIN names |-> <<"flat", names[i]>>]
           plan == FlattenOrders(pos, names)
<1>1. id \in [DOMAIN names -> Ids]
  BY SeqsOf DEF ByName, Held, Ids
<1>2. plan = [i \in DOMAIN names |-> Close(pos, names[i], id[i], "mandatory flat")]
  BY DEF FlattenOrders
<1>3. "mandatory flat" \in ClosingRules /\ Held(pos) \in SUBSET Held(pos)
  BY DEF ClosingRules
<1> HIDE DEF id, plan
<1> QED
  BY <1>1, <1>2, <1>3, ClosingIsSound, Zenon DEF plan

(* _position_exit_orders() closes some of the positions it found.           *)
LEMMA ExitsAreSound ==
  ASSUME NEW pos \in [Secs -> Int], NEW exits \in SUBSET Held(pos), NEW names \in ByName(exits),
         NEW a \in Nat, NEW marks
  PROVE  ExitOrders(pos, names, a) \in Plans /\ SoundPlan(ExitOrders(pos, names, a), pos, marks)
<1> DEFINE id == [i \in DOMAIN names |-> <<"exit", names[i], a>>]
           plan == ExitOrders(pos, names, a)
<1>1. id \in [DOMAIN names -> Ids]
  BY SeqsOf DEF ByName, Held, Ids
<1>2. plan = [i \in DOMAIN names |-> Close(pos, names[i], id[i], "managed exit")]
  BY DEF ExitOrders
<1>3. "managed exit" \in ClosingRules
  BY DEF ClosingRules
<1> HIDE DEF id, plan
<1> QED
  BY <1>1, <1>2, <1>3, ClosingIsSound, Zenon DEF plan

(* The orders of the entries: of one instrument each, each with its mark.  *)
LEMMA EntriesAreSound ==
  ASSUME NEW pos \in [Secs -> Int], NEW signals \in [Secs -> {-1, 0, 1}], NEW bar \in Bars,
         NEW capital \in Capital, NEW ranking \in SetToSeqs(Eligible(pos, signals, bar)), NEW marks,
         NEW plan, plan = EntryOrders(pos, signals, bar, capital, ranking),
         {<<plan[i].sec, bar, plan[i].side>> : i \in DOMAIN plan} \subseteq marks
  PROVE  /\ plan \in Plans /\ SoundPlan(plan, pos, marks)
         /\ DOMAIN plan = Entered(pos, capital, ranking)
<1> DEFINE slots == Entered(pos, capital, ranking)
<1>1. /\ DOMAIN ranking \in SUBSET Nat
      /\ \A i \in DOMAIN ranking : ranking[i] \in Eligible(pos, signals, bar)
      /\ \A i, j \in DOMAIN ranking : ranking[i] = ranking[j] => i = j
  BY SeqsOf
<1>2. \A i \in DOMAIN ranking : ranking[i] \in Secs /\ signals[ranking[i]] \in {-1, 1}
  BY <1>1 DEF Eligible
<1>3. slots \subseteq DOMAIN ranking /\ slots \in SUBSET Nat
  BY <1>1 DEF Entered
<1>4. plan = [i \in slots |-> EntryOrder(ranking[i], signals[ranking[i]], bar,
                                         capital - (i - 1) * MaxLots)]
  BY DEF EntryOrders
<1>5. \A i \in slots : capital - (i - 1) * MaxLots \in Nat /\ capital - (i - 1) * MaxLots > 0
  <2> TAKE i \in slots
  <2>1. i \in Nat /\ capital \in Nat /\ MaxLots \in Nat /\ (i - 1) * MaxLots < capital
    BY <1>3, DayAssumption DEF Entered
  <2>2. (i - 1) * MaxLots \in Int
    BY <2>1
  <2> DEFINE spent == (i - 1) * MaxLots
  <2> HIDE DEF spent
  <2>3. capital - spent \in Nat /\ capital - spent > 0
    BY <2>1, <2>2 DEF spent
  <2> QED
    BY <2>3 DEF spent
<1> HIDE DEF slots
<1>6. ASSUME NEW i \in slots
      PROVE  /\ plan[i] \in Intents /\ plan[i].sec = ranking[i] /\ plan[i].lots > 0
             /\ plan[i].rule = "entry" /\ plan[i].id = <<"entry", plan[i].sec, bar, plan[i].side>>
  <2> DEFINE s == ranking[i]
             side == signals[ranking[i]]
             left == capital - (i - 1) * MaxLots
             lots == IF MaxLots < left THEN MaxLots ELSE left
  <2>1. s \in Secs /\ side \in {-1, 1} /\ left \in Nat /\ left > 0
    BY <1>2, <1>3, <1>5
  <2>2. plan[i] = EntryOrder(s, side, bar, left)
    BY <1>4
  <2> HIDE DEF left, s, side
  <2>3. lots \in Nat /\ lots > 0
    BY <2>1, DayAssumption
  <2>4. plan[i] = [id |-> <<"entry", s, bar, side>>, sec |-> s, side |-> side, lots |-> lots,
                   margin |-> side = -1, rule |-> "entry"]
    BY <2>2 DEF EntryOrder
  <2> HIDE DEF lots
  <2>5. <<"entry", s, bar, side>> \in Ids
    BY <2>1 DEF Ids
  <2>6. plan[i] \in Intents
    BY <2>1, <2>3, <2>4, <2>5 DEF Intents
  <2> QED
    BY <2>3, <2>4, <2>6 DEF s
<1>7. DOMAIN plan = slots
  BY <1>4
<1>8. plan \in Plans
  <2>1. plan \in [slots -> Intents]
    BY <1>4, <1>6
  <2> QED
    BY <1>3, <2>1 DEF Plans
<1>9. \A i, j \in DOMAIN plan : plan[i].sec = plan[j].sec => i = j
  BY <1>1, <1>3, <1>6, <1>7
<1>10. \A i \in DOMAIN plan : <<plan[i].sec, bar, plan[i].side>> \in marks
  OBVIOUS
<1>11. SoundPlan(plan, pos, marks)
  BY <1>6, <1>7, <1>9, <1>10 DEF SoundPlan
<1> QED
  BY <1>7, <1>8, <1>11 DEF slots

(* The entries of a plan are not more than the marks that are left.        *)
LEMMA MarksStayBounded ==
  ASSUME MarksAreBounded, NEW pos, NEW capital, NEW S, NEW ranking \in SetToSeqs(S), NEW plan, NEW bar,
         DOMAIN plan = Entered(pos, capital, ranking),
         marked' = marked \cup {<<plan[i].sec, bar, plan[i].side>> : i \in DOMAIN plan}
  PROVE  MarksAreBounded'
<1> DEFINE free == MaxEntries - Cardinality(marked)
           slots == DOMAIN plan
           new == {<<plan[i].sec, bar, plan[i].side>> : i \in slots}
           mark == [i \in slots |-> <<plan[i].sec, bar, plan[i].side>>]
<1>1. Cardinality(marked) \in Nat /\ free \in Nat /\ IsFiniteSet(marked)
  BY FS_CardinalityType, DayAssumption DEF MarksAreBounded
<1>2. slots \subseteq 1 .. free
  BY <1>1, SeqsOf DEF Entered
<1>3. IsFiniteSet(slots) /\ Cardinality(slots) <= free /\ Cardinality(slots) \in Nat
  <2>1. IsFiniteSet(1 .. free) /\ Cardinality(1 .. free) = free
    BY <1>1, FS_Interval
  <2> QED
    BY <1>2, <2>1, FS_Subset, FS_CardinalityType
<1>4. mark \in Surjection(slots, new)
  BY DEF Surjection
<1>5. IsFiniteSet(new) /\ Cardinality(new) <= Cardinality(slots) /\ Cardinality(new) \in Nat
  <2> HIDE DEF new, mark, slots
  <2> QED
    BY <1>3, <1>4, FS_Surjection, FS_CardinalityType
<1>6. /\ IsFiniteSet(marked \cup new) /\ Cardinality(marked \cup new) <= MaxEntries
  <2> HIDE DEF new, slots
  <2>1. /\ IsFiniteSet(marked \cup new)
        /\ Cardinality(marked \cup new) =
             Cardinality(marked) + Cardinality(new) - Cardinality(marked \cap new)
    BY <1>1, <1>5, FS_Union
  <2>2. Cardinality(marked \cap new) \in Nat
    BY <1>1, FS_Subset, FS_CardinalityType
  <2> QED
    BY <1>1, <1>3, <1>5, <2>1, <2>2, DayAssumption
<1> QED
  BY <1>6 DEF MarksAreBounded

Phases == {"entries", "monitor", "force_flat", "loss", "exit"}

(* A plan is written into its files, with the marks of its entries.        *)
LEMMA WritePlanStep ==
  ASSUME DayInv, NEW p \in Proc, At(p, "plan"), NEW intents \in Plans, NEW phase \in Phases,
         WritePlan(p, intents, phase), marked \subseteq marked', MarksAreBounded',
         SoundPlan(intents, artifacts[proc[p].job].position, marked'),
         opening' \in {0} \cup Equity, UNCHANGED <<rows, orders, position, clock>>
  PROVE  DayInv'
<1> DEFINE a == proc[p].job
           new == [artifacts[a] EXCEPT !.intents = intents, !.phase = phase]
<1>1. /\ proc \in [Proc -> Locals] /\ Right(p) /\ Books /\ proc[p].todo \subseteq Request
      /\ proc[p].seen = Idle.seen /\ p = Timer
      /\ a \in DOMAIN artifacts /\ artifacts[a].phase = "none"
  BY DEF At, DayInv, Processes, Right, SawTheTruth, Looking, IsPlanning, Job
<1>2. artifacts' = [artifacts EXCEPT ![a] = new] /\ Move(p, "check", Stay)
  BY <1>1 DEF WritePlan
<1>3. artifacts[a] \in Files
  BY <1>1, FileTyped DEF Books
<1>4. /\ new \in Files /\ new.completed = artifacts[a].completed
      /\ new.position = artifacts[a].position /\ new.intents = intents
  BY <1>3 DEF Files, Phases
<1> HIDE DEF new
<1>5. Books'
  <2>1. SoundPlan(new.intents, new.position, marked')
    BY <1>4
  <2> QED
    BY <1>1, <1>2, <1>4, <2>1, PlanWritten
<1>6. \A q \in Proc : q # p => Leaves(q)
  BY <1>1, <1>2, <1>4, PlanLeaves
<1>7. DOMAIN artifacts' = DOMAIN artifacts
  BY <1>2
<1>8. /\ proc' \in [Proc -> Locals] /\ \A q \in Proc : q # p => proc'[q] = proc[q]
      /\ proc'[p].pc = "check" /\ proc'[p].job = a /\ proc'[p].todo = proc[p].todo
      /\ proc'[p].seen = Idle.seen
  BY <1>1, <1>2, StayIs DEF Pcs
<1>9. HasPlan(p)'
  BY <1>1, <1>7, <1>8 DEF HasPlan, Working, Sending
<1>10. IsPlanning(p)' /\ HasOrder(p)' /\ SawTheTruth(p)'
  BY <1>8 DEF IsPlanning, HasOrder, SawTheTruth, Sending, At, Idle
<1> QED
  BY <1>1, <1>5, <1>6, <1>8, <1>9, <1>10, ProcessesStayRight DEF DayInv, Right, Request

(* The marks of the entries are written, but their plan is not.            *)
LEMMA OnlyMarked ==
  ASSUME DayInv, NEW p \in Proc, End(p), marked \subseteq marked', MarksAreBounded',
         opening' \in {0} \cup Equity, UNCHANGED <<rows, orders, artifacts, position, clock>>
  PROVE  DayInv'
<1>1. PlansAreSound'
  <2>1. ASSUME NEW b \in DOMAIN artifacts
        PROVE  SoundPlan(artifacts[b].intents, artifacts[b].position, marked')
    <3>1. SoundPlan(artifacts[b].intents, artifacts[b].position, marked)
      BY DEF DayInv, Books, PlansAreSound
    <3> QED
      BY <3>1 DEF SoundPlan
  <2> QED
    BY <2>1 DEF PlansAreSound
<1>2. Books'
  BY <1>1 DEF DayInv, Books, TypeInv, OrdersAreRight, RowsAreOfPlans, RowIsOfPlan, OnlyTheLastIsOpen,
         FinalRowsAreTrue, RowsAreInOrder, OneRowEach, SnapshotsHold, SnapshotHolds,
         Fresh, EntriesOnce, Completed, Unresolved
<1>3. /\ proc' \in [Proc -> Locals] /\ \A q \in Proc : q # p => proc'[q] = proc[q]
      /\ Right(p)' /\ proc'[p].todo = {} /\ proc'[p].pc # "post"
  BY EndIs, IdleIsRight DEF DayInv, Processes
<1> QED
  BY <1>2, <1>3, NothingLeavesAll, ProcessesStayRight DEF DayInv

(* build_intraday_plan(): whatever it decides, the plan is sound and the    *)
(* marks are not more than max_entries_per_day.                             *)
LEMMA PlanKeeps ==
  ASSUME DayInv, NEW p \in Proc, Plan(p)
  PROVE  DayInv'
<1> DEFINE a == proc[p].job
           pos == artifacts[a].position
<1>1. /\ At(p, "plan") /\ a \in DOMAIN artifacts /\ UNCHANGED <<rows, orders, position, clock>>
      /\ clock \in 0 .. 2 /\ Job(p).position = pos
  BY DEF Plan, At, DayInv, Processes, Right, IsPlanning, Job, Books, TypeInv
<1>2. pos \in [Secs -> Int] /\ a \in Nat
  BY <1>1, FileTyped DEF DayInv, Books
<1>3. PICK equity \in Equity :
       /\ opening' = IF opening = 0 THEN equity ELSE opening
       /\ \/ NoPlan(p) /\ UNCHANGED marked
          \/ /\ clock = 2 \/ equity < opening'
             /\ \E names \in ByName(Held(pos)) :
                  WritePlan(p, FlattenOrders(pos, names), IF clock = 2 THEN "force_flat" ELSE "loss")
             /\ UNCHANGED marked
          \/ /\ clock # 2 /\ ~ equity < opening' /\ Job(p).open = 0
             /\ \E signals \in [Secs -> {-1, 0, 1}], ruled \in SUBSET Held(pos) :
                  LET exits == Exits(pos, ruled, signals) IN
                  \/ /\ exits # {}
                     /\ \E names \in ByName(exits) :
                          WritePlan(p, ExitOrders(pos, names, proc[p].job), "exit")
                     /\ UNCHANGED marked
                  \/ /\ exits = {} /\ clock = 1
                     /\ WritePlan(p, <<>>, "monitor") /\ UNCHANGED marked
                  \/ /\ exits = {} /\ clock = 0
                     /\ \E bar \in Bars, capital \in Capital :
                          \E ranking \in SetToSeqs(Eligible(pos, signals, bar)) :
                            LET plan == EntryOrders(pos, signals, bar, capital, ranking)
                            IN /\ marked' = marked \cup {<<plan[i].sec, bar, plan[i].side>> : i \in DOMAIN plan}
                               /\ WritePlan(p, plan, "entries") \/ NoPlan(p)
  BY Zenon DEF Plan, Job
<1> HIDE DEF pos, a
<1>4. opening' \in {0} \cup Equity
  BY <1>3 DEF DayInv, Books, TypeInv
<1>5. ASSUME UNCHANGED marked
      PROVE  marked \subseteq marked' /\ MarksAreBounded'
  BY <1>5 DEF DayInv, Books, MarksAreBounded
<1>6. CASE NoPlan(p) /\ UNCHANGED marked
  BY <1>1, <1>4, <1>6, EndStep DEF NoPlan
<1>7. ASSUME NEW intents \in Plans, NEW phase \in Phases, WritePlan(p, intents, phase),
             marked \subseteq marked', MarksAreBounded', SoundPlan(intents, pos, marked')
      PROVE  DayInv'
  BY <1>1, <1>4, <1>7, WritePlanStep DEF pos, a
<1>8. ASSUME NEW names \in ByName(Held(pos)), UNCHANGED marked,
             WritePlan(p, FlattenOrders(pos, names), IF clock = 2 THEN "force_flat" ELSE "loss")
      PROVE  DayInv'
  <2>1. PICK phase \in Phases : WritePlan(p, FlattenOrders(pos, names), phase)
    <3>1. (IF clock = 2 THEN "force_flat" ELSE "loss") \in Phases
      BY DEF Phases
    <3> QED
      BY <1>8, <3>1
  <2> QED
    BY <1>2, <1>5, <1>7, <1>8, <2>1, FlattenIsSound
<1>9. ASSUME NEW signals \in [Secs -> {-1, 0, 1}], NEW ruled \in SUBSET Held(pos),
             NEW names \in ByName(Exits(pos, ruled, signals)), UNCHANGED marked,
             WritePlan(p, ExitOrders(pos, names, a), "exit")
      PROVE  DayInv'
  <2>1. Exits(pos, ruled, signals) \in SUBSET Held(pos) /\ "exit" \in Phases
    BY DEF Exits, Phases
  <2> QED
    BY <1>2, <1>5, <1>7, <1>9, <2>1, ExitsAreSound
<1>10. ASSUME WritePlan(p, <<>>, "monitor"), UNCHANGED marked
       PROVE  DayInv'
  <2>1. <<>> \in Plans /\ "monitor" \in Phases
    <3>1. <<>> \in [{} -> Intents]
      OBVIOUS
    <3> QED
      BY <3>1 DEF Plans, Phases
  <2>2. SoundPlan(<<>>, pos, marked')
    BY DEF SoundPlan
  <2> QED
    BY <1>5, <1>7, <1>10, <2>1, <2>2
<1>11. ASSUME NEW signals \in [Secs -> {-1, 0, 1}], NEW bar \in Bars, NEW capital \in Capital,
              NEW ranking \in SetToSeqs(Eligible(pos, signals, bar)),
              NEW plan, plan = EntryOrders(pos, signals, bar, capital, ranking),
              marked' = marked \cup {<<plan[i].sec, bar, plan[i].side>> : i \in DOMAIN plan},
              WritePlan(p, plan, "entries") \/ NoPlan(p)
       PROVE  DayInv'
  <2>1. /\ {<<plan[i].sec, bar, plan[i].side>> : i \in DOMAIN plan} \subseteq marked'
        /\ marked \subseteq marked'
    BY <1>11
  <2>2. plan \in Plans /\ SoundPlan(plan, pos, marked') /\ DOMAIN plan = Entered(pos, capital, ranking)
    BY <1>2, <1>11, <2>1, EntriesAreSound
  <2>3. MarksAreBounded'
    BY <1>11, <2>2, MarksStayBounded DEF DayInv, Books
  <2>4. CASE WritePlan(p, plan, "entries")
    BY <1>7, <2>1, <2>2, <2>3, <2>4 DEF Phases
  <2>5. CASE NoPlan(p)
    BY <1>1, <1>4, <2>1, <2>3, <2>5, OnlyMarked DEF NoPlan
  <2> QED
    BY <1>11, <2>4, <2>5
<1>12. CASE \E names \in ByName(Held(pos)) :
               /\ WritePlan(p, FlattenOrders(pos, names), IF clock = 2 THEN "force_flat" ELSE "loss")
               /\ UNCHANGED marked
  BY <1>8, <1>12
<1>13. ASSUME NEW signals \in [Secs -> {-1, 0, 1}], NEW ruled \in SUBSET Held(pos),
              \/ /\ \E names \in ByName(Exits(pos, ruled, signals)) :
                      WritePlan(p, ExitOrders(pos, names, a), "exit")
                 /\ UNCHANGED marked
              \/ WritePlan(p, <<>>, "monitor") /\ UNCHANGED marked
              \/ \E bar \in Bars, capital \in Capital :
                   \E ranking \in SetToSeqs(Eligible(pos, signals, bar)) :
                     LET plan == EntryOrders(pos, signals, bar, capital, ranking)
                     IN /\ marked' = marked \cup {<<plan[i].sec, bar, plan[i].side>> : i \in DOMAIN plan}
                        /\ WritePlan(p, plan, "entries") \/ NoPlan(p)
       PROVE  DayInv'
  <2>1. CASE /\ \E names \in ByName(Exits(pos, ruled, signals)) :
                  WritePlan(p, ExitOrders(pos, names, a), "exit")
             /\ UNCHANGED marked
    BY <1>9, <2>1
  <2>2. CASE WritePlan(p, <<>>, "monitor") /\ UNCHANGED marked
    BY <1>10, <2>2
  <2>3. ASSUME NEW bar \in Bars, NEW capital \in Capital,
               NEW ranking \in SetToSeqs(Eligible(pos, signals, bar)),
               LET plan == EntryOrders(pos, signals, bar, capital, ranking)
               IN /\ marked' = marked \cup {<<plan[i].sec, bar, plan[i].side>> : i \in DOMAIN plan}
                  /\ WritePlan(p, plan, "entries") \/ NoPlan(p)
        PROVE  DayInv'
    <3> DEFINE plan == EntryOrders(pos, signals, bar, capital, ranking)
    <3>1. /\ marked' = marked \cup {<<plan[i].sec, bar, plan[i].side>> : i \in DOMAIN plan}
          /\ WritePlan(p, plan, "entries") \/ NoPlan(p)
          /\ plan = EntryOrders(pos, signals, bar, capital, ranking)
      BY <2>3
    <3> HIDE DEF plan
    <3> QED
      BY <1>11, <3>1
  <2> QED
    BY <1>13, <2>1, <2>2, <2>3, Zenon
<1> QED
  BY <1>3, <1>6, <1>12, <1>13, Zenon DEF a

------------------------------------------------------------------------------
(* The invariant.                                                          *)

(* The invariant holds when the day begins.                                 *)
LEMMA DayBegins ==
  ASSUME Init
  PROVE  DayInv
<1>1. /\ orders = <<>> /\ rows = <<>> /\ artifacts = <<>> /\ marked = {} /\ clock = 0 /\ opening = 0
      /\ position \in [Secs -> Int] /\ proc = [p \in Proc |-> Idle]
  BY DayAssumption DEF Init
<1>2. /\ DOMAIN rows = {} /\ DOMAIN orders = {} /\ DOMAIN artifacts = {}
      /\ Completed = {} /\ Unresolved = {}
  BY <1>1 DEF Completed, Unresolved
<1>3. TypeInv
  BY <1>1 DEF TypeInv
<1>4. MarksAreBounded
  BY <1>1, FS_EmptySet, DayAssumption DEF MarksAreBounded
<1>5. Books
  BY <1>2, <1>3, <1>4 DEF Books, OrdersAreRight, RowsAreOfPlans, OnlyTheLastIsOpen, FinalRowsAreTrue,
     PlansAreSound, RowsAreInOrder, OneRowEach, SnapshotsHold, EntriesOnce
<1>6. proc \in [Proc -> Locals] /\ \A p \in Proc : proc[p] = Idle
  BY <1>1, IdleTyped
<1>7. \A p \in Proc : Right(p) /\ proc[p].todo \subseteq Request /\ ~ At(p, "post")
  BY <1>6, IdleTyped DEF Right, HasPlan, IsPlanning, HasOrder, SawTheTruth, Working, Sending, At
<1> QED
  BY <1>5, <1>6, <1>7 DEF DayInv, Processes

(* Every step of the day keeps it.                                          *)
LEMMA DayGoesOn ==
  ASSUME DayInv, [Next]_vars
  PROVE  DayInv'
<1>1. ASSUME NEW p \in Proc, StartCycle(p) \/ Rerun(p) \/ Step(p) \/ Kill(p)
      PROVE  DayInv'
  BY <1>1, StartCycleKeeps, RerunKeeps, KillKeeps, CancelOneKeeps, VerifyNoneActiveKeeps,
     ReconcileJournalKeeps, ReadPortfolioKeeps, ReadOrdersKeeps, PlanKeeps, CheckKeeps, ExecuteKeeps
     DEF Step
<1>2. CASE UNCHANGED vars
  <2>1. UNCHANGED <<orders, position, rows, artifacts, proc, clock, marked, opening>>
    BY <1>2 DEF vars
  <2>2. Books'
    BY <2>1 DEF DayInv, Books, TypeInv, OrdersAreRight, RowsAreOfPlans, RowIsOfPlan,
       OnlyTheLastIsOpen, FinalRowsAreTrue, PlansAreSound, RowsAreInOrder, OneRowEach, SnapshotsHold,
       SnapshotHolds, Fresh, EntriesOnce, MarksAreBounded, Completed, Unresolved
  <2> QED
    BY <2>1, <2>2, NothingLeavesAll, NobodyMoves DEF DayInv
<1> QED
  BY <1>1, <1>2, TickKeeps, MarketKeeps DEF Next

(* What the day shows of it.                                               *)
LEMMA DayShows ==
  ASSUME DayInv
  PROVE  DayIsInOrder
<1>1. Books /\ Processes
  BY DEF DayInv
<1>2. DOMAIN rows = DOMAIN orders /\ Len(rows) = Len(orders)
  BY <1>1 DEF Books, TypeInv
<1>3. TypeOK
  <2>1. ASSUME NEW r \in DOMAIN rows
        PROVE  /\ rows[r].status \in Statuses /\ rows[r].filled \in 0 .. rows[r].intent.lots
               /\ orders[r].state \in States /\ orders[r].filled \in 0 .. orders[r].lots
    <3>1. /\ rows[r].status \in Statuses /\ rows[r].filled \in Nat /\ rows[r].intent \in Intents
          /\ orders[r].state \in States /\ orders[r].filled \in Nat /\ orders[r].lots \in Nat
      BY <1>1, <1>2, RowTyped, OrderTyped DEF Books
    <3>2. rows[r].intent.lots \in Nat
      BY <3>1, IntentTyped
    <3>3. rows[r].filled <= rows[r].intent.lots /\ orders[r].filled <= orders[r].lots
      BY <1>1, <1>2 DEF Books, RowsAreOfPlans, RowIsOfPlan, OrdersAreRight
    <3> QED
      BY <3>1, <3>2, <3>3
  <2>2. \A p \in Proc : proc[p].seen.status \in Statuses /\ proc[p].todo \subseteq Request
    BY <1>1, ProcessTyped DEF Processes
  <2>3. position \in [Secs -> Int] /\ clock \in 0 .. 2 /\ opening \in {0} \cup Equity
    BY <1>1 DEF Books, TypeInv
  <2> QED
    BY <1>2, <2>1, <2>2, <2>3 DEF TypeOK
<1>4. EntriesAreBounded
  <2> DEFINE entries == {r \in DOMAIN rows : rows[r].intent.rule = "entry"}
             mark == [r \in entries |-> <<rows[r].intent.id[2], rows[r].intent.id[3], rows[r].intent.id[4]>>]
  <2>1. ASSUME NEW r \in entries
        PROVE  \E s, bar, side :
                 /\ rows[r].intent.id = <<"entry", s, bar, side>>
                 /\ mark[r] = <<s, bar, side>> /\ mark[r] \in marked
    <3>1. PICK i \in DOMAIN artifacts[rows[r].plan].intents :
            rows[r].intent = artifacts[rows[r].plan].intents[i]
      BY <1>1 DEF Books, RowsAreOfPlans, RowIsOfPlan
    <3>2. SoundPlan(artifacts[rows[r].plan].intents, artifacts[rows[r].plan].position, marked)
      BY <1>1 DEF Books, RowsAreOfPlans, RowIsOfPlan, PlansAreSound
    <3>3. PICK bar \in Bars :
            /\ rows[r].intent.id = <<"entry", rows[r].intent.sec, bar, rows[r].intent.side>>
            /\ <<rows[r].intent.sec, bar, rows[r].intent.side>> \in marked
      BY <3>1, <3>2 DEF SoundPlan
    <3>4. mark[r] = <<rows[r].intent.sec, bar, rows[r].intent.side>>
      BY <3>3
    <3> QED
      BY <3>3, <3>4
  <2>2. mark \in Injection(entries, marked)
    <3>1. mark \in [entries -> marked]
      BY <2>1
    <3>2. ASSUME NEW r \in entries, NEW q \in entries, mark[r] = mark[q]
          PROVE  r = q
      <4>1. PICK s, bar, side : rows[r].intent.id = <<"entry", s, bar, side>> /\ mark[r] = <<s, bar, side>>
        BY <2>1
      <4>2. PICK t, b, way : rows[q].intent.id = <<"entry", t, b, way>> /\ mark[q] = <<t, b, way>>
        BY <2>1
      <4> HIDE DEF mark
      <4>3. rows[r].intent.id = rows[q].intent.id
        <5>1. <<s, bar, side>> = <<t, b, way>>
          BY <3>2, <4>1, <4>2, Zenon
        <5>2. s = t /\ bar = b /\ side = way
          BY <5>1
        <5> QED
          BY <4>1, <4>2, <5>2, Zenon
      <4> QED
        BY <1>1, <4>3 DEF Books, EntriesOnce
    <3> HIDE DEF mark
    <3> QED
      BY <3>1, <3>2 DEF Injection, IsInjective
  <2>3. Cardinality(entries) <= MaxEntries
    <3> HIDE DEF mark, entries
    <3>1. IsFiniteSet(entries) /\ Cardinality(entries) <= Cardinality(marked)
      BY <1>1, <2>2, FS_Injection DEF Books, MarksAreBounded
    <3> QED
      BY <1>1, <3>1, FS_CardinalityType, DayAssumption DEF Books, MarksAreBounded
  <2> QED
    BY <1>1, <2>3 DEF EntriesAreBounded, Books, EntriesOnce
<1> QED
  BY <1>1, <1>3, <1>4 DEF DayIsInOrder, Books

(* What a reservation finds.                                               *)
SizedWhenReserved ==
  Len(rows') > Len(rows) =>
    /\ \A r \in Request : orders[r].state \notin {"travelling", "new"}
    /\ \E p \in Proc : /\ proc'[p].pc = "post" /\ proc[p].pc = "execute"
                       /\ LET s == Intent(p).sec IN proc[p].projected[s] = position[s]

(* Only a reservation adds a row to the journal.                            *)
LEMMA OnlyReserveAppends ==
  ASSUME DayInv, [Next]_vars, Len(rows') > Len(rows)
  PROVE  \E p \in Proc : Reserve(p)
<1>1. ASSUME rows' = rows PROVE FALSE
  BY <1>1 DEF DayInv, Books, TypeInv
<1>2. ASSUME NEW r, NEW seen, Record(r, seen) PROVE FALSE
  <2>1. Len(rows') = Len(rows) /\ Len(rows) \in Nat
    BY <1>2 DEF Record, DayInv, Books, TypeInv
  <2> QED
    BY <2>1
<1>3. ASSUME NEW p \in Proc, ~ Reserve(p), Execute(p)
      PROVE  FALSE
  BY <1>1, <1>2, <1>3 DEF Execute, ExecuteStep, Post, Answer, RecordAnswer, Poll, Wait, CancelOrder,
     VerifyCancel, Settled, Executed
<1>4. ASSUME NEW p \in Proc, StartCycle(p) \/ Rerun(p) \/ Kill(p) \/ CancelOne(p) \/ VerifyNoneActive(p)
               \/ ReconcileJournal(p) \/ ReadPortfolio(p) \/ ReadOrders(p) \/ Plan(p) \/ Check(p)
      PROVE  FALSE
  BY <1>1, <1>2, <1>4 DEF StartCycle, Rerun, Kill, CancelOne, VerifyNoneActive, ReconcileJournal,
     LookupRow, RecordFound, ReadPortfolio, ReadOrders, Plan, Check
<1>5. ASSUME Tick \/ Market \/ UNCHANGED vars PROVE FALSE
  BY <1>1, <1>5 DEF Tick, Market, vars
<1> QED
  BY <1>3, <1>4, <1>5 DEF Next, Step

(* A reservation is made on the lots the account holds: the journal has no  *)
(* open row, the plan is fresh, and none of its rows is of the instrument.  *)
LEMMA SizedStep ==
  ASSUME DayInv, [Next]_vars
  PROVE  SizedWhenReserved
<1> SUFFICES ASSUME Len(rows') > Len(rows)
             PROVE  /\ \A r \in Request : orders[r].state \notin {"travelling", "new"}
                    /\ \E p \in Proc : /\ proc'[p].pc = "post" /\ proc[p].pc = "execute"
                                       /\ proc[p].projected[Intent(p).sec] = position[Intent(p).sec]
  BY DEF SizedWhenReserved
<1>1. PICK p \in Proc : Reserve(p)
  BY OnlyReserveAppends
<1> DEFINE a == proc[p].job
           i == proc[p].next
           intent == Intent(p)
<1>2. /\ At(p, "execute") /\ proc[p].pc = "execute"
      /\ i \in DOMAIN artifacts[a].intents /\ intent = artifacts[a].intents[i]
  BY <1>1 DEF Reserve, At, Batch, Intent, Job
<1>3. /\ proc \in [Proc -> Locals] /\ Books /\ a \in DOMAIN artifacts /\ i \in Nat
      /\ proc[p].projected[intent.sec] = artifacts[a].position[intent.sec]
  <2>1. /\ proc \in [Proc -> Locals] /\ Books /\ a \in DOMAIN artifacts /\ i \in Nat
        /\ \A j \in DOMAIN artifacts[a].intents :
             i <= j => proc[p].projected[artifacts[a].intents[j].sec] =
                         artifacts[a].position[artifacts[a].intents[j].sec]
    BY <1>2, ExecutingIs
  <2>2. i <= i
    BY <2>1
  <2> HIDE DEF a, i, intent
  <2> QED
    BY <1>2, <2>1, <2>2, Zenon
<1>4. ~ UNCHANGED rows
  BY <1>3 DEF Books, TypeInv
<1>5. Reservation(a, intent) = "request" /\ Move(p, "post", [req |-> Len(rows) + 1])
  <2> HIDE DEF a, i, intent
  <2> QED
    BY <1>1, <1>4 DEF Reserve, a, intent
<1>6. /\ Unresolved = {} /\ Fresh(a)
      /\ \A r \in DOMAIN rows : rows[r].plan = a => orders[r].sec # intent.sec
  BY <1>2, <1>3, <1>5, RequestIsFresh
<1>7. ASSUME NEW r \in Request PROVE orders[r].state \notin {"travelling", "new"}
  <2>1. r \in Completed /\ orders[r].state = rows[r].status /\ rows[r].status \in Terminal
    BY <1>3, <1>6 DEF Unresolved, Completed, Request, Books, TypeInv, FinalRowsAreTrue
  <2> QED
    BY <2>1 DEF Terminal
<1>8. proc'[p].pc = "post"
  <2> DEFINE change == [req |-> Len(rows) + 1]
  <2>1. DOMAIN change = {"req"} /\ change["req"] = Len(rows) + 1 /\ Len(rows) + 1 \in Nat
    BY <1>3 DEF Books, TypeInv
  <2>2. Change(change) /\ Move(p, "post", change)
    BY <1>5, <2>1 DEF Change
  <2> HIDE DEF change
  <2> QED
    BY <1>3, <2>2, MoveIs DEF Pcs
<1>9. position[intent.sec] = artifacts[a].position[intent.sec]
  <2>1. intent.sec \in Secs
    BY <1>2, <1>3, FileTyped, PlanTyped, IntentTyped DEF Books
  <2> QED
    BY <1>3, <1>6, <2>1 DEF Books, SnapshotsHold, SnapshotHolds
<1> QED
  BY <1>2, <1>3, <1>7, <1>8, <1>9

------------------------------------------------------------------------------
(* What a fill of an exit does.                                            *)
ReducedWhenFilled ==
  \A r \in Request :
    orders'[r].filled > orders[r].filled /\ rows[r].intent.rule # "entry" =>
      LET s == orders[r].sec
      IN position'[s] * position'[s] < position[s] * position[s]

(* Nothing but the broker fills an order, one at a time.                   *)
LEMMA OnlyTheBrokerFills ==
  ASSUME DayInv, [Next]_vars, NEW r \in Request, orders'[r].filled > orders[r].filled
  PROVE  FillLot(r)
<1>1. r \in DOMAIN orders /\ orders \in Seq(Orders) /\ orders[r].filled \in Nat
  BY OrderTyped DEF DayInv, Books, TypeInv, Request
<1>2. ASSUME orders' = orders PROVE FALSE
  BY <1>1, <1>2
<1>3. ASSUME NEW q, NEW state, InState(q, state) PROVE FALSE
  <2>1. orders'[r].filled = orders[r].filled
    BY <1>1, <1>3 DEF InState
  <2> QED
    BY <1>1, <2>1
<1>4. ASSUME NEW p \in Proc, Reserve(p) PROVE FALSE
  <2>1. ASSUME NEW order, orders' = Append(orders, order) PROVE FALSE
    BY <1>1, <2>1
  <2>2. \/ UNCHANGED orders
        \/ orders' = Append(orders, [sec |-> Intent(p).sec, side |-> Intent(p).side,
                                     lots |-> Intent(p).lots, filled |-> 0, state |-> "unsent"])
    BY <1>4 DEF Reserve
  <2> QED
    BY <1>2, <2>1, <2>2
<1>5. ASSUME NEW p \in Proc, Execute(p)
      PROVE  FALSE
  BY <1>2, <1>3, <1>4, <1>5 DEF Execute, ExecuteStep, Post, Answer, RecordAnswer, Poll, Wait,
     CancelOrder, CancelActive, VerifyCancel, Settled, Executed
<1>6. ASSUME NEW p \in Proc, StartCycle(p) \/ Rerun(p) \/ Kill(p) \/ CancelOne(p) \/ VerifyNoneActive(p)
               \/ ReconcileJournal(p) \/ ReadPortfolio(p) \/ ReadOrders(p) \/ Plan(p) \/ Check(p)
      PROVE  FALSE
  BY <1>2, <1>3, <1>6 DEF StartCycle, Rerun, Kill, CancelOne, CancelActive, VerifyNoneActive,
     ReconcileJournal, LookupRow, RecordFound, ReadPortfolio, ReadOrders, Plan, Check
<1>7. ASSUME Tick \/ UNCHANGED vars PROVE FALSE
  BY <1>2, <1>7 DEF Tick, vars
<1>8. ASSUME NEW q \in Request, Arrive(q) PROVE FALSE
  BY <1>3, <1>8 DEF Arrive
<1>9. ASSUME NEW q \in Request, q # r, FillLot(q) PROVE FALSE
  <2>1. orders'[r] = orders[r]
    BY <1>1, <1>9 DEF FillLot, Request
  <2> QED
    BY <1>1, <2>1
<1> QED
  BY <1>5, <1>6, <1>7, <1>8, <1>9 DEF Next, Step, Market, BrokerStep

(* An order that closes a position, filled by one more lot, brings it       *)
(* nearer to zero.                                                          *)
LEMMA Nearer ==
  ASSUME NEW side \in {-1, 1}, NEW filled \in Nat, NEW lots \in Nat, filled < lots,
         NEW held \in Int, NEW before \in Int, side * lots = - before,
         held = before + side * filled
  PROVE  (held + side) * (held + side) < held * held
<1>1. CASE side = 1
  <2> DEFINE k == lots - filled
  <2>1. k \in Nat /\ k >= 1 /\ held = - k /\ held + side = -(k - 1)
    BY <1>1
  <2> HIDE DEF k
  <2>2. (k - 1) * (k - 1) < k * k
    BY <2>1
  <2> QED
    BY <2>1, <2>2
<1>2. CASE side = -1
  <2> DEFINE k == lots - filled
  <2>1. k \in Nat /\ k >= 1 /\ held = k /\ held + side = k - 1
    BY <1>2
  <2> HIDE DEF k
  <2>2. (k - 1) * (k - 1) < k * k
    BY <2>1
  <2> QED
    BY <2>1, <2>2
<1> QED
  BY <1>1, <1>2

(* A fill of an order that closes: its row is the last of the journal, its  *)
(* plan is fresh, and it is of all the lots that the snapshot found.        *)
LEMMA ReducedStep ==
  ASSUME DayInv, [Next]_vars
  PROVE  ReducedWhenFilled
<1> SUFFICES ASSUME NEW r \in Request, orders'[r].filled > orders[r].filled,
                    rows[r].intent.rule # "entry"
             PROVE  position'[orders[r].sec] * position'[orders[r].sec] <
                      position[orders[r].sec] * position[orders[r].sec]
  BY DEF ReducedWhenFilled
<1> DEFINE s == orders[r].sec
           side == orders[r].side
           a == rows[r].plan
           before == artifacts[a].position[s]
           held == position[s]
           lots == orders[r].lots
           filled == orders[r].filled
<1>1. FillLot(r)
  BY OnlyTheBrokerFills
<1>2. /\ r \in DOMAIN orders /\ r \in DOMAIN rows /\ Books
  BY DEF Request, DayInv, Books, TypeInv
<1>3. /\ s \in Secs /\ side \in {-1, 1} /\ lots \in Nat /\ filled \in Nat /\ held \in Int
  <2>1. s \in Secs /\ side \in {-1, 1} /\ lots \in Nat /\ filled \in Nat
    BY <1>2, OrderTyped DEF Books
  <2> HIDE DEF s
  <2> QED
    BY <1>2, <2>1 DEF Books, TypeInv
<1>4. orders[r].state = "new" /\ position' = [position EXCEPT ![s] = @ + side]
  BY <1>1 DEF FillLot
<1>5. filled < lots /\ r \in Unresolved
  BY <1>2, <1>4 DEF Books, OrdersAreRight, FinalRowsAreTrue, Completed, Unresolved, Terminal
<1>6. a \in DOMAIN artifacts /\ Fresh(a)
  <2>1. a \in DOMAIN artifacts /\ r = Len(rows)
    BY <1>2, <1>5 DEF Books, RowsAreOfPlans, RowIsOfPlan, OnlyTheLastIsOpen
  <2> QED
    BY <1>2, <2>1, NewestIsFresh
<1>7. held = before + side * filled
  BY <1>2, <1>6 DEF Books, SnapshotsHold, SnapshotHolds
<1>8. side * lots = - before
  <2>1. PICK i \in DOMAIN artifacts[a].intents : rows[r].intent = artifacts[a].intents[i]
    BY <1>2 DEF Books, RowsAreOfPlans, RowIsOfPlan
  <2>2. ClosesAll(rows[r].intent, artifacts[a].position[rows[r].intent.sec])
    BY <1>2, <1>6, <2>1 DEF Books, PlansAreSound, SoundPlan
  <2>3. s = rows[r].intent.sec /\ side = rows[r].intent.side /\ lots = rows[r].intent.lots
    BY <1>2 DEF Books, RowsAreOfPlans, RowIsOfPlan
  <2> QED
    BY <2>2, <2>3 DEF ClosesAll
<1>9. before \in Int
  BY <1>2, <1>3, <1>6, FileTyped DEF Books
<1>10. position'[s] = held + side
  <2> HIDE DEF s, side
  <2> QED
    BY <1>2, <1>3, <1>4 DEF Books, TypeInv
<1> HIDE DEF s, side, a, before, held, lots, filled
<1>11. (held + side) * (held + side) < held * held
  BY <1>3, <1>5, <1>7, <1>8, <1>9, Nearer
<1>12. position'[s] * position'[s] < position[s] * position[s]
  BY <1>10, <1>11 DEF held
<1> QED
  BY <1>12 DEF s

------------------------------------------------------------------------------
(* The theorems.                                                           *)

(* The invariant holds in every state of the day.                           *)
LEMMA DayInvHolds == Spec => []DayInv
<1>1. Init => DayInv
  BY DayBegins
<1>2. DayInv /\ [Next]_vars => DayInv'
  BY DayGoesOn
<1> QED
  BY <1>1, <1>2, PTL DEF Spec

(* The run of MCIntraday is one of the day: what is proved of the day holds *)
(* in each of its parts.                                                    *)
THEOREM IntradayRunsTheDay == IntradaySpec => Spec
<1>1. IntradayInit => Init
  BY DEF IntradayInit, NoCycle
<1>2. [IntradayNext]_intraday_vars => [Next]_vars
  BY DEF IntradayNext, intraday_vars
<1> QED
  BY <1>1, <1>2, PTL DEF IntradaySpec, Spec

(* The journal and the limits of the day hold over all cycles, reruns,      *)
(* kills, lost answers and late fills: a row that is final says what the    *)
(* broker says (tinvest_sandbox.py:823-867), and there are never more       *)
(* entries than max_entries_per_day nor two for one signal                  *)
(* (intraday.py:410-440).                                                   *)
THEOREM DayStaysInOrder == Spec => []DayIsInOrder
<1>1. DayInv => DayIsInOrder
  BY DayShows
<1> QED
  BY <1>1, DayInvHolds, PTL

(* No plan is executed on a position that has changed since its snapshot,   *)
(* and no fill of an exit brings a position past zero, whoever executes the *)
(* plan and whenever (sandbox_execution.py:129-149, intraday.py).           *)
THEOREM PlansStayFit == Spec => PlansFitThePosition
<1>1. DayInv /\ [Next]_vars => [SizedWhenReserved]_vars /\ [ReducedWhenFilled]_vars
  BY SizedStep, ReducedStep
<1>2. Spec => [][SizedWhenReserved]_vars /\ [][ReducedWhenFilled]_vars
  BY <1>1, DayInvHolds, PTL DEF Spec
<1> QED
  BY <1>2 DEF PlansFitThePosition, SizedOnWhatIsHeld, ExitsOnlyReduce, SizedWhenReserved,
              ReducedWhenFilled

------------------------------------------------------------------------------
(* The history.                                                            *)

(* IntradayHistory counts as everyone does.                                 *)
LEMMA CountedAlike == ASSUME NEW S PROVE History!Cardinality(S) = Cardinality(S)
BY DEF History!Cardinality, Cardinality

(* A set of bars has a latest one.                                          *)
LEMMA LatestOf ==
  ASSUME NEW n \in Nat, NEW S, \A x \in S : x \in 1 .. n, S # {}
  PROVE  \E x \in S : \A y \in S : y <= x
<1> DEFINE distances == {n - x : x \in S}
<1>1. distances \in SUBSET Nat /\ distances # {}
  OBVIOUS
<1>2. PICK least \in distances : \A d \in distances : least <= d
  BY <1>1, LeastExists
<1>3. PICK x \in S : least = n - x
  BY <1>2
<1>4. ASSUME NEW y \in S PROVE y <= x
  <2>1. n - x <= n - y
    BY <1>2, <1>3
  <2>2. x \in Int /\ y \in Int
    OBVIOUS
  <2> QED
    BY <2>1, <2>2
<1> QED
  BY <1>4

\* The later bars.
After(S, b) == {c \in S : c > b}

(* The bars after one of them, of bars up to n, are a finite number.        *)
LEMMA AfterIsCounted ==
  ASSUME NEW n \in Nat, NEW S, \A x \in S : x \in 1 .. n, NEW b
  PROVE  IsFiniteSet(After(S, b)) /\ Cardinality(After(S, b)) \in Nat
<1>1. After(S, b) \subseteq 1 .. n
  BY DEF After
<1>2. IsFiniteSet(1 .. n)
  BY FS_Interval
<1>3. IsFiniteSet(After(S, b))
  BY <1>1, <1>2, FS_Subset
<1> QED
  BY <1>3, FS_CardinalityType

(* The bars that LIMIT leaves: those with fewer than history_bars after     *)
(* them (intraday.py, recent, and algopack_intraday.py, history).           *)
LEMMA LastAre ==
  ASSUME NEW S
  PROVE  History!LastOf(S) = {b \in S : Cardinality(After(S, b)) < HistoryBars}
BY CountedAlike DEF History!LastOf, After

(* A set whose later bars another one has as well has no more of them.     *)
LEMMA LaterAreFewer ==
  ASSUME NEW n \in Nat, NEW C, \A c \in C : c \in 1 .. n, NEW K, \A c \in K : c \in 1 .. n,
         NEW b \in Nat, NEW y \in Nat, y > b, \A c \in C : c > y => c \in K,
         Cardinality(After(K, b)) < HistoryBars, HistoryBars \in Nat
  PROVE  Cardinality(After(C, y)) < HistoryBars
<1>1. ASSUME NEW c \in After(C, y) PROVE c \in After(K, b)
  <2>1. c \in C /\ c > y /\ c \in 1 .. n
    BY DEF After
  <2> QED
    BY <2>1 DEF After
<1>2. IsFiniteSet(After(K, b)) /\ Cardinality(After(K, b)) \in Nat /\ Cardinality(After(C, y)) \in Nat
  BY AfterIsCounted
<1>3. Cardinality(After(C, y)) <= Cardinality(After(K, b))
  BY <1>1, <1>2, FS_Subset
<1> QED
  BY <1>2, <1>3

(* When the last bars of C are kept in K, then the last bars of K miss no    *)
(* bar of C after their first.                                              *)
LEMMA LastReachBack ==
  ASSUME NEW n \in Nat, NEW C, \A c \in C : c \in 1 .. n, NEW K, \A c \in K : c \in 1 .. n,
         HistoryBars \in Nat, \A c \in History!LastOf(C) : c \in K,
         NEW b, b \in History!LastOf(K), NEW x \in C, x > b
  PROVE  x \in History!LastOf(K)
<1>1. b \in K /\ b \in Nat /\ x \in Nat /\ Cardinality(After(K, b)) < HistoryBars
  BY LastAre
<1>2. \A y \in C : y > b => y \in History!LastOf(C)
  <2> DEFINE missed == {y \in C : y > b /\ y \notin History!LastOf(C)}
  <2> SUFFICES ASSUME missed # {} PROVE FALSE
    OBVIOUS
  <2>1. PICK y \in missed : \A z \in missed : z <= y
    <3>1. \A z \in missed : z \in 1 .. n
      OBVIOUS
    <3> HIDE DEF missed
    <3> QED
      BY <3>1, LatestOf
  <2>2. y \in Nat /\ y \in C /\ y > b /\ y \notin History!LastOf(C)
    BY <2>1
  <2>3. ASSUME NEW c \in C, c > y PROVE c \in K
    <3>1. c \in Int /\ y \in Int /\ b \in Int
      BY <1>1, <2>2
    <3>2. c > b /\ ~(c <= y)
      BY <2>2, <2>3, <3>1
    <3> QED
      BY <2>1, <3>2
  <2>4. Cardinality(After(C, y)) < HistoryBars
    BY <1>1, <2>2, <2>3, LaterAreFewer
  <2> QED
    BY <2>2, <2>4, LastAre
<1>3. x \in K
  BY <1>2
<1>4. \A c \in K : c > x => c \in K
  OBVIOUS
<1>5. Cardinality(After(K, x)) < HistoryBars
  BY <1>1, <1>3, <1>4, LaterAreFewer
<1> QED
  BY <1>3, <1>5, LastAre

\* The invariant: a decision knows of the bars received up to its own cycle,
\* and while a cycle runs all decisions are of earlier ones.
HistoryInv ==
  /\ History!TypeOK
  /\ History!DecisionsCanBeReplayed
  /\ asOf # 0 => cycle >= 1
  /\ \A p \in plans : p.received \in Nat /\ p.received <= cycle /\ (asOf # 0 => p.received < cycle)

(* A bar of the window is one that every data set has.                      *)
LEMMA WindowIsCommon ==
  /\ \A b \in History!Window : b \in 1 .. asOf /\ \A d \in DataSets : read[d][b] # 0
  /\ \A b \in History!Common : b \in 1 .. asOf
BY DEF History!Window, History!LastOf, History!Common, History!NoRow

\* The store after add().
Stored == History!Added \cup {s \in store : \A a \in History!Added : a.bar # s.bar}

(* add() stores each bar of the window that is not stored yet, once.        *)
LEMMA AddedAre ==
  ASSUME NEW a \in History!Added
  PROVE  /\ a.bar \in History!Window /\ a.received = cycle
         /\ \A s \in store : s.bar # a.bar
         /\ \A d \in DataSets : a.row[d] = read[d][a.bar]
         /\ \A c \in History!Added : c.bar = a.bar => c = a
BY DEF History!Added

(* After add() the store has the bars it had and those of the window.       *)
LEMMA StoredAre ==
  /\ store \subseteq Stored
  /\ \A s \in Stored : s \in store \/ s \in History!Added
  /\ \A b \in History!Window : \E s \in Stored : s.bar = b
<1>1. \A s \in store : \A a \in History!Added : a.bar # s.bar
  BY AddedAre
<1>2. store \subseteq Stored /\ \A s \in Stored : s \in store \/ s \in History!Added
  BY <1>1 DEF Stored
<1>3. ASSUME NEW b \in History!Window PROVE \E s \in Stored : s.bar = b
  <2>1. CASE \E s \in store : s.bar = b
    BY <1>2, <2>1
  <2>2. CASE \A s \in store : s.bar # b
    <3>1. [bar |-> b, row |-> [d \in DataSets |-> read[d][b]], received |-> cycle] \in History!Added
      BY <2>2 DEF History!Added
    <3> QED
      BY <3>1 DEF Stored
  <2> QED
    BY <2>1, <2>2
<1> QED
  BY <1>2, <1>3

(* It has one row of each bar, complete and received by now.                *)
LEMMA StoredHaveTypes ==
  ASSUME History!TypeOK, asOf # 0, cycle >= 1
  PROVE  /\ \A s \in Stored : s.bar \in 1 .. now /\ s.received \in 1 .. cycle
                              /\ \A d \in DataSets : s.row[d] # 0
         /\ \A s, t \in Stored : s.bar = t.bar => s = t
<1>1. now \in Nat /\ asOf \in Nat /\ cycle \in Nat /\ asOf <= now
  BY DEF History!TypeOK
<1>2. ASSUME NEW s \in Stored
      PROVE  s.bar \in 1 .. now /\ s.received \in 1 .. cycle /\ \A d \in DataSets : s.row[d] # 0
  <2>1. CASE s \in store
    BY <2>1 DEF History!TypeOK, History!NoRow
  <2>2. CASE s \in History!Added
    <3>1. s.bar \in 1 .. asOf /\ \A d \in DataSets : read[d][s.bar] # 0
      BY <2>2, AddedAre, WindowIsCommon
    <3>2. s.received = cycle /\ \A d \in DataSets : s.row[d] = read[d][s.bar]
      BY <2>2, AddedAre
    <3> QED
      BY <1>1, <3>1, <3>2
  <2> QED
    BY <2>1, <2>2, StoredAre
<1>3. ASSUME NEW s \in Stored, NEW t \in Stored, s.bar = t.bar PROVE s = t
  <2>1. CASE s \in store /\ t \in store
    BY <1>3, <2>1 DEF History!TypeOK
  <2>2. CASE s \in History!Added
    BY <1>3, <2>2, AddedAre, StoredAre
  <2>3. CASE t \in History!Added
    BY <1>3, <2>3, AddedAre, StoredAre
  <2> QED
    BY <2>1, <2>2, <2>3, StoredAre
<1> QED
  BY <1>2, <1>3

(* What was known at the time of an earlier decision is known as it was.    *)
LEMMA RecentIsKept ==
  ASSUME History!TypeOK, NEW at, NEW received \in Nat, received < cycle
  PROVE  History!Recent(Stored, at, received) = History!Recent(store, at, received)
<1>1. \A s \in History!Added : ~(s.received <= received)
  <2>1. cycle \in Nat
    BY DEF History!TypeOK
  <2> QED
    BY <2>1, AddedAre
<1>2. {s \in Stored : s.bar <= at /\ s.received <= received}
        = {s \in store : s.bar <= at /\ s.received <= received}
  BY <1>1, StoredAre
<1> QED
  BY <1>2 DEF History!Recent

\* The decision on the store S, and what a plan does with it: it is written, or
\* the cycle ends before that.
NewPlan(S) ==
  [asOf |-> asOf, received |-> cycle, window |-> History!Recent(S, asOf, cycle),
   verdict |-> History!Verdict(History!Recent(S, asOf, cycle), asOf)]

Decided(S) == asOf' = 0 /\ read' = <<>> /\ (plans' = plans \/ plans' = plans \cup {NewPlan(S)})

(* A plan stores the bars it has read, or decides on those it has.          *)
LEMMA PlanIs ==
  ASSUME History!Plan
  PROVE  /\ asOf # 0 /\ UNCHANGED <<now, published, revisions, cycle>>
         /\ \/ DOMAIN read = DataSets /\ store' = Stored /\ Decided(Stored)
            \/ DOMAIN read # DataSets /\ store' = store /\ Decided(store)
BY Zenon DEF History!Plan, History!Decide, Stored, Decided, NewPlan

(* A plan keeps the invariant (intraday.py, build_intraday_plan).            *)
LEMMA HistoryPlanKeeps ==
  ASSUME HistoryInv, History!Plan
  PROVE  HistoryInv'
<1>1. /\ asOf # 0 /\ now' = now /\ cycle' = cycle /\ asOf' = 0
      /\ \E S \in {store, Stored} : store' = S /\ (plans' = plans \/ plans' = plans \cup {NewPlan(S)})
  BY PlanIs DEF Decided
<1>2. PICK S \in {store, Stored} : store' = S /\ (plans' = plans \/ plans' = plans \cup {NewPlan(S)})
  BY <1>1
<1>3. now \in Nat /\ cycle \in Nat /\ cycle >= 1 /\ now \in 0 .. MaxBar /\ cycle \in 0 .. MaxCycles
  BY <1>1 DEF HistoryInv, History!TypeOK
<1>4. /\ \A s \in S : s.bar \in 1 .. now /\ s.received \in 1 .. cycle /\ \A d \in DataSets : s.row[d] # 0
      /\ \A s, t \in S : s.bar = t.bar => s = t
  BY <1>1, <1>3, StoredHaveTypes DEF HistoryInv, History!TypeOK, History!NoRow
<1>5. History!TypeOK'
  BY <1>1, <1>2, <1>3, <1>4 DEF History!TypeOK, History!NoRow
<1>6. \A p \in plans : History!Recent(S, p.asOf, p.received) = p.window
  <2>1. \A p \in plans : p.received \in Nat /\ p.received < cycle
    BY <1>1 DEF HistoryInv
  <2>2. \A p \in plans : History!Recent(Stored, p.asOf, p.received) = History!Recent(store, p.asOf, p.received)
    BY <2>1, RecentIsKept DEF HistoryInv
  <2> QED
    BY <2>2 DEF HistoryInv, History!DecisionsCanBeReplayed
<1>7. NewPlan(S).received = cycle /\ History!Recent(S, NewPlan(S).asOf, NewPlan(S).received) = NewPlan(S).window
  BY DEF NewPlan
<1>8. \A p \in plans' : p \in plans \/ p = NewPlan(S)
  BY <1>2
<1>9. History!DecisionsCanBeReplayed'
  BY <1>2, <1>6, <1>7, <1>8 DEF History!DecisionsCanBeReplayed, History!Recent, History!LastOf
<1>10. \A p \in plans' : p.received \in Nat /\ p.received <= cycle
  BY <1>3, <1>7, <1>8 DEF HistoryInv
<1> QED
  BY <1>1, <1>5, <1>9, <1>10 DEF HistoryInv

(* So does every step of the exchange and of the cycle.                     *)
LEMMA HistoryNextKeeps ==
  ASSUME HistoryInv, History!Next
  PROVE  HistoryInv'
<1>1. MaxBar \in Nat /\ MaxCycles \in Nat
  BY HistoryAssumption DEF History!HistoryAssumption
<1>2. now \in Nat /\ cycle \in Nat /\ asOf \in Nat /\ asOf <= now
  BY <1>1 DEF HistoryInv, History!TypeOK
<1>3. CASE History!Tick
  <2>1. now' = now + 1 /\ now < MaxBar /\ UNCHANGED <<cycle, asOf, store, plans>>
    BY <1>3 DEF History!Tick
  <2>2. History!TypeOK'
    BY <1>1, <1>2, <2>1 DEF History!TypeOK, HistoryInv
  <2> QED
    BY <2>1, <2>2 DEF HistoryInv, History!DecisionsCanBeReplayed, History!Recent, History!LastOf
<1>4. CASE UNCHANGED <<now, cycle, asOf, store, plans>>
  BY <1>4 DEF HistoryInv, History!TypeOK, History!DecisionsCanBeReplayed, History!Recent, History!LastOf
<1>5. CASE History!Start
  <2>1. asOf = 0 /\ asOf' = now /\ cycle' = cycle + 1 /\ cycle < MaxCycles /\ UNCHANGED <<now, store, plans>>
    BY <1>5 DEF History!Start
  <2>2. History!TypeOK'
    BY <1>1, <1>2, <2>1 DEF History!TypeOK, HistoryInv
  <2>3. \A p \in plans : p.received \in Nat /\ p.received <= cycle + 1 /\ p.received < cycle + 1
    BY <1>2 DEF HistoryInv
  <2>4. History!DecisionsCanBeReplayed'
    BY <2>1 DEF HistoryInv, History!DecisionsCanBeReplayed, History!Recent, History!LastOf
  <2> QED
    BY <1>2, <2>1, <2>2, <2>3, <2>4 DEF HistoryInv
<1>6. CASE History!Plan
  BY <1>6, HistoryPlanKeeps
<1>7. ASSUME NEW d \in DataSets, NEW b \in History!Bar, History!Publish(d, b) \/ History!Revise(d, b)
      PROVE  UNCHANGED <<now, cycle, asOf, store, plans>>
  BY <1>7 DEF History!Publish, History!Revise
<1>8. ASSUME NEW d \in DataSets, History!Read(d) PROVE UNCHANGED <<now, cycle, asOf, store, plans>>
  BY <1>8 DEF History!Read
<1> QED
  BY <1>3, <1>4, <1>5, <1>6, <1>7, <1>8 DEF History!Next

(* The bars of recent() are the last of those it may know.                  *)
LEMMA RecentBars ==
  ASSUME NEW S, NEW at, NEW received
  PROVE  {s.bar : s \in History!Recent(S, at, received)}
           = History!LastOf({s.bar : s \in {u \in S : u.bar <= at /\ u.received <= received}})
BY DEF History!Recent, History!LastOf

(* A window is refused for a gap only if there is one.                       *)
LEMMA ContiguityIs ==
  ASSUME NEW window, NEW at, History!Verdict(window, at) = "contiguity",
         NEW n \in Nat, \A s \in window : s.bar \in 1 .. n
  PROVE  \E b, top \in {s.bar : s \in window} : b + 1 < top /\ b + 1 \notin {s.bar : s \in window}
<1> DEFINE bars == {s.bar : s \in window}
           newest == CHOOSE b \in bars : \A c \in bars : c <= b
<1>1. History!Cardinality(bars) = HistoryBars /\ \E b \in bars : b # newest /\ b + 1 \notin bars
  BY DEF History!Verdict
<1>2. bars # {} /\ \A b \in bars : b \in 1 .. n
  BY <1>1
<1> HIDE DEF bars
<1>3. newest \in bars /\ \A c \in bars : c <= newest
  BY <1>2, LatestOf
<1>4. PICK b \in bars : b # newest /\ b + 1 \notin bars
  BY <1>1
<1>5. b \in Int /\ newest \in Int
  BY <1>2, <1>3
<1>6. b + 1 < newest
  BY <1>3, <1>4, <1>5
<1>7. \E c, top \in bars : c + 1 < top /\ c + 1 \notin bars
  BY <1>3, <1>4, <1>6
<1> QED
  BY <1>7 DEF bars

(* A plan that read all data sets and refuses its window for a gap read a   *)
(* data set that had no row there (algopack_intraday.py:85).                *)
LEMMA GapIsReal ==
  ASSUME HistoryInv, History!Plan, NEW p \in plans', p \notin plans, p.verdict = "contiguity",
         DOMAIN read = DataSets
  PROVE  \E b \in History!Bar, d \in DataSets :
           /\ read[d][b] = 0 /\ b \notin {s.bar : s \in p.window}
           /\ \E low, high \in {s.bar : s \in p.window} : low < b /\ b < high
<1> DEFINE known == {s.bar : s \in {u \in Stored : u.bar <= asOf /\ u.received <= cycle}}
           bars == {s.bar : s \in p.window}
<1>1. asOf # 0 /\ p = NewPlan(Stored)
  BY PlanIs DEF Decided
<1>2. p.window = History!Recent(Stored, asOf, cycle) /\ History!Verdict(p.window, asOf) = "contiguity"
  BY <1>1 DEF NewPlan
<1>3. /\ MaxBar \in Nat /\ HistoryBars \in Nat /\ now \in 0 .. MaxBar /\ asOf \in Nat /\ asOf <= now
      /\ cycle \in Nat /\ cycle >= 1
  BY <1>1, HistoryAssumption DEF History!HistoryAssumption, HistoryInv, History!TypeOK
<1>4. bars = History!LastOf(known)
  BY <1>2, RecentBars
<1>5. \A c \in known : c \in 1 .. asOf
  BY <1>1, <1>3, StoredHaveTypes DEF HistoryInv
<1>6. \A c \in History!Window : c \in known
  <2>1. \A c \in History!Window : c <= asOf
    BY <1>3, WindowIsCommon
  <2>2. \A s \in Stored : s.received <= cycle
    BY <1>1, <1>3, StoredHaveTypes DEF HistoryInv
  <2> QED
    BY <2>1, <2>2, StoredAre
<1>7. \A c \in bars : c \in known
  BY <1>4, LastAre
<1>8. PICK low, top \in bars : low + 1 < top /\ low + 1 \notin bars
  <2>1. \A s \in p.window : s.bar \in 1 .. asOf
    BY <1>5, <1>7
  <2> QED
    BY <1>2, <1>3, <2>1, ContiguityIs
<1>9. low \in Nat /\ top \in Nat /\ low >= 1 /\ low + 1 \in 1 .. asOf /\ low + 1 \in History!Bar
  BY <1>3, <1>5, <1>7, <1>8 DEF History!Bar
<1>10. low + 1 \notin History!Common
  <2> SUFFICES ASSUME low + 1 \in History!Common PROVE FALSE
    OBVIOUS
  <2>1. \A c \in History!Common : c \in 1 .. asOf
    BY WindowIsCommon
  <2>2. \A c \in History!LastOf(History!Common) : c \in known
    BY <1>6 DEF History!Window
  <2>3. low \in History!LastOf(known) /\ low + 1 > low
    BY <1>4, <1>8, <1>9
  <2> HIDE DEF known
  <2>4. low + 1 \in History!LastOf(known)
    BY <1>3, <1>5, <2>1, <2>2, <2>3, LastReachBack
  <2> QED
    BY <1>4, <1>8, <2>4
<1>11. PICK d \in DataSets : read[d][low + 1] = 0
  BY <1>9, <1>10 DEF History!Common, History!NoRow
<1>12. low < low + 1 /\ low + 1 < top
  BY <1>8, <1>9
<1> QED
  BY <1>8, <1>9, <1>11, <1>12

(* No other step decides.                                                  *)
LEMMA GapsStayBackfilled ==
  ASSUME HistoryInv, History!Next
  PROVE  \A p \in plans' \ plans :
           p.verdict = "contiguity" /\ DOMAIN read = DataSets =>
             LET bars == {s.bar : s \in p.window}
             IN \E b \in History!Bar, d \in DataSets :
                  /\ read[d][b] = History!NoRow /\ b \notin bars
                  /\ \E low, high \in bars : low < b /\ b < high
<1>1. CASE History!Plan
  BY <1>1, GapIsReal DEF History!NoRow
<1>2. CASE UNCHANGED plans
  BY <1>2
<1>3. ASSUME NEW d \in DataSets, NEW b \in History!Bar, History!Publish(d, b) \/ History!Revise(d, b)
      PROVE  UNCHANGED plans
  BY <1>3 DEF History!Publish, History!Revise
<1>4. ASSUME NEW d \in DataSets, History!Read(d) PROVE UNCHANGED plans
  BY <1>4 DEF History!Read
<1>5. ASSUME History!Tick \/ History!Start PROVE UNCHANGED plans
  BY <1>5 DEF History!Tick, History!Start
<1> QED
  BY <1>1, <1>2, <1>3, <1>4, <1>5 DEF History!Next

\* Only the part that moves has a history.
OfHistory == part = "history" => HistoryInv

(* The history is right for every number of data sets, bars, revisions and  *)
(* cycles and every length of the window: a decision is derived again from   *)
(* the store at any time, and a window is refused for a gap only where the  *)
(* exchange has one (intraday.py:140-160, algopack_intraday.py:85).          *)
THEOREM HistoryStaysReplayable == IntradaySpec => HistoryIsReplayable
<1>1. IntradayInit => OfHistory
  <2> SUFFICES ASSUME IntradayInit, part = "history" PROVE HistoryInv
    BY DEF OfHistory
  <2>1. History!Init
    BY DEF IntradayInit
  <2> QED
    BY <2>1, HistoryAssumption
    DEF History!Init, HistoryInv, History!TypeOK, History!DecisionsCanBeReplayed, History!HistoryAssumption
<1>2. OfHistory /\ [IntradayNext]_intraday_vars => OfHistory'
  <2> SUFFICES ASSUME OfHistory, [IntradayNext]_intraday_vars, part' = "history" PROVE HistoryInv'
    BY DEF OfHistory
  <2>1. CASE UNCHANGED intraday_vars
    BY <2>1 DEF OfHistory, intraday_vars, history_vars, HistoryInv, History!TypeOK, History!DecisionsCanBeReplayed,
       History!Recent, History!LastOf
  <2>2. CASE IntradayNext
    <3>1. HistoryInv /\ History!Next
      BY <2>2 DEF IntradayNext, OfHistory
    <3> QED
      BY <3>1, HistoryNextKeeps
  <2> QED
    BY <2>1, <2>2
<1>3. OfHistory => (part = "history" => History!TypeOK /\ History!DecisionsCanBeReplayed)
  BY DEF OfHistory, HistoryInv
<1>4. OfHistory /\ [IntradayNext]_intraday_vars =>
        [\A p \in plans' \ plans :
           p.verdict = "contiguity" /\ DOMAIN read = DataSets =>
             LET bars == {s.bar : s \in p.window}
             IN \E b \in History!Bar, d \in DataSets :
                  /\ read[d][b] = History!NoRow /\ b \notin bars
                  /\ \E low, high \in bars : low < b /\ b < high]_History!vars
  <2>1. ASSUME UNCHANGED history_vars PROVE UNCHANGED History!vars
    BY <2>1 DEF history_vars, History!vars
  <2>2. ASSUME UNCHANGED intraday_vars \/ (IntradayNext /\ part # "history") PROVE UNCHANGED history_vars
    BY <2>2 DEF intraday_vars, IntradayNext
  <2>3. ASSUME OfHistory, IntradayNext, part = "history" PROVE HistoryInv /\ History!Next
    BY <2>3 DEF IntradayNext, OfHistory
  <2> QED
    BY <2>1, <2>2, <2>3, GapsStayBackfilled
<1> QED
  BY <1>1, <1>2, <1>3, <1>4, PTL DEF IntradaySpec, HistoryIsReplayable, History!GapsAreBackfilled
==============================================================================
