-------------------------- MODULE SandboxExecution --------------------------
(***************************************************************************)
(* Execution of a written plan on the sandbox account: one intent after    *)
(* another is checked against the lots projected from the snapshot,        *)
(* reserved in the durable journal, posted, polled until its time to live  *)
(* is over, cancelled and verified.  Several processes may do so: the      *)
(* timer's cycle and an operator who runs the command again with the same  *)
(* files.  The journal is the only thing they share on this side.          *)
(***************************************************************************)
EXTENDS SandboxBroker, SequencesExt

CONSTANTS
  Proc,            \* the processes that may execute
  Shortable,       \* the instruments that may be sold short
  MaxOrders        \* sandbox_max_orders_per_cycle

VARIABLES
  rows,            \* the account's rows of the order journal, in order
  artifacts,       \* snapshots and the plans made from them, as files
  proc             \* the processes: where each one is and what it holds

NoRow == 0
Statuses == {"request_pending", "unknown", "accepted", "partially_filled"} \cup Terminal

Unresolved == {r \in DOMAIN rows : rows[r].status \notin Terminal}
Completed == {r \in DOMAIN rows : rows[r].status \in Terminal}

Idle == [pc |-> "idle", job |-> 0, todo |-> {}, next |-> 1, projected |-> [s \in Secs |-> 0],
         req |-> NoRow, seen |-> [status |-> "unknown", filled |-> 0]]

\* A process goes on at pc, with the fields of change in place of its own.
Moved(old, pc, change) ==
  [field \in DOMAIN old |-> IF field = "pc" THEN pc
                           ELSE IF field \in DOMAIN change THEN change[field] ELSE old[field]]
Move(p, pc, change) == proc' = [proc EXCEPT ![p] = Moved(@, pc, change)]
Stay == [field \in {} |-> {}]
Forget == [req |-> NoRow, seen |-> Idle.seen]
End(p) == proc' = [proc EXCEPT ![p] = Idle]

At(p, pc) == proc[p].pc = pc
Job(p) == artifacts[proc[p].job]
Intent(p) == Job(p).intents[proc[p].next]

--------------------------------------------------------------------------
(* The journal.                                                            *)

LastOf(logical) == LET same == {r \in DOMAIN rows : rows[r].intent.id = logical}
                   IN IF same = {} THEN NoRow ELSE CHOOSE r \in same : \A q \in same : q <= r

\* A logical order may be repeated only to exit what a later plan still finds.
Repeatable(last, plan, intent) == rows[last].plan # plan /\ intent.rule = "mandatory flat"

\* What reserve() answers: a new request, nothing because it was done, or an error.
Reservation(plan, intent) ==
  LET last == LastOf(intent.id)
      known == artifacts[plan].completed        \* completed before the snapshot began
      newest == Len(rows)
  IN IF last # NoRow /\ rows[last].intent # intent /\ ~ Repeatable(last, plan, intent) THEN "error"
     ELSE IF Unresolved # {} THEN "error"
     ELSE IF last # NoRow /\ ~ Repeatable(last, plan, intent) THEN "done"
     ELSE IF newest # 0 /\ rows[newest].plan # plan /\ newest \notin known THEN "error"
     ELSE IF last # NoRow /\ last \notin known THEN "error"
     ELSE "request"

\* record() refuses fewer lots than it has and another end than it has.
Recordable(r, seen) ==
  /\ seen.filled >= rows[r].filled
  /\ rows[r].status \in Terminal => seen = [status |-> rows[r].status, filled |-> rows[r].filled]

Record(r, seen) ==
  rows' = [rows EXCEPT ![r] = [@ EXCEPT !.status = seen.status, !.filled = seen.filled]]

--------------------------------------------------------------------------
(* execute_shadow_plan().                                                  *)

\* The snapshot is free of active orders and at most five minutes old.
Executable(a, clock) ==
  /\ artifacts[a].phase # "none"
  /\ artifacts[a].open = 0
  /\ clock - artifacts[a].at <= 1

\* The first MaxOrders intents of the plan.
Batch(a) == {i \in DOMAIN artifacts[a].intents : i <= MaxOrders}

\* The checks of an intent against the lots projected so far.
Allowed(intent, current) ==
  LET resulting == current + intent.side * intent.lots
      opensShort == resulting < (IF current < 0 THEN current ELSE 0)
      reducing == /\ current # 0
                  /\ resulting * resulting < current * current     \* abs(resulting) < abs(current)
                  /\ current * resulting >= 0
  IN /\ opensShort = intent.margin
     /\ opensShort => intent.sec \in Shortable
     /\ intent.rule = "mandatory flat" => reducing

Begin(p, a) ==
  Move(p, "execute", [job |-> a, next |-> 1, projected |-> artifacts[a].position])

NextIntent(p) == [next |-> proc[p].next + 1]

Reserve(p) ==
  /\ At(p, "execute") /\ proc[p].next \in Batch(proc[p].job)
  /\ LET intent == Intent(p)
         a == proc[p].job
         answer == IF Allowed(intent, proc[p].projected[intent.sec])
                   THEN Reservation(a, intent) ELSE "error"
     IN \/ /\ answer = "error" /\ End(p)
           /\ UNCHANGED <<rows, orders>>
        \/ /\ answer = "done" /\ Move(p, "execute", NextIntent(p))
           /\ UNCHANGED <<rows, orders>>
        \/ /\ answer = "request"
           /\ rows' = Append(rows, [intent |-> intent, plan |-> a,
                                    status |-> "request_pending", filled |-> 0])
           /\ orders' = Append(orders, [sec |-> intent.sec, side |-> intent.side,
                                        lots |-> intent.lots, filled |-> 0, state |-> "unsent"])
           /\ Move(p, "post", [req |-> Len(rows) + 1])
  /\ UNCHANGED <<artifacts, position>>

\* submit(): a short is verified first, and a refusal ends the command with the row pending.
Post(p) ==
  /\ At(p, "post")
  /\ \/ Intent(p).margin /\ End(p) /\ UNCHANGED orders
     \/ InState(proc[p].req, "travelling") /\ Move(p, "answer", Stay)
  /\ UNCHANGED <<rows, artifacts, position>>

Seen(r) == [seen |-> [status |-> StateOf(r), filled |-> orders[r].filled]]

UnknownTo(p) == [seen |-> [status |-> "unknown", filled |-> proc[p].seen.filled]]

\* The answer of PostSandboxOrder is read, or it is lost and the order is unknown.
Answer(p) ==
  /\ At(p, "answer")
  /\ \/ Move(p, "record", [seen |-> [status |-> "unknown", filled |-> 0]])
     \/ /\ orders[proc[p].req].state # "travelling" /\ orders[proc[p].req].state # "lost"
        /\ Move(p, "record", Seen(proc[p].req))
  /\ UNCHANGED <<rows, artifacts, orders, position>>

RecordAnswer(p) ==
  /\ At(p, "record")
  /\ IF Recordable(proc[p].req, proc[p].seen)
     THEN /\ Record(proc[p].req, proc[p].seen)
          /\ Move(p, IF proc[p].seen.status \in Terminal THEN "settled" ELSE "poll", Stay)
     ELSE End(p) /\ UNCHANGED rows
  /\ UNCHANGED <<artifacts, orders, position>>

\* settle(): the state is read until it is final or the time to live is over.
Poll(p) ==
  /\ At(p, "poll")
  /\ \E change \in {Seen(proc[p].req), UnknownTo(p)} :
       Move(p, IF change.seen.status \in Terminal THEN "settled" ELSE "wait", change)
  /\ UNCHANGED <<rows, artifacts, orders, position>>

Wait(p) ==
  /\ At(p, "wait")
  /\ \E pc \in {"poll", "cancel_order"} : Move(p, pc, Stay)
  /\ UNCHANGED <<rows, artifacts, orders, position>>

\* The cancellation is sent: it is refused or its answer is lost, or it is accepted.
CancelOrder(p) ==
  /\ At(p, "cancel_order")
  /\ \/ Move(p, "settled", UnknownTo(p)) /\ UNCHANGED <<orders, position>>
     \/ CancelActive(proc[p].req) /\ Move(p, "settled", UnknownTo(p))
     \/ CancelActive(proc[p].req) /\ Move(p, "verify_cancel", Stay)
  /\ UNCHANGED <<rows, artifacts>>

\* mutant: an accepted cancellation is taken for the final state
VerifyCancelTrusted(p) ==
  /\ At(p, "verify_cancel")
  /\ Move(p, "settled", [seen |-> [status |-> "cancelled", filled |-> proc[p].seen.filled]])
  /\ UNCHANGED <<rows, artifacts, orders, position>>

\* The order is read once more; a state that is not final counts as unknown.
VerifyCancel(p) ==
  /\ At(p, "verify_cancel")
  /\ \E change \in {Seen(proc[p].req), UnknownTo(p)} :
       Move(p, "settled", IF change.seen.status \in Terminal THEN change
                          ELSE [seen |-> [change.seen EXCEPT !.status = "unknown"]])
  /\ UNCHANGED <<rows, artifacts, orders, position>>

\* The settled state is recorded, projected, and anything but filled stops the batch.
Settled(p) ==
  /\ At(p, "settled")
  /\ LET r == proc[p].req
         seen == proc[p].seen
     IN IF ~ Recordable(r, seen) THEN End(p) /\ UNCHANGED rows
        ELSE /\ Record(r, seen)
             /\ IF seen.status # "filled" THEN End(p)
                ELSE Move(p, "execute", [next |-> proc[p].next + 1, req |-> NoRow, seen |-> Idle.seen,
                       projected |-> [proc[p].projected EXCEPT
                          ![orders[r].sec] = @ + orders[r].side * seen.filled]])
  /\ UNCHANGED <<artifacts, orders, position>>

Executed(p) ==
  /\ At(p, "execute") /\ proc[p].next \notin Batch(proc[p].job)
  /\ End(p)
  /\ UNCHANGED <<rows, artifacts, orders, position>>

ExecuteStep(p) ==
  \/ Reserve(p) \/ Post(p) \/ Answer(p) \/ RecordAnswer(p)
  \/ Poll(p) \/ Wait(p) \/ CancelOrder(p) \/ VerifyCancel(p) \/ Settled(p) \/ Executed(p)

--------------------------------------------------------------------------
(* reconcile_execution_journal(): the broker is read, nothing is sent.     *)

\* mutant: an order the broker does not know is taken for cancelled
LookupRowAbsentIsFinal(p, pc) ==
  /\ At(p, "lookup")
  /\ \/ Unresolved = {} /\ Move(p, pc, Stay)
     \/ \E r \in Unresolved :
          Move(p, "found", [req |-> r, seen |-> [Seen(r).seen EXCEPT !.status =
                              IF @ = "unknown" THEN "cancelled" ELSE @]])
  /\ UNCHANGED <<rows, artifacts, orders, position>>

\* lookup() of the unresolved row; when there is none the command goes on at pc.
LookupRow(p, pc) ==
  /\ At(p, "lookup")
  /\ \/ Unresolved = {} /\ Move(p, pc, Forget)
     \/ \E r \in Unresolved :
          \E seen \in {Seen(r).seen, [status |-> "unknown", filled |-> rows[r].filled]} :
            Move(p, "found", [req |-> r, seen |-> seen])
  /\ UNCHANGED <<rows, artifacts, orders, position>>

\* What was found is recorded; a row that stays unresolved blocks the cycle.
RecordFound(p) ==
  /\ At(p, "found")
  /\ IF ~ Recordable(proc[p].req, proc[p].seen) THEN End(p) /\ UNCHANGED rows
     ELSE /\ Record(proc[p].req, proc[p].seen)
          /\ IF proc[p].seen.status \in Terminal THEN Move(p, "lookup", Forget) ELSE End(p)
  /\ UNCHANGED <<artifacts, orders, position>>
==============================================================================
