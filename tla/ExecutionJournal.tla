--------------------------- MODULE ExecutionJournal ---------------------------
(***************************************************************************)
(* src/src/moex_bot/execution_journal.py: the SQLite table that every      *)
(* order of the bot is written to before it is sent.  Each transaction is  *)
(* one action, because the code brackets it with BEGIN IMMEDIATE; who      *)
(* calls it, and with what snapshot or broker answer, is left open, so the *)
(* results hold for any number of concurrent or restarted processes.       *)
(*                                                                         *)
(* A row is identified by <<account, logical_id, generation>>: request_id  *)
(* is a fresh uuid4, or for PROD a uuid5 of the first two with generation  *)
(* always 1, so it is in bijection with that key.  payload_hash tells      *)
(* intents apart only by their number of lots here.  reserved_at is not a  *)
(* column: it bounds when an answer to the row can have been stamped.      *)
(***************************************************************************)
EXTENDS Integers

CONSTANTS
  Accounts, LogicalIds, Plans,
  MaxLots,        \* bound: the largest order
  MaxTime,        \* bound: the clock stops here
  MaxGeneration   \* bound: residual exits of one logical order

ASSUME BoundsAssumption ==
  /\ MaxLots \in Nat \ {0}
  /\ MaxTime \in Nat
  /\ MaxGeneration \in Nat \ {0}

VARIABLES
  actions,          \* the rows of the table
  last_rowid,       \* SQLite's insertion counter
  migration_state,  \* metadata row: may the journal be traded on?
  legacy_manifest,  \* metadata row: has history been imported?
  now               \* the host's clock

vars == <<actions, last_rowid, migration_state, legacy_manifest, now>>

TERMINAL == {"filled", "cancelled", "rejected"}
Reported == TERMINAL \cup {"unknown"}  \* "unknown" for any status not terminal
Never == -1

Row == [account : Accounts, logical_id : LogicalIds, generation : 1..MaxGeneration,
        lots : 1..MaxLots, plan_id : Plans,
        state : Reported \cup {"request_pending"},
        snapshot_at : Nat, reserved_at : Nat, completed_at : Nat \cup {Never},
        filled_lots : 0..MaxLots, rowid : Nat]

TypeOK ==
  /\ actions \subseteq Row
  /\ \A r \in actions : r.completed_at # Never <=> r.state \in TERMINAL
  /\ last_rowid \in Nat
  /\ migration_state \in {"ready", "review_required"}
  /\ legacy_manifest \in BOOLEAN
  /\ now \in Nat

------------------------------------------------------------------------------
(* The queries of reserve().                                               *)

UnresolvedAnswered(a) ==   \* mutant: a row no answer was recorded for is forgotten
  {r \in actions : r.account = a /\ r.state = "unknown"}

Unresolved(a) == {r \in actions : r.account = a /\ r.state \notin TERMINAL}

Chain(a, l) == {r \in actions : r.account = a /\ r.logical_id = l}

Last(a, l) ==      \* ORDER BY generation DESC LIMIT 1
  {r \in Chain(a, l) : \A q \in Chain(a, l) : q.generation <= r.generation}

(* What identifies a row. *)
OrderOf(r) == [account |-> r.account, logical_id |-> r.logical_id,
               generation |-> r.generation]

Completed(a) == {r \in actions : r.account = a /\ r.completed_at # Never}

Latest(a) ==       \* ORDER BY completed_at DESC: LIMIT 1 picks any of a tie
  {r \in Completed(a) : \A q \in Completed(a) : q.completed_at <= r.completed_at}

SeesLatestOrEqual(a, plan, snapshot) ==   \* mutant: < in place of <=
  \/ Completed(a) = {}
  \/ \E latest \in Latest(a) :
       latest.plan_id = plan \/ snapshot >= latest.completed_at

SeesLatest(a, plan, snapshot) ==
  \/ Completed(a) = {}
  \/ \E latest \in Latest(a) :
       latest.plan_id = plan \/ snapshot > latest.completed_at

NextGenerationAnySnapshot(a, l, plan, snapshot, residual_exit) ==
  IF Chain(a, l) = {}      \* mutant: the last generation's outcome is not compared
  THEN {1}
  ELSE {last.generation + 1 : last \in {r \in Last(a, l) : residual_exit /\ r.plan_id # plan}}

(* The generations reserve() may insert: the first of a logical order, or, *)
(* for the residual exit of another plan from a snapshot newer than the    *)
(* last generation's outcome, the next one.  None: it returns or raises.   *)
NextGeneration(a, l, plan, snapshot, residual_exit) ==
  IF Chain(a, l) = {}
  THEN {1}
  ELSE {last.generation + 1 : last \in {r \in Last(a, l) :
          residual_exit /\ r.plan_id # plan /\ snapshot > r.completed_at}}

InsertedFirst(a, l, g, lots, plan, snapshot) ==   \* mutant: generation always 1
  [account |-> a, logical_id |-> l, generation |-> 1,
   lots |-> lots, plan_id |-> plan, state |-> "request_pending",
   snapshot_at |-> snapshot, reserved_at |-> now, completed_at |-> Never,
   filled_lots |-> 0, rowid |-> last_rowid + 1]

Inserted(a, l, g, lots, plan, snapshot) ==
  [account |-> a, logical_id |-> l, generation |-> g,
   lots |-> lots, plan_id |-> plan, state |-> "request_pending",
   snapshot_at |-> snapshot, reserved_at |-> now, completed_at |-> Never,
   filled_lots |-> 0, rowid |-> last_rowid + 1]

reserve(a, l, lots, plan, snapshot, residual_exit) ==
  /\ migration_state = "ready"
  /\ Unresolved(a) = {}
  /\ SeesLatest(a, plan, snapshot)
  /\ \E g \in NextGeneration(a, l, plan, snapshot, residual_exit) :
       /\ g <= MaxGeneration
       /\ actions' = actions \cup {Inserted(a, l, g, lots, plan, snapshot)}
  /\ last_rowid' = last_rowid + 1
  /\ UNCHANGED <<migration_state, legacy_manifest, now>>

------------------------------------------------------------------------------
(* record(): the answers it refuses leave the table alone, and so does an  *)
(* answer that repeats a terminal row.  The code reads its clock (stamp)   *)
(* before BEGIN IMMEDIATE, which may wait for another writer.              *)

RecordableAgain(r, status, filled, stamp) ==      \* mutant: terminal rows not kept
  /\ filled <= r.lots
  /\ status = "filled" => filled = r.lots
  /\ stamp >= r.snapshot_at
  /\ filled >= r.filled_lots

Recordable(r, status, filled, stamp) ==
  /\ filled <= r.lots
  /\ status = "filled" => filled = r.lots
  /\ stamp >= r.snapshot_at
  /\ filled >= r.filled_lots
  /\ r.state \notin TERMINAL

Updated(r, status, filled, stamp) ==
  [r EXCEPT !.state = status, !.filled_lots = filled,
            !.completed_at = IF status \in TERMINAL THEN stamp ELSE Never]

record(r, status, filled, stamp) ==
  /\ Recordable(r, status, filled, stamp)
  /\ actions' = (actions \ {r}) \cup {Updated(r, status, filled, stamp)}
  /\ UNCHANGED <<last_rowid, migration_state, legacy_manifest, now>>

------------------------------------------------------------------------------
(* stage_legacy(): one import, only into an empty quarantined journal.     *)
(* request_id is the historical logical id and a primary key, so an id is  *)
(* imported for one account.  Their insertion order is not told apart.     *)

Imported(l, h) ==
  [account |-> h.account, logical_id |-> l, generation |-> 1, lots |-> h.lots,
   plan_id |-> h.plan_id, state |-> "unknown", snapshot_at |-> h.snapshot_at,
   reserved_at |-> now, completed_at |-> Never, filled_lots |-> h.filled_lots,
   rowid |-> 0]

History == {h \in [account : Accounts, plan_id : Plans, lots : 1..MaxLots,
                   filled_lots : 0..MaxLots, snapshot_at : 0..now] :
              h.filled_lots <= h.lots}

stage_legacy(entries) ==
  /\ migration_state = "review_required"
  /\ ~ legacy_manifest
  /\ actions = {}
  /\ actions' = {Imported(l, entries[l]) : l \in DOMAIN entries}
  /\ legacy_manifest' = TRUE
  /\ UNCHANGED <<last_rowid, migration_state, now>>

(* enroll_live_journal(): the second transaction, right after the journal  *)
(* was created.  A crash between the two leaves it in review forever.      *)
enroll ==
  /\ migration_state = "review_required"
  /\ ~ legacy_manifest /\ actions = {}
  /\ migration_state' = "ready"
  /\ UNCHANGED <<actions, last_rowid, legacy_manifest, now>>

Tick == now < MaxTime /\ now' = now + 1
        /\ UNCHANGED <<actions, last_rowid, migration_state, legacy_manifest>>

------------------------------------------------------------------------------
Init ==
  /\ actions = {} /\ last_rowid = 0
  /\ migration_state \in {"ready", "review_required"}
  /\ legacy_manifest = FALSE
  /\ now = 0

Reserve ==
  \E a \in Accounts, l \in LogicalIds, lots \in 1..MaxLots, plan \in Plans,
     snapshot \in 0..now, residual_exit \in BOOLEAN :
    reserve(a, l, lots, plan, snapshot, residual_exit)

Record ==
  \E r \in actions, status \in Reported, filled \in 0..MaxLots :
    \E stamp \in r.reserved_at..now : record(r, status, filled, stamp)

StageLegacy ==
  \E ids \in SUBSET LogicalIds : \E entries \in [ids -> History] :
    stage_legacy(entries)

Next == Reserve \/ Record \/ StageLegacy \/ enroll \/ Tick

Spec == Init /\ [][Next]_vars

------------------------------------------------------------------------------
(* Properties.                                                             *)

(* Two orders of one account are never both unresolved, whatever processes *)
(* call reserve() concurrently: the pending query and the INSERT of        *)
(* execution_journal.py:100-142 are one transaction.                       *)
OneUnresolvedPerAccount ==
  migration_state = "ready" =>
    \A r, q \in actions :
      r.account = q.account /\ {r.state, q.state} \cap TERMINAL = {} => r = q

(* No call, however many run at once, leaves the journal without its types *)
(* or an account with two orders of unknown end (execution_journal.py:1,   *)
(* "unknown delivery never permits another submit").                       *)
JournalIsSafe == TypeOK /\ OneUnresolvedPerAccount

(* The row reserved for an account just before row q. *)
Precedes(p, q) ==
  /\ p.account = q.account /\ p.rowid < q.rowid
  /\ \A m \in actions : m.account = q.account => m.rowid <= p.rowid \/ m.rowid >= q.rowid

(* When the account turns to another plan, the snapshot that plan trades   *)
(* on was read after every earlier order of the account was terminal.      *)
(* reserve() looks at one row only, the latest completed one, and skips    *)
(* the comparison when that row is of the same plan                        *)
(* (execution_journal.py:113-119).                                         *)
PlanSwitchSeesEveryOutcome ==
  migration_state = "ready" =>
    \A p, q, r \in actions :
      (/\ Precedes(p, q) /\ p.plan_id # q.plan_id
       /\ r.account = q.account /\ r.rowid < q.rowid)
      => r.state \in TERMINAL /\ q.snapshot_at > r.completed_at

(* A further generation of a logical order is sized on a snapshot taken    *)
(* after every earlier generation was terminal, so that no executed lot is *)
(* exited twice (execution_journal.py:98, 107, 120).                       *)
ResidualExitSeesEarlierFills ==
  \A r, q \in actions :
    (/\ r.account = q.account /\ r.logical_id = q.logical_id
     /\ r.generation < q.generation)
    => r.state \in TERMINAL /\ q.snapshot_at > r.completed_at

(* The ledger is append only: a row never disappears, an executed lot is   *)
(* never taken back and a terminal row never changes, even when answers of *)
(* the broker arrive late, repeated or out of order                        *)
(* (execution_journal.py:171-177).                                         *)
KeepsHistory ==
  \A r \in actions : \E q \in actions' :
    /\ OrderOf(q) = OrderOf(r)
    /\ q.filled_lots >= r.filled_lots
    /\ q.lots = r.lots /\ q.snapshot_at = r.snapshot_at
    /\ r.state \in TERMINAL => q = r

HistoryIsKept == [][KeepsHistory]_vars

------------------------------------------------------------------------------
(* The journal implements the order ledger.                                *)
Orders == [account : Accounts, logical_id : LogicalIds, generation : 1..MaxGeneration]
Outcomes == [state : TERMINAL, filled_lots : 0..MaxLots]
OutcomeOf(r) == [state |-> r.state, filled_lots |-> r.filled_lots]
AccountOfOrder(o) == o.account

OpenOrders == {OrderOf(r) : r \in {q \in actions : q.state \notin TERMINAL}}
ClosedOrders == {[order |-> OrderOf(r), outcome |-> OutcomeOf(r)] :
                   r \in {q \in actions : q.state \in TERMINAL}}

Ledger == INSTANCE OrderLedger WITH
            Order <- Orders, Outcome <- Outcomes, AccountOf <- AccountOfOrder,
            open <- OpenOrders, closed <- ClosedOrders

LedgerSpec == Ledger!Spec
==============================================================================
