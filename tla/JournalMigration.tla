--------------------------- MODULE JournalMigration ---------------------------
(***************************************************************************)
(* sandbox-journal-prepare: the orders of an installation without a        *)
(* journal are collected from the artifacts of its runs, put into a        *)
(* candidate journal that nobody may trade on, and confirmed one by one at *)
(* the broker.  The artifacts are evidence of varying quality: they may    *)
(* repeat, contradict and misfile an order.  Every order is of one lot.    *)
(***************************************************************************)
EXTENDS Integers, Sequences, FiniteSets, SequencesExt, TLC

CONSTANTS
  Requests,                     \* the request ids of the orders
  MaxArtifacts, MaxRuns         \* bounds of the model

VARIABLES
  order,           \* the broker's order of each request
  artifacts,       \* the execution artifacts, in the order of their names
  aged,            \* how many of them are older than seven days
  candidate,       \* the candidate journal, if it was created
  process,         \* the command that runs
  runs

vars == <<order, artifacts, aged, candidate, process, runs>>

Profiles == {"long", "intraday"}     \* each is one account
Terminal == {"filled", "cancelled"}
Filled(state) == IF state = "filled" THEN 1 ELSE 0

\* What a run left: one order or none, and whether its portfolio artifact is the
\* one of the profile's account.  Of its status only "filled" is looked at.
Artifact ==
  [profile : Profiles, paired : BOOLEAN,
   row : {<<>>} \cup {<<[request |-> r, status |-> s, filled |-> f]>> :
                        r \in Requests, s \in {"filled", "unknown"}, f \in 0 .. 1}]

NoCandidate == [created |-> FALSE]
AtRest == [at |-> "idle", passed |-> FALSE]

Init ==
  /\ order \in [Requests -> {"absent", "new"}]
  /\ artifacts = <<>> /\ aged = 0
  /\ candidate = NoCandidate /\ process = AtRest /\ runs = 0

--------------------------------------------------------------------------
(* scan_legacy().                                                          *)

\* Every artifact of one profile is read before those of the other.
InReadingOrder ==
  LET numbered == [i \in DOMAIN artifacts |-> artifacts[i] @@ [run |-> i]]
  IN SelectSeq(numbered, LAMBDA a : a.profile = "long")
       \o SelectSeq(numbered, LAMBDA a : a.profile = "intraday")

Nothing == [entries |-> {}, issues |-> 0]

Entry(a) == [request |-> a.row[1].request, account |-> a.profile, run |-> a.run,
             filled |-> a.row[1].filled]

Malformed(a) == ~a.paired \/ (a.row[1].status = "filled" /\ a.row[1].filled # 1)

\* mutant: the later artifact is believed
Latest(previous, entry) == entry

\* Of two artifacts of one order the later is kept, with the larger fill.
Strongest(previous, entry) ==
  IF previous.filled > entry.filled THEN [entry EXCEPT !.filled = previous.filled] ELSE entry

OfAnotherAccount(e, entry) == e.account # entry.account

Collect(inventory, a) ==
  IF a.row = <<>> THEN inventory
  ELSE LET entry == Entry(a)
           same == {e \in inventory.entries : e.request = entry.request}
       IN IF Malformed(a) \/ \E e \in same : OfAnotherAccount(e, entry)
          THEN [inventory EXCEPT !.issues = @ + 1]
          ELSE [inventory EXCEPT !.entries =
                  (@ \ same) \cup (IF same = {} THEN {entry}
                                   ELSE {Strongest(e, entry) : e \in same})]

Inventory == FoldLeft(Collect, Nothing, InReadingOrder)

--------------------------------------------------------------------------
(* The command.                                                            *)

\* The dry run names no candidate; the broker is only asked with --verify-broker.
Start ==
  /\ process.at = "idle" /\ runs < MaxRuns
  /\ \E stage, verify \in BOOLEAN :
       process' = [at |-> "stage", stage |-> stage /\ Inventory.issues = 0, verify |-> verify,
                   inventory |-> Inventory, asked |-> {}, confirmed |-> 0]
  /\ runs' = runs + 1
  /\ UNCHANGED <<order, artifacts, aged, candidate>>

\* stage_legacy(): whatever the artifacts say of its state, a row is unknown.
Staged(e) == [account |-> e.account, state |-> "unknown", filled |-> e.filled]

\* The import is one transaction, and is not repeated for another manifest.
Stage ==
  /\ process.at = "stage"
  /\ \/ process.stage /\ ~candidate.created
        /\ LET entries == process.inventory.entries
           IN candidate' = [created |-> TRUE, manifest |-> artifacts,
                rows |-> [r \in {e.request : e \in entries} |->
                            Staged(CHOOSE e \in entries : e.request = r)]]
     \/ /\ ~process.stage \/ (candidate.created /\ candidate.manifest = artifacts)
        /\ UNCHANGED candidate
  /\ process' = [process EXCEPT !.at = IF process.verify THEN "verify" ELSE "report"]
  /\ UNCHANGED <<order, artifacts, aged, runs>>

\* lookup(): an order that is absent or cannot be read is unknown.
Lookup(r, floor) ==
  {[state |-> "unknown", filled |-> floor]}
    \cup CASE order[r] = "absent" -> {}
           [] order[r] = "new" -> {[state |-> "unknown", filled |-> 0]}
           [] OTHER -> {[state |-> order[r], filled |-> Filled(order[r])]}

\* record() in the candidate: fills never fall, what is terminal stays.
Accepts(row, answer) ==
  /\ answer.filled >= row.filled
  /\ row.state \in Terminal => answer.state = row.state /\ answer.filled = row.filled

Recorded(r, answer) ==
  candidate' = [candidate EXCEPT !.rows[r] =
                  [@ EXCEPT !.state = answer.state, !.filled = answer.filled]]

\* The answer does not contradict the artifacts, nor the candidate if there is one.
Consistent(e, answer) ==
  /\ answer.filled >= e.filled
  /\ process.stage => Accepts(candidate.rows[e.request], answer)

\* verify_inventory(), one order: recorded, or left as it is when it is too old
\* to be asked for, contradicted or refused.
Verify ==
  /\ process.at = "verify"
  /\ \E e \in process.inventory.entries :
       /\ e.request \notin process.asked
       /\ \/ /\ e.run > aged
             /\ \E answer \in Lookup(e.request, e.filled) :
                  /\ Consistent(e, answer)
                  /\ IF process.stage THEN Recorded(e.request, answer) ELSE UNCHANGED candidate
                  /\ process' = [process EXCEPT !.asked = @ \cup {e.request},
                       !.confirmed = @ + (IF answer.state \in Terminal THEN 1 ELSE 0)]
          \/ /\ e.run <= aged \/ \E answer \in Lookup(e.request, e.filled) : ~Consistent(e, answer)
             /\ process' = [process EXCEPT !.asked = @ \cup {e.request}]
             /\ UNCHANGED candidate
  /\ UNCHANGED <<order, artifacts, aged, runs>>

Unresolved == {r \in DOMAIN candidate.rows : candidate.rows[r].state \notin Terminal}

\* The exit status is 0: nothing is amiss in what this run has looked at.
Passes ==
  /\ process.inventory.issues = 0
  /\ process.stage => Unresolved = {}
  /\ process.verify => process.confirmed = Cardinality(process.inventory.entries)

\* The command ends with its exit status; that of a dry run promises nothing.
Report ==
  /\ \/ /\ process.at = "verify" /\ process.asked = {e.request : e \in process.inventory.entries}
     \/ process.at = "report"
  /\ process' = [at |-> "idle", passed |-> Passes /\ (process.stage \/ process.verify)]
  /\ UNCHANGED <<order, artifacts, aged, candidate, runs>>

\* An exception, of which another manifest is one, or a kill.
Leave ==
  /\ process.at # "idle" /\ process' = AtRest
  /\ UNCHANGED <<order, artifacts, aged, candidate, runs>>

\* sandbox-journal-reconcile on the candidate, one row, of whatever age.
Reconcile ==
  /\ process.at = "idle" /\ candidate.created
  /\ \E r \in Unresolved :
       \E answer \in Lookup(r, candidate.rows[r].filled) :
         Accepts(candidate.rows[r], answer) /\ Recorded(r, answer)
  /\ UNCHANGED <<order, artifacts, aged, process, runs>>

--------------------------------------------------------------------------
(* What goes on meanwhile.                                                 *)

Progress ==
  /\ \E r \in Requests, state \in Terminal :
       order[r] = "new" /\ order' = [order EXCEPT ![r] = state]
  /\ UNCHANGED <<artifacts, aged, candidate, process, runs>>

\* Artifacts come to light while no command runs.
Arrive ==
  /\ process.at = "idle" /\ Len(artifacts) < MaxArtifacts
  /\ \E a \in Artifact : artifacts' = Append(artifacts, a)
  /\ process' = AtRest
  /\ UNCHANGED <<order, aged, candidate, runs>>

Age ==
  /\ aged < Len(artifacts) /\ aged' = aged + 1
  /\ UNCHANGED <<order, artifacts, candidate, process, runs>>

Next ==
  \/ Start \/ Stage \/ Verify \/ Report \/ Leave \/ Reconcile
  \/ Progress \/ Arrive \/ Age

Spec == Init /\ [][Next]_vars

--------------------------------------------------------------------------
(* Properties.                                                             *)

Claims(r) == {i \in DOMAIN candidate.manifest :
                candidate.manifest[i].row # <<>> /\ candidate.manifest[i].row[1].request = r}

TypeOK ==
  /\ order \in [Requests -> {"absent", "new"} \cup Terminal]
  /\ aged \in 0 .. Len(artifacts)
  /\ candidate.created =>
       \A r \in DOMAIN candidate.rows :
         /\ candidate.rows[r].state \in Terminal \cup {"unknown"}
         /\ candidate.rows[r].account \in Profiles /\ candidate.rows[r].filled \in 0 .. 1
         /\ \A i \in Claims(r) : candidate.manifest[i].profile = candidate.rows[r].account

\* A row of the candidate is only resolved the way the order ended at the
\* broker, whatever the artifacts claim (cli.py:903-924, test
\* "Local FILLED is not broker confirmation", tests/test_execution_migration.py:76).
ResolvedAsAtTheBroker ==
  candidate.created => \A r \in DOMAIN candidate.rows \ Unresolved :
    candidate.rows[r].state = order[r] /\ candidate.rows[r].filled = Filled(order[r])

\* No evidence of a fill is lost on the way into the candidate, however the
\* artifacts repeat an order (execution_migration.py:112-115).
FillsAreKept ==
  candidate.created => \A r \in DOMAIN candidate.rows : \A i \in Claims(r) :
    candidate.rows[r].filled >= candidate.manifest[i].row[1].filled

\* The command that was given a candidate, or asked the broker, succeeds only
\* when every order of the artifacts has ended (cli.py:923).
SuccessMeansAllEnded ==
  process.at = "idle" /\ process.passed =>
      \A i \in DOMAIN artifacts :
        artifacts[i].row # <<>> => order[artifacts[i].row[1].request] \in Terminal

\* A migration neither invents nor forgets what became of an order
\* (execution_migration.py:100-190, cli.py:880-925).
MigrationIsTrue ==
  TypeOK /\ ResolvedAsAtTheBroker /\ FillsAreKept /\ SuccessMeansAllEnded
==============================================================================
