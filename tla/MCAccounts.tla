----------------------------- MODULE MCAccounts -----------------------------
(***************************************************************************)
(* The commands with which the operator moves a sandbox installation       *)
(* (replacement of the accounts, bootstrap, migration of the journal), and *)
(* the incidents that the host announces.  They do not run at the same     *)
(* time; which of them moves is chosen at the beginning, and the variables *)
(* of the others stay empty.  The constants are those of the modules.      *)
(***************************************************************************)
EXTENDS SandboxReplacement, TLC

CONSTANTS
  Requests, MaxArtifacts, MaxMigrations,            \* of the migration
  Checks, Threshold, Repeat, MaxTime, MaxMishaps    \* of the incidents

VARIABLES
  part,            \* the machine that moves
  late,            \* of the bootstrap
  order, artifacts, aged, candidate,
  snapshot, incidents, outbox, ended, cut, mishaps

shared_vars == <<account, requests, bindings>>
operation_vars == <<previews, fresh, saved, locks, returned>>
journal_vars == <<order, artifacts, aged, candidate>>
incident_vars == <<snapshot, incidents, outbox, ended, cut, mishaps>>
accounts_vars ==
  <<part, shared_vars, process, runs, operation_vars, late, journal_vars, incident_vars>>

Bootstrap == INSTANCE SandboxBootstrap
Migration == INSTANCE JournalMigration WITH MaxRuns <- MaxMigrations
Incidents == INSTANCE MonitoringIncidents

ASSUME IncidentsAssumption == Incidents!BoundsAssumption

------------------------------------------------------------------------------
NoAccounts == account = <<>> /\ requests = <<>> /\ bindings = <<>>
NoOperation ==
  previews = <<>> /\ fresh = {} /\ saved = <<>> /\ locks = {} /\ returned = FALSE
NoJournal == order = <<>> /\ artifacts = <<>> /\ aged = 0 /\ candidate = <<>>
NoIncidents ==
  /\ snapshot = <<>> /\ incidents = <<>> /\ outbox = <<>>
  /\ ended = <<>> /\ cut = {} /\ mishaps = 0

AccountsInit ==
  \/ /\ part = "replacement" /\ Init
     /\ late = FALSE /\ NoJournal /\ NoIncidents
  \/ /\ part = "bootstrap" /\ Bootstrap!Init
     /\ NoOperation /\ NoJournal /\ NoIncidents
  \/ /\ part = "migration" /\ Migration!Init
     /\ NoAccounts /\ NoOperation /\ late = FALSE /\ NoIncidents
  \/ /\ part = "incidents" /\ Incidents!Init
     /\ NoAccounts /\ NoOperation /\ late = FALSE /\ NoJournal

AccountsNext ==
  /\ \/ /\ part = "replacement" /\ Next
        /\ UNCHANGED <<late, journal_vars, incident_vars>>
     \/ /\ part = "bootstrap" /\ Bootstrap!Next
        /\ UNCHANGED <<operation_vars, journal_vars, incident_vars>>
     \/ /\ part = "migration" /\ Migration!Next
        /\ UNCHANGED <<shared_vars, operation_vars, late, incident_vars>>
     \/ /\ part = "incidents" /\ Incidents!Next
        /\ UNCHANGED <<shared_vars, operation_vars, late, journal_vars>>
  /\ UNCHANGED part

AccountsSpec == AccountsInit /\ [][AccountsNext]_accounts_vars

\* The names of state files are alike, those of the orders, and the checks.
Symmetry == Permutations(Files) \cup Permutations(Requests) \cup Permutations(Checks)

------------------------------------------------------------------------------
(* The properties are those of the modules, each of the part that moves.   *)

\* A replacement that is cut off and continued as often as it may be repeats
\* nothing, knows what it did, and leaves the services two accounts
\* (sandbox_lifecycle.py:213-300).
AccountsAreSafe == part = "replacement" => ReplacementIsSafe

\* A bootstrap, wherever it ended and however often it is started, gives each
\* strategy one account of its own (cli.py:440-480).
BootstrapIsSafe == part = "bootstrap" => Bootstrap!BootstrapIsSafe

\* A migration neither invents nor forgets what became of an order
\* (execution_migration.py:100-190, cli.py:880-925).
MigrationIsTrue == part = "migration" => Migration!MigrationIsTrue

\* What the chat was told is what the table knows, once per period but for the
\* first row of a check, though the two are written in two databases
\* (monitoring_incidents.py:41-49).
IncidentsAreTold == part = "incidents" => Incidents!IncidentsAreTold
==============================================================================
