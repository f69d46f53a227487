\* One of the machines at a time.  Two state files and three starts: an
\* operation may be continued after another one was begun from the same
\* preview.  Two orders, with artifacts that contradict each other about them;
\* the broker is asked again by the second migration.  Three snapshots announce
\* an incident twice within its period, the fourth is after the period, or in
\* a second incident.  The starts of the operator, and the snapshots, end.
SPECIFICATION AccountsSpec
CONSTANTS
  Files = {a, b}
  MaxPreviews = 1
  MaxRuns = 3
  Requests = {x, y}
  MaxArtifacts = 2
  MaxMigrations = 2
  Checks = {moex, disk}
  Threshold = 2
  Repeat = 3
  MaxTime = 4
  MaxMishaps = 2
SYMMETRY Symmetry
INVARIANTS AccountsAreSafe BootstrapIsSafe MigrationIsTrue IncidentsAreTold
CHECK_DEADLOCK FALSE
