# moex-tinvest-bot: TLA+ verification project

The repository is a trading bot for the Moscow Exchange that trades through the T-Invest API: a
LONG and an intraday strategy in the broker's sandbox, and supervised one-lot trades on a production
account. Nothing in it runs continuously. Timers and an operator start commands; each command
reads the broker and a few SQLite files, decides, writes, sends, and ends. What has to be right is
therefore not in one process but between many: a command that is killed after it sent an order, an
answer that arrives after the next command started, two commands on one file, a request the broker
took although its sender saw a timeout. This project models those parts, model-checks them with TLC
and proves the most important results with TLAPS.

All paths below are relative to `src/src/moex_bot/` unless they start with `src/`.

## 1. Inventory

| component | code | state it keeps | operations |
|---|---|---|---|
| execution journal | `execution_journal.py` | SQLite table `actions`, metadata `migration_state`, `legacy_manifest` | `reserve`, `record`, `unresolved`, `stage_legacy`; enrolment (`live_execution.py:117`) |
| supervised live trade | `supervised_execution.py`, `live_protection.py`, `take_profit.py`, `protection_recovery.py`, `supervised_operator.py`, `prod_session.py` | execution journal, protection journal (one row), preview files, the session lock | `preview`, `enroll`, `execute`, `protection-preview/apply`, `exit-preview/execute` |
| live execution | `live_execution.py`, `live_operator.py`, `integrations/tinvest_live.py` | execution journal | `execute_live_intent`, `reconcile_live_journal`, `enroll_live_journal` |
| one-shot trade, production | `prod_long_once*.py`, `prod_once_*.py` | claim and dispatch fence files, the two journals | claim, `run_once`, `recover_stop_only`, observe, restore |
| one-shot trade, sandbox | `long_auto_*.py` | ledger of states, anchor and fence files, execution journal | `init`, run, `_recover` |
| sandbox execution | `sandbox_execution.py`, `integrations/tinvest_sandbox.py` | execution journal, artifacts (written plans) | `execute_shadow_plan`, `settle`, `cancel_active_orders`, `reconcile_execution_journal`, snapshot |
| sandbox account lifecycle | `sandbox_lifecycle.py`, `cli.py` (bootstrap) | replacement state files, lock file, bindings in `bot.env` | preview, replacement (create, fund, bind, close), bootstrap of the profiles |
| notification outbox | `notifications.py`, `notification_policy.py` | SQLite outbox | enqueue, claim, mark sent/failed, requeue |
| intraday state | `intraday.py`, `integrations/algopack_intraday.py`, `cli.py` | opening equity, stored bars, journal | read and store bars, reconstruct entries, plan, execute, flatten |
| order building and risk | `strategy.py`, `execution.py`, `risk.py`, `geo.py`, `quality.py`, `harness.py`, `shadow.py` | none (a snapshot) | targets, sizing, the risk gate, the projected book |
| migration | `execution_migration.py`, `cli.py` | manifest, candidate journal | inventory, stage, confirm, reconcile |
| deployment, disaster recovery | `src/scripts/ubuntu/` (`update.sh`, `disaster-backup.sh`, `moex-botctl`, `run-*.sh`, `dr_journals.py`) | timers and services, the installed tree, locks, archives and trusted heads | update, backup, start, stop, enable; `capture-head`, `snapshot`, `rehearse` |
| backtest | `backtest*.py` | the replayed portfolio | match a session, mark, decide |
| monitoring | `monitoring*.py`, `src/scripts/ubuntu/kuma-telegram-relay.py` | SQLite tables of incidents and runs | notify |
| command line, shadow cycle | `cli.py`, `shadow.py` | artifacts | glue |
| signals, news, market data | `geo*.py`, `quality.py`, `event_calendar.py`, `integrations/moexalgo_data.py`, `integrations/algopack_*.py` | caches | read, score |
| reports, configuration | `*report*.py`, `*config.py` | files they read | not part of trading state |

How they interact. Every command that sends an order first writes a row to the execution journal
(`reserve`) and writes the broker's answer to the same row afterwards (`record`). The supervised trade
adds a second journal for its protective stop; the two are separate files, so a crash can fall
between any two of their transactions. The supervised commands exclude each other, and deployments,
with the lock file of `prod_session.py`; `live_operator reconcile` and `live_operator execute` use
the same execution journal without that lock. The one-shot trades put files that must survive a
restored database (claims, fences, anchors) beside the journals. Notifications are written to the
outbox and delivered by whichever command runs next. The intraday cycle reads what the broker has,
plans from it and executes the plan over a journal of the same kind; the plan of the LONG goes through
the risk gate of `harness.py`, which the backtest calls too. The scripts of the host stop the timers,
take the locks of production and of the sandbox LONG, and start the timers again.

What is hard, and what makes each part correct:

* **journal** - concurrent callers, late and repeated answers, stale snapshots. Correct: one
  unresolved order per account, no trade on a snapshot older than an outcome it depends on, history
  is never rewritten.
* **supervised trade** - a crash between any two steps, requests that arrive late or never, replayed
  commands, approvals that expire in the middle, a stop that triggers while it is cancelled, an
  unlocked reconcile. Correct: one lot is bought and sold at most once, at most one order can sell it,
  nothing is posted twice, both journals say what is so at the broker, what is ambiguous waits for
  the operator.
* **one-shot trades** - one attempt per enrolment, even after a database is restored from a backup.
* **sandbox execution, intraday** - a batch of orders sized on one snapshot; an order cancelled by its
  time to live may still fill; a cycle that is killed and one that runs again; data that comes late.
  Correct: nothing is sized on a position that changed, exits only reduce, final rows are final.
* **account lifecycle, migration** - several durable steps and requests without an idempotency key, a
  crash between any two. Correct: nothing ambiguous is repeated, no state claims more than is so.
* **order building** - each order is judged alone, the limits are of the whole plan. Correct: a plan
  keeps every limit, and risk can always be taken down.
* **deployment and recovery** - what a script stops, locks, copies and starts again, beside an operator
  who does the same, reboots and kills. Correct: nothing is replaced under a writer, one writer for an
  account, reviewed code for production, evidence that hides no order.
* **backtest** - money and volume in the order of time. Correct: nothing is paid with money of later,
  and the accounts add up.
* **monitoring** - messages and rows in two databases. Correct: each incident told once, and its end.

The complete list of hazards, each with its line, is in `PROJECT.json`.

## 2. Modules

| module | what it is |
|---|---|
| `OrderLedger` | abstract: an account has at most one open order; an order is opened once, closed once and keeps its outcome |
| `ExecutionJournal` | `execution_journal.py`, one action per transaction; implements `OrderLedger` |
| `MCExecutionJournal` | symmetry for its run |
| `ExecutionJournalProofs` | inductive invariant, invariants, action property and refinement, proved |
| `LotCustody` | abstract: one lot is bought once, has one seller at a time, and is sold once |
| `LiveBroker` | the production account: two orders, a native stop and its child, requests that travel |
| `SupervisedTrade` | the commands of a supervised trade on that broker; implements `LotCustody` and `OrderLedger` |
| `SupervisedTradeProofs` | its invariant, the action property and both refinements, proved; and that the journal alone keeps the two of `LiveCanary` apart |
| `OneShot` | abstract: one attempt, one BUY, one stop after its fill |
| `OneShotBroker` | the account of a one-shot runner: a BUY and a native stop per signal |
| `SandboxLongOnce` | the single-use LONG of the sandbox on that account; implements `OneShot` |
| `SandboxLongOnceProofs` | its invariants and its refinement, proved |
| `ProdLongOnce` | the single-use LONG of the production account on that account; implements `OneShot` too |
| `ProdOnceObserver` | its daily observer, reading beside it without a lock |
| `NotificationOutbox` | the table of messages and the processes that deliver them |
| `NotificationOutboxProofs` | its invariants, proved |
| `LiveCanary` | `prod-live-execute` beside `SupervisedTrade`, without the session lock |
| `SandboxBroker`, `SandboxExecution` | the sandbox account; the execution of a written plan on it, by any number of processes |
| `IntradayCycle` | the cycle of the intraday robot, composed with both |
| `IntradayProofs` | the invariants of the cycle and of the history, proved |
| `IntradayHistory` | the store of five-minute bars and the decisions made from it |
| `ExecutedEntries` | `executed_entries` against a reference definition, and its paged reading |
| `SandboxAccounts` | the accounts of a token and the bindings of the services |
| `SandboxReplacement`, `SandboxBootstrap` | the two commands that open, fund, bind and close accounts |
| `JournalMigration` | the journal of an installation that had none |
| `PlanRules` | targets, filters, sizing and the risk gate, as operators |
| `OrderPlanning` | one run of the planner, order by order |
| `FillRules` | the fill of one order in one window, as operators |
| `SessionMatching` | one session of the simulator, event by event |
| `BacktestReplay` | the replay: `PlanRules` and `FillRules` composed over a calendar |
| `Deployment` | timers, services, locks, `update.sh`, `disaster-backup.sh`, the operator |
| `DeploymentProofs` | its invariant and the action properties, proved |
| `DisasterRecovery` | heads, snapshots and rehearsals of `dr_journals.py` beside `ProdLongOnce` |
| `MonitoringIncidents` | incidents and the messages about them |
| `MCBeside` | `ProdOnceObserver`, `DisasterRecovery` and `LiveCanary`, one at a time |
| `ProdLongOnceProofs` | the invariants and the refinement of `ProdLongOnce`; the observer, the capture of evidence and, in this composition, the canary, proved |
| `MCIntraday` | `IntradayCycle` (a day with a kill, a day with a rerun), `IntradayHistory` and a small instance of `ExecutedEntries`, one at a time |
| `MCAccounts` | `SandboxReplacement`, `SandboxBootstrap`, `JournalMigration` and `MonitoringIncidents`, one at a time |
| `AccountsProofs` | the first two and the last of them, proved |
| `MCPortfolio` | small instances of `OrderPlanning`, `BacktestReplay` (twice) and `SessionMatching` |

The four `MC` modules of the end of this table check several machines in one run. The machines of a run do not act on each
other; the variable `part` says which of them moves and never changes, and the variables of the
others stay empty. So the states of such a run are the sum of those of its machines, not their product,
and a property of it is the property of each machine, asked of the states in which that machine moves.

### ExecutionJournal

A row of `actions` is a record. `request_id` is in bijection with account, logical order and
generation, so the row is known by those; the payload hash separates intents by their lots only.
`reserved_at` is not a column: it is the time of the INSERT, kept to bound the stamps that answers
can have. `reserve`, `record`, `stage_legacy` and `enroll` are the transactions; each is one action
because the code brackets it with `BEGIN IMMEDIATE`. One read is outside its transaction, the clock in
`record()` (`execution_journal.py:153`); a record's `stamp` is therefore any moment between the
reservation of the row and now. Nothing is assumed of the callers: any account, order, plan,
snapshot up to now and answer may be given, so the results cover any number of processes.

### SupervisedTrade and LiveBroker

`session` is the command that holds the lock and where it is; `Places` lists the points between two
of its reads, writes and sends. `Abort` ends the command at any of them: a kill, an exception, a guard
that failed. What a guard checks of the market, the limits, the settings and the admission file is left
out, because every such failure is an exception there, that is `Abort`; the failures that the code
handles (`NotSubmitted`, `StopNotDispatched`, `StopUnknown`, an order that is not filled) are actions.
`approval` is the confirmed preview of each command and how much of its time is left: `open` is enough to
start (180 s for the entry, 120 s for the exit), `short` is still valid, `expired` is not. A new `preview` of the
entry is another trade once the plan of one is prepared, so `Preview` asks that there is none. `enrolled` says
that the production ledger exists: `Enroll` creates it once, from a preview, and as that preview names no
ledger, the trade needs a second one.
`ledger` and `protection` are the rows of the two SQLite files. `reading` is the answer that the unlocked
`live_operator reconcile` holds between its read of the broker and its write.

The broker keeps its orders by idempotency key: a request that is repeated yields the order that
exists. A request is first `in_flight`, then it is delivered or lost, whatever happened to its sender
meanwhile. `sent` counts how often each was sent, up to two, and is only read by properties.
`capture()` is a sequence of HTTP reads and is one read in `Authorized` and `MayExit`; before an entry
and after a verified cancellation nothing of the trade can change at the broker, and `MayExit`
writes nothing, so a stop that triggers during it is a stop that triggers right after it.

### SandboxLongOnce and OneShotBroker

`ledger` is the SQLite file: missing, created and not yet filled by `init`, without a row (`WAITING`), or
with the one row of `attempt`. `anchor` and `fence` are the two files beside it, which nobody removes.
`process` is the command that holds `writer_lock`, with the order record it read last; its places are
the points between two reads, writes or sends. Each signal (`Candidates`) is a BUY and a stop with
idempotency keys of their own. `Raise` is any exception inside the `try` of a command, and writes
`QUARANTINED`; the checks of identity, market and limits that are not modelled fail like that, or, before
the claim, like `Kill`. `Kill` ends a command at any place and writes nothing.

`Backup` copies the ledger; `LedgerLost` and `Restore` are what can befall the state directory, at any
time when no command runs: `writer_lock` keeps commands and backups apart. A loss of the anchor directory
is outside the code's promise and not modelled. Every instrument is of one signal, the case in which
`preflight` and `protect` see least of the others. `protect` reads the order, the positions, the orders
and the stops, one read here, since nothing it looks for can appear between them: no stop was sent.
`verify_protection` runs twice and its second reading decides. `status` and `reconcile` only read.

### ProdLongOnce and ProdOnceObserver

`claim` and `fences` are the files of the claim directory; each fence is created exclusively and synced
before the request it announces. `ledger` and `protection` are the rows of the two journals, one for each
signal; `UNVERIFIED` is an `UNKNOWN` protection row that has the id of its stop. `process` is the command
under the session lock, `run_once()` or `recover_stop_only()`, and where it is. The gates (grant,
time, limits) are not modelled, each may fail when it is evaluated: before the claim that is `Kill`, inside
the `try` of `run_once` it is `Raise`, which leaves a result file, and where the code distinguishes more it is
`NotSubmitted`, `StopNotDispatched` or `StopUnknown`. The recovery does without `GuardedProtectionBroker`, so
a gate that fails in it is `StopUnknown`. A terminal row of the journal never skips the BUY here, as it
does in the supervised trade: `run_once` wants a journal without rows.

`Backup` and `Restore` copy the pair of journals, which backups take under the same lock; of the backups
there are two, the one of the enrolment and one that may be taken at any time. `ClaimLost` removes
`claim.json` alone. The loss of the whole claim directory is outside the code's promise
("empty control is not proof of no BUY", `prod_once_restore.py:3`). `live_operator reconcile` holds its answer in
`reading`.

`ProdOnceObserver` extends the module by an observation, one action per read: control files, rows that
survive, the two journals, then the order, the positions, the stops and the active orders. Two reads of
files with no effect between them are one. `moments` is history: how the trade stood in each state since
the observation began, in the states in which nothing is under way and until it reports; an alarm needs none. A
reading that no later one can make good ends the observation with the alarm it leads to.

### NotificationOutbox

A row is what the queries of `SQLiteOutbox` look at. Of its times only the outcome of their comparison is
kept: `due` (`available_at`) and `lease` (`lease_until`), which `BecomesDue`, `Abandoned` and `Outlasted`
turn at any later moment; so a delay, a clock that a command read before it waited for the lock, and two
commands with different clocks are all covered. `worker` is a run of `deliver_pending()`: the notifications
it claimed and did not send yet, and the one it sent or failed to send and did not mark yet, with the
attempts it read when it claimed. `Die` is a kill or a mark that raises because the file stays locked.
`delivered`, `failures` and `excused` are history, read by properties only.

### LiveCanary

`live_operator execute` reserves, sends and records like the supervised commands, over the same execution
journal, and takes no `production_session()`. `sale` is its process; the row "exit" is the SELL of a
production plan for the lot that the supervised entry bought, so the take-profit command, which has that
row in `SupervisedTrade`, is left out. The broker is read inside the transaction that reserves
(`live_execution.py:348`), and one read here. The supervised commands are those of
`SupervisedTrade` unchanged, except that approvals do not run out, since each gate that asks for one
may refuse anyway. The plan of the sale is written by the hourly cycle, previewed, and asked for again until the
order is posted; it, or its admission, may be over at any moment before.

### SandboxBroker, SandboxExecution, IntradayCycle

`orders` are the requests in the order they were made; each is unsent, travelling, lost or at the broker,
where it fills lot by lot. `rows` is the journal, with the plan and the intent of each row.
`artifacts` are the written plans with the snapshot they were made from; they stay, so an operator may execute
one again. `proc` is what each command does and has read. `SandboxExecution` has one action per read,
transaction and request of `execute_shadow_plan`, `submit` and `settle`: reserve, post, answer, record,
poll, wait, cancel, verify. `IntradayCycle` adds what `run-intraday-cycle.sh` does around it: cancel what
is active, reconcile, read portfolio and orders (two requests), plan, write. A plan flattens, exits or enters by the
phase of the day; signals, ranking and available capital are any of a small set. Prices are not modelled:
`Capital` and `MaxLots` are in lots.

### IntradayHistory and ExecutedEntries

In `IntradayHistory` the exchange publishes each data set late, in any order, and revises it; a cycle reads
one set after another, keeps the bars that all have, inserts those the store lacks and decides on the last
`HistoryBars` of them. A row is the number of its revision; a row with an invalid number, whose
bar is dropped and whose instrument is not evaluated in that cycle, is not modelled. `plans` is history: the window of each
decision. `ExecutedEntries` reads the day's operations page by page while fills go on, and folds
what it read; the property compares the fold with a definition by positions of the sequence.

### SandboxAccounts, SandboxReplacement, SandboxBootstrap

A request to open, pay or close has no idempotency key; it may be executed after its sender gave up, or
never. `SandboxReplacement` is the state file (`saved`), its lock file, the previews of the operator and the
process between two writes or requests; `returned` only records that the bindings went back to accounts that another
operation has confirmed as its old ones (finding `given_back`). `SandboxBootstrap` has no state file: it looks at the broker
and at `bot.env`, whose keys it writes one at a time. Money is in units of the target balance.

### JournalMigration

`order` is how each order stands at the broker; an artifact is a row somebody wrote down, in a profile, with a
state and a fill, and may be of the other profile or repeat another. `candidate` is the journal that is being
prepared, with its manifest. The command builds its inventory (`scan_legacy`), stages, asks the broker for each
order that is not too old, records, and ends with its exit status. Orders are of one lot.

### PlanRules and OrderPlanning

Money and prices are small integers, weights are percents. Momentum, the side of the trend and the verdict of the flow come
with the snapshot, the volatility that weighs targets is left out (equal weights), and order ids and
diagnostics are not kept. `OrderPlanning` judges the snapshot first and then gives
the gate one intent at a time; `book` is the projected portfolio (`harness.py:317-355`).

### FillRules, SessionMatching, BacktestReplay

`FillRules` is the fill of one order in one window of a session (price, capacity, cash, margin), with prices
in ticks, costs in percents and money in hundredths, so that no rounding is lost; why an order is
not filled is left out. `SessionMatching` takes order and window in the order of `match_session`.
`BacktestReplay` chooses the bars of a date when the date comes: match the orders of the last decision, mark,
charge the financing, decide. A bar is one window of the day there; several windows of a day are
`SessionMatching`'s. With `Channel` it is the challenger of `backtest_channel.py`. A negative cash is a
snapshot that raises (`domain.py:126`), after which nothing happens.

### Deployment and DisasterRecovery

`timers` are active, `enabled` come back with a boot, `working` are the services at work; `session` says
that the production service holds the session lock, which it takes for its run only. `release`, `tree`, `grant` and
`armed` are the revision installed, whether the tree is whole or half copied, and the revisions that were reviewed and
armed. `script` is `update.sh` or `disaster-backup.sh` between two commands, `start` is `moex-botctl
start`, which waits for its services. There is one operator, who gives only `stop` while a script or a `start` runs; neither is interrupted by it. `word` is
the last command given. Once the manifest is written, `version_status()` may already agree, when the package
has the same version (`Describe`). The timer "intraday" stands for all that take no lock. `Kill` ends a script without its trap, `Reboot` ends
everything.

`DisasterRecovery` adds to `ProdLongOnce` the head that is captured for a trusted place, the snapshot that is sealed in an
archive, and the rehearsal of any archive that lost files or was rolled back. A job holds the session lock
and reads one thing after another; `reconcile`, the broker and an operator who edits the settings go on.
There is one archive and one head, which a later one replaces, and the stop does not trigger, as no evidence
shows that.

### MonitoringIncidents

A run of `notify()` goes through the checks of a snapshot in any order; each message is committed in the
outbox at once, the rows at the end. `Die` is a kill or an exception, after which the rows are rolled back
and the messages stay. `outbox` holds every message queued so far, as the table does: a row that was
sent keeps its key. A key is the check, the word and `last_sent` as it is printed, which is `0` where the check has no
row and `0.0` where it has one that was never sent: `stored` tells them apart. A check may be missing from a snapshot, which is not a recovery.

## 3. Runs

| run | configuration | properties |
|---|---|---|
| `journal` | one account, two orders, two plans, two generations, clock 0..2 | `JournalIsSafe`, `PlanSwitchSeesEveryOutcome`, `ResidualExitSeesEarlierFills`, `HistoryIsKept`, `LedgerSpec` |
| `trade` | one trade, one poll before the deadline, fair | `TradeIsSafe`, `AmbiguousStopIsLeftAlone`, `CustodySpec`, `LedgerSpec`, `LockIsReleased` |
| `once_sandbox` | two signals, one reading of a pending entry, fair | `AttemptIsSafe`, `NoSilentExposure`, `OneAttemptSpec`, `CommandEnds` |
| `once_prod` | two signals, one poll before the deadline, fair | `AttemptIsSafe`, `OneAttemptSpec`, `CommandEnds` |
| `outbox` | two messages, two processes, two attempts, one mishap, one requeue, fair | `OutboxIsSafe`, `DuplicatesAreExcused`, `SentIsFinal`, `EveryMessageSettles` |
| `beside` | one signal, or one entry and one SELL for its lot; one poll, one archive | `ObserverIsRight`, `ArchivesHideNothing`, `EvidenceIsKept`, `CanaryIsSafe` |
| `intraday` | a day of two instruments (one shortable) held alike, two cycles and a kill; a rerun beside two cycles, of an instrument that is held and entered; two data sets, three bars; up to four fills | `DayIsInOrder`, `PlansFitThePosition`, `HistoryIsReplayable`, `EntriesAreRead` |
| `accounts` | two state files and three starts; every kind of installation and three starts; two orders, two artifacts, two commands; two checks, four snapshots, two deaths, a period of three | `AccountsAreSafe`, `BootstrapIsSafe`, `MigrationIsTrue`, `IncidentsAreTold` |
| `deployment` | one further revision, deployed again and again, fair | `ReleaseIsSafe`, `UpdatesDisturbNobody`, `ScriptEnds` |
| `portfolio` | three securities of two sectors and one cluster; a session of two orders and two windows per security; two securities over five dates; the challenger over seven | `PlanIsSound`, `BooksAreTrue`, `PositionsGoOneWay`, `FillsAreReal` |
| `exit_retried`, `never_oversold` | no polling | two disagreements between the code and what the repository says (section 6) |

Several properties are conjunctions of named parts, with the type invariant of the module as the first.
The parts are:

* `JournalIsSafe`: `OneUnresolvedPerAccount`, two processes never both have an order on the way.
  `PlanSwitchSeesEveryOutcome`: `reserve` compares a snapshot with one row only, and skips that if
  the row is of the same plan; still, a plan that takes over an account saw every earlier outcome.
  `ResidualExitSeesEarlierFills`: a further generation of an exit never sells what is already sold.
  `HistoryIsKept`: no row, fill or outcome is ever lost or changed.
* `TradeIsSafe`: `NeverTwoSellers`, the stop and the take-profit sale can never both sell the lot, requests
  on their way included; `NothingPostedTwice`, no crash, replay or recovery sends an order or a stop
  again; `JournalsAgreeWithBroker`, a terminal row is the final state of its order, a `PLANNED` stop was
  never sent, `EXIT_STOP_CANCELLED` and `CLOSED_TAKE_PROFIT` are so.
  `AmbiguousStopIsLeftAlone`: a stop whose POST is ambiguous is never adopted, planned anew or armed.
  `LockIsReleased`: every command ends. `CustodySpec`, `LedgerSpec`: the refinements.
* `AttemptIsSafe` (both one-shot trades): `OneOfEach`, whatever is killed, lost, restored and selected
  next, one BUY, one stop and one cancellation are sent for the whole enrolment, all for one signal;
  `LedgerIsTrue` and `JournalsAreTrue`, a row says the truth about its order and its stop, also when a backup
  brought it back, and a recovery never accepts one whose stop was sent.
  `NoSilentExposure`: a lot that no stop ever protected is, while no command runs, never in a state that
  the operator is told needs nobody. `OneAttemptSpec`: the refinement of `OneShot`. `CommandEnds`:
  every command ends.
* `OutboxIsSafe`: `NothingLost`, `sent` is a true receipt and `dead` means that many sends raised, however
  processes overlap. `DuplicatesAreExcused`: a message comes twice only after a lost answer, a death
  between send and mark, or a send that outlasts its lease, never because several commands deliver at
  once. `SentIsFinal`: no late process changes the row of a sent message. `EveryMessageSettles`: every
  message ends as sent or dead.
* `ObserverIsRight`: `ReportIsAMoment`, no report that wakes nobody up is put together from reads of different
  states; `LostEvidenceIsReported`, a trade whose claim or journals are lost is never reported as no trade.
  `ArchivesHideNothing`: `FitShowsTheBuy`, evidence that hides a BUY is never captured;
  `AcceptedHidesNothing`, a rehearsal accepts nothing that hides what was sent before the trusted head.
  `EvidenceIsKept`: `SessionsLeaveItFit`, no kill of a trade makes its evidence unfit; `SealedAsItStood`, an
  archive is of one moment. `CanaryIsSafe`: `SaleAfterEntry`, a SELL without the session lock is on its way
  only when the entry is over and filled; `NothingPostedTwice` and `JournalsAgreeWithBroker` as above.
* `DayIsInOrder`: `EntriesAreBounded`, over all cycles, reruns and kills of a day no more entries than allowed,
  none twice; `FinalRowsAreTrue`, what the journal calls final is final at the broker, in its lots too.
  `PlansFitThePosition`: `SizedOnWhatIsHeld`, nothing is reserved while another order can still fill, or on lots
  that are no longer held; `ExitsOnlyReduce`, a fill of a closing order brings the position nearer to zero, never
  past it. `HistoryIsReplayable`: `DecisionsCanBeReplayed`, late, backfilled and revised rows never enter the
  window of an earlier decision; `GapsAreBackfilled`, a gap is refused only while a data set has it.
  `EntriesAreRead`: `EntryIsOfTheOpenPosition` and `ReadingIsAPrefix`, the fold agrees with its definition, and
  what was read is the day up to some moment.
* `AccountsAreSafe`: `NothingTwice`, an operation opens, funds and closes once; `JournalIsTrue`, its state file
  claims no more than is so and no less than was sent; `NeverWithoutAccounts`, no binding to an account that is
  closed or about to be, but where the bindings were given back (finding `given_back`). `BootstrapIsSafe`: `ProfilesStayApart`, `AliasIsNotASecondAccount`,
  `RerunRepeatsNothing`, wherever it ended before. `MigrationIsTrue`: `ResolvedAsAtTheBroker`, `FillsAreKept`,
  `SuccessMeansAllEnded`, it never believes an artifact over the broker, loses no fill, and succeeds only when
  every order has ended. `IncidentsAreTold`: `RepeatedOverItsFirstRow`, an incident is not announced twice in its
  period, also across deaths, but where the first message was keyed before its check had a row (finding
  `told_twice`); `ToldAsKnown`, the last message about a check agrees with the table unless its run
  died, and then until the next message.
* `ReleaseIsSafe`: `OneLongWriter`, `ProdAsReviewed`. `UpdatesDisturbNobody`: `NothingReplacedUnderAWriter`,
  `OnlyWhatWasThere`, `TimersComeBack`, a script starts no timer that it did not find active, the isolated LONG's only on
  checked files and production's never, and leaves all of the others active, or the ordinary ones if it fails.
  `ScriptEnds`: a script gives its locks back.
* `PlanIsSound`: `BookAddsUp`, `WithinLimits`, `ReserveAfterPlan`, the projected totals are those of the positions
  left, a whole plan keeps the limits and, when its sales are filled, the reserve; `OneSidedOrders`,
  `ReductionStaysPossible`, `NothingGrowsInACrisis`, no order crosses zero, risk can always be taken down, and in a
  critical hour none grows. `BooksAreTrue`: `PnlExplainsEquity`, `SnapshotIsLegal`, `StaleNeverTrades`,
  `WarmUpLeavesNoTrace`. `PositionsGoOneWay`: `NeverCrossesZero`, `OnItsWayOut`. `FillsAreReal`:
  `PaidAtItsMoment`, `SharedBudget`, `ShortByMarginOnly`, `ReserveIsForCovering`.

Bounds. Two plans and two generations are what `PlanSwitch...` and `ResidualExit...` compare, and a
third row of the same account makes the row before the latest differ from the latest; three clock
values order a snapshot before, with and after an outcome. In the trade there is one lot, one order of
each kind, one stop, as `supervised_operator.py` fixes them; `MaxPolls = 1` separates the states before,
in and after the polling loop, and a further poll repeats them. The one-shot trade needs a second
signal to refuse; a third could do what the second does, and the proofs about the sandbox hold for every number of
signals and readings. `beside` has one signal, since `once_prod` shows that a second one never reaches
the broker. Two messages and two processes are enough to overtake each other, and a limit of
one leaves a message whose lease is over unclaimed; eight attempts are two, since the proofs hold for
any number. Deadlock is not checked in `journal`, `trade`, `beside` and `outbox`: a journal whose clock is at its
bound, a trade that is over and an outbox that is settled may stop.

Two instruments and two cycles let one cycle leave an order to the next, and one that fails stop the other;
a rerun needs one instrument only, and is an instance of its own because the two questions are; it has no kill, since a
process that stays where it is has done what a killed one has. One trade on the accounts makes one of them other than confirmed. Three bars and two
cycles let a window of two be read with a gap, backfilled and revised. Four fills open, enlarge, reduce and turn a position.
Three starts of a command are a first one, one that is killed in what the first left, and one that
finishes; two state files let an operation be continued after another has begun. Two artifacts can repeat, contradict or
misfile an order. Three securities are a sector of two and a cluster of three; the amounts are chosen so that each limit,
reserve and reduction of `PlanRules` is met by some plan; the weight of one position and `max_open_orders` are no part of
`WithinLimits`. Two windows order a sale before a purchase. Five dates
hold a warm-up, a weekend longer than a day, and two decisions; seven dates an entry, an exit in parts and a
re-entry of the challenger. One revision can be deployed again. Three
snapshots are the shortest incident that a death hides, and the shortest that is announced twice within its period; the
fourth is after the period, or in a second incident. All these systems end with their day, calendar or starts,
so deadlock is checked only in `once_sandbox`, `once_prod` and `deployment`.

Fairness. `outbox` assumes that each process continues, that time passes, and that only a bounded number
of processes die: `deliver_pending` is run by several timers for ever (`run-shadow-cycle.sh:100`,
`kuma-telegram-relay.py:47`). `trade`, `once_sandbox` and `once_prod` have weak fairness of "the command
takes a step or raises", which each command has because its requests time out (10 s,
`live_protection.py:328`), only reads are retried, at most three times
(`integrations/tinvest_sandbox.py:96`), and the wait for a fill has a deadline
(`supervised_execution.py:214`) or a number of readings (`long_auto_once.py:286`, requests at
`long_auto_sandbox.py:132`). The broker, the network, the operator and `reconcile` are not fair.
`deployment` has weak fairness of a script, whose commands all end; the rest of the host is not fair. That a cycle
of the intraday strategy and a capture of `dr_journals.py` end is not checked: the first leaves the wait for an order at its
time to live (`integrations/tinvest_sandbox.py:798`), the second retries nothing.

Each property of a passing run has a mutant: an operator beside the definition it replaces, that makes one plausible
mistake and for which TLC finds the property violated.

## 4. Proofs

`ExecutionJournalProofs` proves for all sets of accounts, orders and plans and all bounds
(`BoundsAssumption` is the only assumption):

* `Invariance`: the inductive invariant `IInv`, that is `TypeOK`, `KeysAndStamps`, `Serial` and the two
  snapshot invariants. The stated invariants are not inductive alone: that one comparison with the
  latest outcome covers all earlier ones needs that orders of an account follow one another
  (`Serial`): each is terminal, with an outcome stamped no later than the next reservation, before the
  next is inserted, and strictly earlier when the plan changes. That needs that snapshot,
  reservation and outcome of a row are stamped in that order (`KeysAndStamps`).
* `TypeCorrect`, `OneUnresolved`, `PlanSwitch`, `ResidualExit`: the invariants of the run `journal`;
  `JournalStaysSafe` puts the first two together.
* `HistoryKept`: the action property, one step per action.
* `ImplementsLedger`: the refinement; `RecordCloses` and `ReserveOpens` map the two interesting
  transactions to `Close` and `Open`, the others to `Import` or a stutter.

`SandboxLongOnceProofs` proves for every set of signals and every number of readings:

* `Safety`: `Safe`, that is `TypeOK`, `InCommand` and `Dispatches`. `OneOfEach` is not inductive: it needs
  that a command past the anchor works for the signal in the anchor (`InCommand`), and that before the
  anchor nothing was sent, before the cancellation no cancellation and before the fence no stop
  (`Dispatches`). Nothing is needed of the ledger, which may be any row a backup holds.
* `TypeCorrect`, `OneOfEachSent`: what follows from it; with `TrueLedger`, `AttemptStaysSafe`.
* `TruthAlways`: `Truth`: the row, the backup and what the command has read say what is so at the
  broker. It is inductive because outcomes at the broker are final. `TrueLedger` and
  `ExposureIsSeen` follow from it and `Safe`.
* `ImplementsOneShot`: the refinement; the anchor is the claim, and `Dispatches` makes the totals 0 or 1.

`NotificationOutboxProofs` proves for every finite set of messages and all other bounds: `TypeCorrect`;
`ReceiptsAreTrue` from `Counted` (no row and no batch counts more attempts than sends raised, and what is
held as sent was delivered), with the types `OutboxStaysSafe`; `SentStaysSent`, a case per action; `NoOtherDuplicates` from `Excusable`: a
message without an excuse is in the hands of one process at most, and then leased, and its only delivery
is marked or in the hands of that process.

`ProdLongOnceProofs` proves for every set of signals and every number of polls, along the same argument:

* `Safety`: `Safe`, with the dispatch fences in the place of the anchor: a request is sent only in the place that is
  named like it, behind its own fence, which is created there and never removed (`Dispatches`), and nothing past the
  BUY runs without its fence (`InCommand`). The claim and the journals may be lost or restored at any time.
* `OneOfEachSent`, and with `TruthAlways` (rows, backups and what the command or the unlocked `reconcile` has read
  are true of the broker) `AttemptStaysSafe`.
* `ImplementsOneShot`: the refinement; the fence of the BUY is the claim.

`SupervisedTradeProofs` proves for every number of polls:

* `Invariance`: `Whole`, that is `IInv` and `SaleAfterStop`. `TradeIsSafe` alone is not inductive. A row is true of
  its order only if what a command (`Ordered`) and the unlocked `reconcile` (`TrueRows`) hold and have not
  written yet is true and stays so, which it does because only final states are believed; no order is sent twice only
  if the row at the gate is pending and its order was not sent (`Ordered`), also when `reconcile` writes
  that row meanwhile; no stop is sent twice only if the journal says `POST_PENDING` without an id at its gate
  (`Protected`), and nothing goes back from there to `PLANNED` once it was sent (`TrueProtection`); the sale follows the
  stop because the exit keeps `EXIT_STOP_CANCELLED` from its verified cancellation to its sending (`Yielded`).
* `TradeStaysSafe`: `TradeIsSafe`. `AmbiguityIsLeft`: `AmbiguousStopIsLeftAlone`, an action at a time.
* `ImplementsLedger`: each step opens one row, closes one or leaves both (`RowStep`), as `ExecutionJournal` does.
* `ImplementsCustody`: the state of the lot and who may sell it are first brought to a form without overlaps
  (`LotIs`, `SellerIs`, equal under the invariant by `MappedIs`); then only requests that leave (`SendCustody`)
  and the broker (`BrokerCustody`) change them.

The same module proves for every number of polls, with the unlocked sale beside the trade, `CanaryStaysSafe` and
`CanaryImplementsLedger`. `IInv` holds here as well: no step of the sale disturbs what a supervised command relies on,
and `Inductive` covers all other steps. `SaleAfterStop` does not hold (finding `never_oversold`), which is why it
stands apart. What is added is that the row of the sale exists only after the entry is filled, and what the sale holds.

`DeploymentProofs` proves for every number of revisions (`ReleaseAssumption`), with kills and reboots anywhere:
`Invariance` of `IInv` (a script has both locks from its first step to its last and notes only timers that it may start
again, it is past the checks only with what they have passed, production is armed with the
installed revision wherever a timer or a boot could start it, and what the trap put back stays), from it
`ReleaseStaysSafe`, `NoWriterDisturbed`, `NothingElseStarted`, `NoTimerLost`, and with the last three `NobodyDisturbed`.

Beside it, in the composition `MCBeside`:

* `ObserverStaysRight`: `ObserverIsRight`. The invariant `Observation` says that what the observer goes by is of a
  moment while it reads (`ReadInTime`): an order that it saw ended stays as it ended (`EndedStays`), so each later read
  that confirms it was so at some moment before the report.
* `ArchivesStayTrue`: `ArchivesHideNothing`. A command writes its rows before it needs them and never lets go of the
  claim (`Steady`), so evidence that is fit to be captured shows a BUY that was sent; what a job has read and copied is
  the evidence of that moment (`Heads`), and a head that was captured names what was bought by then (`TrustedShows`).
* `EvidenceStaysFit`: `EvidenceIsKept`, an action property. What `head()` demands of the evidence is that rows are linked
  and the claim is controlled (`FitIs`); no step of a command breaks that, wherever the command is killed.
* `CanaryStaysSafeBeside`: what `SupervisedTradeProofs` shows of it, instantiated.

`AccountsProofs` proves, each for the machine of `MCAccounts` that moves:

* `ReplacementStaysSafe`: `AccountsAreSafe`, for every set of state files and every number of previews and starts. The
  invariant `ReplacementInv` relates three kinds of memory. Every request is known to a state file, which says at least
  that it was announced (`RequestsAreKnown`); so nothing, the closing of an old account included, is asked for twice (`OnceEach`) although the sender may
  have been killed before its answer. An account of an operation was asked for, and has what was paid to it or less
  (`AccountsAreTrue`): what a late payment brings is bounded by what was announced. A state file says no more than is so
  (`StatesAreTrue`), and a command stands where its file lets it (`InPlace`). That the bindings stay open needs that
  the old accounts of an operation are never those that it opened itself (`PreviewsAreOlder`), and that no operation
  that has switched replaces what is bound (`SwitchedForward`), which is what `returned` breaks.
* `BootstrapStaysSafe`: `BootstrapIsSafe`, for every number of starts. The command writes down nothing, so its
  invariant is about what it holds: the env it read is `bot.env` until it writes it, and each account it found is
  open and is the configured one, where that is open (`CommandKnows`, `RightAccount`). `RerunRepeatsNothing`
  needs that, as long as nothing was executed late, the one request that can still be is the one the
  command waits for, and that what it asks for was missing when it looked (`NothingLate`).
* `ToldOnceAndAsKnown`: `IncidentsAreTold`, for every set of checks, every threshold, period and number of snapshots
  and deaths. The invariant says what a run that is under way knows of each check it has come to (`RunKnows`), that no
  message has a newer key than its row, unless its run died before the rows were written (`MessagesAreKeyed`), that a
  key printed without a row is the first one, and one printed from a row belongs to a check that has a row
  (`FirstKeys`), and that the last word about every other check is the table's (`UncutIsKnown`).

`IntradayProofs` proves for any instruments, bars, limits and holdings, any processes, and every number of cycles,
reruns and kills:

* `DayStaysInOrder`: `DayIsInOrder`. `PlansStayFit`: `PlansFitThePosition`, an action property. Both follow from the
  inductive `DayInv`, which has two parts. `Books` is about what is written: the types; one row of the journal is
  open at most, and it is the last; a final row says what the broker has, and an order that can still be filled has
  an open row; the entries of the day were marked, each signal once; and what an artifact says of the account.
  `Processes` says what a command that stands at a certain step holds, and that it is so: the plan, the row it works
  for, the reading it has made.
* What carries it: a snapshot stays true of the account as long as only rows of its own plan have come after the rows it
  knew. An instrument of which the plan has no row is then held as the snapshot says, and one of which it has a row
  differs by what that order was filled with. `reserve()` refuses a plan that a row of another plan has overtaken,
  so each request is of such a plan, whoever executes it, and the projection of the command is what is held.
  That an exit does not pass zero needs in addition that the lots of a closing order were those of the snapshot (`ClosesAll`).
* `IntradayRunsTheDay`: each behaviour of the run is one of `IntradayCycle`, so both hold in all parts of the run.
* `HistoryStaysReplayable`: `HistoryIsReplayable`, for any data sets, bars, revisions and length of the window. A
  decision knows of the bars received up to its own cycle, and later bars bear a later cycle (`HistoryInv`), so what it
  may know does not change. That a refused window has a real gap needs that the last bars of the store miss no
  bar that the cycle read after their first (`LastReachBack`): a bar that `history()` did not take had
  `history_bars` later ones, all of them stored.

The assumptions are those of the modules: `BoundsAssumption` of three of them, `MessagesAssumption`, `ReleaseAssumption`, `PollsAssumption`
(a bound on the polls is a natural number), `DayAssumption` and `HistoryAssumption` (limits, lots and bounds are
numbers, and a limit of lots is not zero), `FilesAssumption` (the accounts that are found have no name of a state
file) and `NoCandidateAssumption` (a value that stands for no signal is none).
They say of which kind a constant is, and nothing about the system. What the broker does is part of the models.

Model-checked only:

* liveness under fairness (`LockIsReleased`, `CommandEnds`, `EveryMessageSettles`, `ScriptEnds`), out of the
  prover's reach;
* what is defined by a fold over data of any length (`JournalMigration`, `ExecutedEntries`, `PlanRules`,
  `OrderPlanning`, `FillRules`, `SessionMatching`, `BacktestReplay`), with the properties `MigrationIsTrue`,
  `EntriesAreRead`, `PlanIsSound`, `BooksAreTrue`, `PositionsGoOneWay` and `FillsAreReal`: its values for every input need
  an induction over the data, which is out of reach as well.

## 5. Plan

1. done - `ExecutionJournal`, `OrderLedger`, proofs.
2. done - `LiveBroker`, `SupervisedTrade`, `LotCustody`, runs `trade` and `exit_retried`, with proofs.
3. done - `ProdLongOnce`, `ProdOnceObserver`, runs `once_prod` and `beside`, with proofs of the first.
4. done - `SandboxLongOnce`, with the abstraction `OneShot`, and proofs.
5. done - `NotificationOutbox`, with proofs.
6. done - `SandboxAccounts` with `SandboxReplacement` and `SandboxBootstrap`.
7. done - `SandboxBroker`, `SandboxExecution`, `IntradayCycle`, `IntradayHistory`, `ExecutedEntries`.
8. done - `JournalMigration`; `PlanRules` and `OrderPlanning`; `FillRules`, `SessionMatching` and
   `BacktestReplay`; `Deployment` and `DisasterRecovery`; `LiveCanary`; `MonitoringIncidents`.
9. done - proofs of `Deployment`, `MonitoringIncidents`, `LiveCanary`, `ProdOnceObserver`, `DisasterRecovery`,
   `SandboxReplacement` and `SandboxBootstrap`.
10. done - proofs of `IntradayCycle` over `SandboxExecution`, and of `IntradayHistory`.
11. Open: the numbers of the reports and of the indicators, which keep no state.

## 6. Findings

Two have a run. The others are stated in the module of their part, and TLC shows them violated when they are added to a
run:

| finding | definition | how to see it |
|---|---|---|
| `exit_retried` | `SupervisedTrade`: `StopCancelledOnce` | run `exit_retried` |
| `never_oversold` | `LiveCanary`: `NeverOversold` | run `never_oversold` |
| `delivered_once` | `NotificationOutbox`: `DeliveredOnce` | as an INVARIANT of `NotificationOutbox.cfg` |
| `stop_sticks`, `once_after_checks` | `Deployment`: `StopSticks`, `OnceAfterChecks` | as an INVARIANT of `Deployment.cfg` |
| `intraday_flat` | `IntradayCycle`: `EveryPositionIsClosed` | `[][part = "day" => EveryPositionIsClosed]_vars` as a PROPERTY of `MCIntraday` |
| `replace_switched` | `SandboxReplacement`: `SwitchedAsConfirmed` | `[][part = "replacement" => SwitchedAsConfirmed]_accounts_vars` as a PROPERTY of `MCAccounts` |
| `given_back` | `SandboxReplacement`: `BoundToOpenAccounts` | `part = "replacement" => BoundToOpenAccounts` as an INVARIANT of `MCAccounts`, with `MaxPreviews = 2` |
| `bootstrap_rerun` | `SandboxBootstrap`: `NoDuplicates` | `part = "bootstrap" => Bootstrap!NoDuplicates` as an INVARIANT of `MCAccounts` |
| `news_is_true` | `MonitoringIncidents`: `NewsIsTrue` | `part = "incidents" => Incidents!NewsIsTrue` as an INVARIANT of `MCAccounts` |
| `told_twice` | `MonitoringIncidents`: `OneAnnouncementPerPeriod` | `part = "incidents" => Incidents!OneAnnouncementPerPeriod` as an INVARIANT of `MCAccounts` |
| `reserve_without_sales`, `exit_is_planned` | `OrderPlanning`: `ReserveWithoutSales`, `ExitIsPlanned` | `part = "plan" => Plan!...` as an INVARIANT of `MCPortfolio` |

`exit_retried`. `take_profit.py:154-155` calls the exit "already reserved; no mutation retried" once
`EXIT_CANCEL_PENDING` is written, and says that every error after it requires review;
`src/docs/TAKE_PROFIT_RU.md:49` says that the bot does not repeat the cancellation. But
`ProtectionJournal.reconcile` (`live_protection.py:264` and `:273`) writes `UNKNOWN` and then `ACTIVE`
over any state. When a cancellation failed on the way and `execute` is replayed while its approval
has time, the reservation is gone, and a second `exit-execute` cancels again. The replay needs the
operator and a review that is bound to the entry again; no lot is sold twice, since the sale still
waits for a verified cancellation.

`delivered_once`. `src/README.md:93` promises "idempotent one-way Telegram delivery" and
`src/docs/plan/03-testing-plan.md:295` exactly one successful delivery. Enqueuing is idempotent; delivery is
at least once: a process that dies between `send_text()` and `mark_sent()` (`notifications.py:239-244`) leaves
the row `sending`, and five minutes later it is claimed and sent again. A lost answer has the same effect.
`DuplicatesAreExcused` says, and the proof shows, that there is no other way.

`never_oversold`. `live_execution.py:292` refuses a SELL that "would touch manual holdings or create a short",
and `prod_session.py:1` announces "Cross-process production/update exclusion"; `prod-live-execute`
(`live_operator.py:385`) takes no session. Its SELL can be authorized between the checks of
`ProtectionJournal.activate()` and the POST of the stop, which then is armed beside it: both sell the one lot. It needs an
operator who executes a confirmed SELL of the instrument meanwhile. `CanaryIsSafe` of the run `beside` is what still
holds: the journals stay true and nothing is posted twice.

`intraday_flat`. `src/docs/CONFIG_REFERENCE_RU.md:125` says that from `force_flat_moscow` on all positions are
closed. A batch stops at its first order that is not filled (`sandbox_execution.py:163`), and the closing orders are
sorted by name; an instrument that cannot be sold keeps all after it without an order, in each cycle anew.

`replace_switched`. `src/docs/LIVE_CANARY_RU.md:28` wants unchanged balances for the replacement. They are
compared when the state file is created only (`sandbox_lifecycle.py:198`): a replacement that is continued after
the services traded switches the bindings away from holdings nobody confirmed.

`given_back`. `src/docs/LIVE_CANARY_RU.md:29-30` lets both new balances be verified first, then the bindings be switched
and only the agreed accounts be closed. The bindings are written before the state file says so
(`sandbox_lifecycle.py:269-278`), and a continued operation does not look at the bindings again. One that was killed
between the two writes, and is continued after another operation has replaced its accounts and was killed while it
closed them, gives the bindings back to accounts whose closing is under way. It needs two kills, two previews and an
operator who continues the older state file; one preview is not enough, as the run `accounts` shows.

`bootstrap_rerun`. `src/docs/UBUNTU_24_SERVER_RU.md:128` says that a rerun creates no duplicates. A request to open
an account that is executed after the rerun has looked makes a second one of the same name
(`integrations/tinvest_sandbox.py:317`).

`reserve_without_sales`. `src/docs/CONFIG_REFERENCE_RU.md:245` calls the reserve what stays free after a BUY. The
projected cash counts a planned SELL as done (`harness.py:336`); while its limit order waits, the BUY takes the
account below the reserve.

`exit_is_planned`. `src/docs/ALGORITHM_RU.md:191` and `:197` cut an order to whole lots and plan a SELL for every
negative difference. A holding whose one lot costs more than `max_order_notional` gets no order, no rejection and no
diagnostic (`execution.py:61`).

`stop_sticks`. `src/docs/UBUNTU_24_SERVER_RU.md:166-167` says that `moex-botctl stop` lasts until `start`. Given while
`update.sh` or `disaster-backup.sh` runs, it is undone by the timers they start again (`update.sh:93`). Given while
`moex-botctl start` waits for its first cycles, it is undone by the timers that command enables at its end
(`moex-botctl.sh:447`): `stop` ends the services, not the `start`.

`once_after_checks`. `update.sh:212` resumes the schedule "only after successful verification". The single-use timer is
stopped for the update but stays enabled: a power loss during the copy boots it over a mixed installation.

`news_is_true`. `src/docs/monitoring.md:112` promises an alert of its own for a recovery. A run that dies after it
queued DOWN and before its commit leaves a table without the alert; the recovery that the next run sees is not announced,
and the next incident has the key of the first and is dropped (`monitoring_incidents.py:43`).

`told_twice`. `src/docs/monitoring.md:63-64` says that the stable key keeps a message from being queued twice when the
run fails before its commit. The key prints `last_sent`, which is the integer `0` of the default row until the check has
one, and `0.0` from the REAL column afterwards (`monitoring_incidents.py:26-29`, `:42`). A first snapshot that is
CRITICAL queues `down:0` and its run dies; the next, FAIL and one below the threshold, commits the row; the one after
queues `down:0.0`. It is the only way, as `RepeatedOverItsFirstRow` and its proof say.

## 7. Not modelled

In the production trade: prices, commissions, instruments other than the one traded, the content of previews and
reviews, notifications and audit files (they are best-effort and read by nobody that
trades); partial fills of a one-lot order, which do not exist; a clock that steps backwards
(`record()` then refuses an answer until it catches up); loss of a SQLite file, which the code asks to
restore by hand; a second BUY of `prod-live-execute`.

In the rest: the indicators and scores behind a signal, the parsers of feeds and files, the metrics and bundles of the
backtest, forward performance and the reports, which compute numbers from what other parts hold and change no state that
trading reads; the validation of configuration, which stops a command before it does anything; `install.sh`, `backup.sh`,
the restoration on a new VM and the reset of the history, which are sequences of commands other modules take up;
the research scripts. What of a component is left out is said under its name in `PROJECT.json`, and each hazard that no
property covers has a note there. Of smaller hazards: a crash between the creation of a live journal and its enrolment
leaves it in review (`live_execution.py:146`), which blocks and is meant to; `backup.sh:58` archives live SQLite files
without their locks, and nothing is promised of that copy; the intraday service takes no lock and may see its files
replaced by an update (`update.sh:144`); a holding dearer than `max_order_notional` is never sold (`execution.py:61`,
finding `exit_is_planned`).
