\* one account, two logical orders, two plans: plan switches and residual exits
CONSTANTS
  Accounts = {a1}
  LogicalIds = {o1, o2}
  Plans = {p1, p2}
  MaxLots = 1
  MaxTime = 2
  MaxGeneration = 2
SPECIFICATION Spec
SYMMETRY Symmetry
INVARIANTS JournalIsSafe PlanSwitchSeesEveryOutcome ResidualExitSeesEarlierFills
PROPERTIES HistoryIsKept LedgerSpec
CHECK_DEADLOCK FALSE
