\* One of the four parts moves.  Two instruments, of which one can be sold short;
\* lots, limits and counts are small enough for a day, and large enough to be used up.
\* Two of the three data sets, which are alike; windows of two bars out of three.
\* The day ends: after its cycles nothing has to happen.
SPECIFICATION IntradaySpec
CONSTANTS
  Timer = Timer
  Operator = Operator
  DataSets = {tradestats, orderstats}
  MaxBar = 3
  HistoryBars = 2
  Freshness = 2
  MaxRevisions = 1
  Secs = {1, 2}
  Shortable = {1}
  Proc = {Timer, Operator}
  MaxOrders = 2
  Bars = {1}
  MaxEntries = 2
  MaxPositions = 2
  MaxLots = 2
  Capital = {3}
  Holdings = {0, 2}
  MaxCycles = 2
  MaxReruns = 1
  MaxKills = 1
INVARIANTS DayIsInOrder EntriesAreRead
PROPERTIES PlansFitThePosition HistoryIsReplayable
CHECK_DEADLOCK FALSE
