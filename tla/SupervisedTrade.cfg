\* one poll tells polling from cancelling; every crash point and late answer
CONSTANT MaxPolls = 1
SPECIFICATION FairSpec
INVARIANTS TradeIsSafe
PROPERTIES AmbiguousStopIsLeftAlone CustodySpec LedgerSpec LockIsReleased
CHECK_DEADLOCK FALSE
