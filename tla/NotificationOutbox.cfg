\* one message fits a batch beside another or waits for the next claim; one mishap, one requeue
CONSTANTS
  Messages = {m1, m2}
  Workers = {w1, w2}
  MaxAttempts = 2
  MaxLimit = 2
  MaxMishaps = 1
  MaxRequeues = 1
SPECIFICATION FairSpec
INVARIANTS OutboxIsSafe DuplicatesAreExcused
PROPERTIES SentIsFinal EveryMessageSettles
CHECK_DEADLOCK FALSE
