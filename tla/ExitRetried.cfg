CONSTANT MaxPolls = 0
SPECIFICATION Spec
INVARIANTS StopCancelledOnce
CHECK_DEADLOCK FALSE
