\* the shortest way to two sellers needs no polling
CONSTANT MaxPolls = 0
SPECIFICATION CanarySpec
INVARIANT NeverOversold
CHECK_DEADLOCK FALSE
