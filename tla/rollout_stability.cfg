SPECIFICATION Spec
CONSTANTS
  MaxFaults = 0  MaxRemovals = 0  MaxPasses = 1
INVARIANTS RemovedAfterStable
CHECK_DEADLOCK FALSE
