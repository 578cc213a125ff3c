SPECIFICATION Spec
CONSTANTS
  N = 3
  Threshold = 3
  Budget = 2
  RunCap = 2
  Overshoot = 0
  MaxFaults = 1
  CostTears = {"bare"}
CHECK_DEADLOCK FALSE
INVARIANTS
  CeilingHolds
