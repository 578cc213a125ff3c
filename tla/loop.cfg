SPECIFICATION FairSpec
CONSTANTS
  N = 4
  Threshold = 3
  Budget = 3
  RunCap = 2
  Overshoot = 1
  MaxFaults = 2
  CostTears = {"torn"}
CHECK_DEADLOCK FALSE
INVARIANTS
  CeilingHolds
  BooksSound
  BreakersSound
PROPERTIES
  EventuallyFinished
