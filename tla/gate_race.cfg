SPECIFICATION SupervisedSpec
CONSTANTS
  MaxCalls = 1
  MaxFaults = 2
  Dispositions = {"raise", "die"}
CHECK_DEADLOCK FALSE
INVARIANTS
  ClaimsSound
  CauseIsTrue
PROPERTIES
  TerminalStands
  NoStartAfterLatch
  Supervised
