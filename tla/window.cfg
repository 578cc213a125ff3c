SPECIFICATION QualificationSpec
CONSTANTS
    SlotCount = 3
    MaxRuns = 4
    Costs = {1, 4}
    Allowance = 1
    Trigger = 4
    Ceiling = 6
CHECK_DEADLOCK FALSE
INVARIANTS
  StatesSound
  CleanIsEarned
PROPERTIES
  FailureIsFinal
