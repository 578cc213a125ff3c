CONSTANTS
    PrePush = 1
    Margin = 1
    MaxAttempts = 1
    Deadline = 3
    MaxProbes = 2
    MaxPairs = 2
    MaxTime = 3
    None = None

SPECIFICATION ReadinessSpec

CHECK_DEADLOCK FALSE
INVARIANTS
  AttemptsSound
  LineIsBacked
  ConfirmedIsFresh
