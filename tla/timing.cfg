CONSTANTS
    MaxMint = 4
    RetryAttempts = 2
    MaxJobs = 2
    N = 3
    Reserve = 2
    Total = 5
    Spends = {1, 3}

SPECIFICATION Spec

CHECK_DEADLOCK FALSE
INVARIANTS
  JobSound
  FreshAtStart
  SpendSound
  PassIsEarned
  TokenScrubbed
