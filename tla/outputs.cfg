SPECIFICATION FairSpec
CONSTANTS
  s1 = s1
  s2 = s2
  p1 = p1
  p2 = p2
  Scopes = {s1}
  Prints = {p1}
  ScopeOf <- OnePrint
  MaxRuns = 3
  MaxFaults = 3
  RecoverFlags = {TRUE}
  StrictFlags = {TRUE}
  CostTears = {"torn"}
INVARIANTS
  BackfillSound
PROPERTIES
  HistoryKept
  EventuallyOnFile
