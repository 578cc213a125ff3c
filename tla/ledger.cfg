SPECIFICATION Spec
CONSTANTS
  s1 = s1
  s2 = s2
  p1 = p1
  p2 = p2
  Scopes = {s1, s2}
  Prints = {p1, p2}
  ScopeOf <- TwoScopes
  MaxRuns = 2
  MaxFaults = 1
  RecoverFlags = {TRUE, FALSE}
  StrictFlags = {TRUE, FALSE}
  CostTears = {"bare", "torn"}
INVARIANTS
  TypeOK
  FindingsSound
  RunsSound
  OutputsSound
PROPERTIES
  ImplementsScan
