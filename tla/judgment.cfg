SPECIFICATION Spec
CONSTANTS
  t1 = t1
  t2 = t2
  t3 = t3
  k1 = k1
  Tasks = {t1, t2, t3}
  Keys = {k1}
  Total = 3
  CallCap = 2
  Overshoot = 1
  MaxAttempts = 2
  MaxTools = 1
  MaxFaults = 1
SYMMETRY TaskSymmetry
CHECK_DEADLOCK FALSE
INVARIANTS
  SpendSound
  GateReconstructs
  VerdictsSound
