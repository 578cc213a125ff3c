SPECIFICATION Spec
CONSTANTS
  MaxRuns = 3
  MaxRunAttempts = 2
  Floor = 1
  Sources = {a, b}
  Authorized = a
CHECK_DEADLOCK FALSE
INVARIANTS
  TypeOK
  OneAdmission
PROPERTIES
  NoneAfterClose
