SPECIFICATION Spec
CONSTANTS
  Procs = {p1, p2}
  MaxFreezes = 2
  MaxCommits = 4
  MaxTears = 1
  Room = 4
SYMMETRY ShellSymmetry
CHECK_DEADLOCK FALSE
INVARIANTS
  FilesSound
  FrozenIsBacked
  OneTip
