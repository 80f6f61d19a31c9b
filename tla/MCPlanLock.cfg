SPECIFICATION Spec
CONSTANTS
  Procs = {p1, p2, p3}
  Null = Null
  TTL = 2
  StepMax = 2
  MaxTime = 8
SYMMETRY Symmetry
INVARIANTS
  NoTwoActing
  OneHolder
  KeptUntilLapsed
CHECK_DEADLOCK TRUE
