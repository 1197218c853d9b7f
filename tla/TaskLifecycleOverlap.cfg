SPECIFICATION Spec
CONSTANTS
  w1 = w1
  w2 = w2
  t1 = t1
  t2 = t2
  r1 = r1
  r2 = r2
  None = None
  Worker = {w1, w2}
  Task = {t1}
  Request = {r1}
  Blank = {}
  MaxRun = 3
  MaxCrash = 0
SYMMETRY Symmetry
CHECK_DEADLOCK FALSE
INVARIANTS
  TypeOK
  Exclusive
  GrantMatches
  CancelFinal
PROPERTIES
  GateKept
