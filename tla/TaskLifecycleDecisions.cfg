SPECIFICATION Spec
CONSTANTS
  w1 = w1
  w2 = w2
  t1 = t1
  t2 = t2
  r1 = r1
  r2 = r2
  None = None
  Worker = {w1}
  Task = {t1}
  Request = {r1, r2}
  Blank = {}
  MaxRun = 3
  MaxCrash = 1
SYMMETRY Symmetry
CONSTRAINT NotOverlapped
CHECK_DEADLOCK FALSE
INVARIANTS
  RunOnce
  OnlyApprovedRuns
  WaitingIsAnswerable
