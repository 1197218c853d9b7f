SPECIFICATION FairSpec
CONSTANTS
  w1 = w1
  w2 = w2
  t1 = t1
  t2 = t2
  r1 = r1
  r2 = r2
  None = None
  Worker = {w1, w2}
  Task = {t1}
  Request = {}
  Blank = {}
  MaxRun = 1
  MaxCrash = 1
CHECK_DEADLOCK FALSE
PROPERTIES
  CrashIsRecovered
