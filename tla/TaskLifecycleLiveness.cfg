SPECIFICATION FairSpec
CONSTANTS
  w1 = w1
  w2 = w2
  t1 = t1
  t2 = t2
  r1 = r1
  r2 = r2
  None = None
  Worker = {w1}
  Task = {t1, t2}
  Request = {r1}
  Blank = {t2}
  MaxRun = 2
  MaxCrash = 1
CONSTRAINT BlankLeftAlone
CHECK_DEADLOCK FALSE
PROPERTIES
  QueuedIsServed
  DecisionTakesEffect
  CancelPrevails
