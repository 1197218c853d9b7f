SPECIFICATION FairSpec
CONSTANTS
  None = None
  Sub = {s1}
  MaxAttempts = 3
  Routine = {r1}
  Scheduler = {x1, x2}
  MaxTime = 2
  MaxDeaths = 1
CHECK_DEADLOCK FALSE
INVARIANTS
  TypeOK
  AnswersAgree
  NoLeftovers
  EveryOccurrence
PROPERTIES
  AnsweredIsRecorded
  SubmissionEnds
  DueIsDispatched
