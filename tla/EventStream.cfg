SPECIFICATION FairSpec
CONSTANTS
  MaxNotes = 1
  MaxCancels = 1
  MaxPauses = 1
  MaxFailures = 1
CONSTRAINT NoteOrFailure
CHECK_DEADLOCK FALSE
INVARIANTS
  TypeOK
  SeenInOrder
  NoneSkipped
PROPERTIES
  CatchesUp
  ScreenSettles
