SPECIFICATION Spec
CONSTANTS
  MaxNotes = 0
  MaxCancels = 0
  MaxPauses = 0
  MaxFailures = 0
CHECK_DEADLOCK FALSE
INVARIANTS
  NothingSkipped
