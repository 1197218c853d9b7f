SPECIFICATION Spec
CONSTANTS
  None = None
  Call = {c1, c2, c3}
  MaxDrivers = 2
  MaxFailures = 1
SYMMETRY Symmetry
CHECK_DEADLOCK FALSE
INVARIANTS
  TypeOK
  ActiveIsLive
  NothingLeaks
  ClosedIsDead
  AuditIsTrue
  DriversAreHeld
