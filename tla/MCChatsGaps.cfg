CONSTANTS
  None = None
  MaxAsks = 2
  Lease = 2
  MaxTime = 3
  MaxPosts = 2
  MaxMail = 2
  MaxLog = 3
  Faults = 1
SPECIFICATION Spec
CHECK_DEADLOCK FALSE
PROPERTIES
  ExpiresOnlyTurns
INVARIANTS
  AlwaysShown
  WaitsShown
  WaitsForSomething
