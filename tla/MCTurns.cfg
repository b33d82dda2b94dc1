CONSTANTS
  MaxMessages = 4
  MaxSteps = 2
  MaxFailures = 1
SPECIFICATION TurnSpec
CHECK_DEADLOCK FALSE
INVARIANTS
  StoredInOrder
  WatchersAgree
PROPERTIES
  SteersAreHeard
