CONSTANTS
  MaxSockets = 2
  MaxOpens = 2
  MaxFaults = 1
SPECIFICATION Spec
CHECK_DEADLOCK FALSE
INVARIANTS
  NoGhosts
  ReloadServed
  NoOrphans
  OwnVoice
