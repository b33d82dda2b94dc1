CONSTANTS
  MaxLoads = 3
  MaxCalls = 2
  MaxRestores = 2
SPECIFICATION Spec
CHECK_DEADLOCK FALSE
INVARIANTS
  ConnectionsHeld
  StaysShut
  ServersStop
