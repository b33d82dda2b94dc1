CONSTANTS
  root = root
  child = child
  grand = grand
  Threads = {root, child}
  Parent <- Family
  Nobody = Nobody
  Jobs = {j1, j2}
  Waits = {w1}
  MayHold = {child}
  MaxLive = 1
  MaxCalls = 2
  Note = Note
SPECIFICATION Spec
SYMMETRY Symmetry
CHECK_DEADLOCK FALSE
INVARIANTS
  HeardOnce
  AskingIsHeld
  OnePlace
  HeardAtRest
PROPERTIES
  Finality
