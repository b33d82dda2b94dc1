CONSTANTS
  root = root
  child = child
  grand = grand
  Threads = {root, child}
  Parent <- Family
  Nobody = Nobody
  Jobs = {j1, j2}
  Waits = {w1, w2}
  MayHold = {root, child}
  MaxLive = 1
  MaxCalls = 1
  Note = Note
SPECIFICATION Spec

CHECK_DEADLOCK FALSE
INVARIANTS
  HeldIsAsked
  PausedStays
  WaiterHears
  NeverDoubled
PROPERTIES
  CancelStays
