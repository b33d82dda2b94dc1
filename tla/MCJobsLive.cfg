CONSTANTS
  root = root
  child = child
  grand = grand
  Threads = {root, child}
  Parent <- Family
  Nobody = Nobody
  Jobs = {j1, j2}
  Waits = {w1}
  MayHold = {root, child}
  MaxLive = 2
  MaxCalls = 1
  Note = Note
SPECIFICATION FairSpec
CHECK_DEADLOCK FALSE
PROPERTIES
  Heard
