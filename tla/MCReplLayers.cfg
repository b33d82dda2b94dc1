CONSTANTS
  original = original
  fork = fork
  s1 = s1
  s2 = s2
  Chats = {original, fork}
  Original = original
  Stores = {s1, s2}
  None = None
  Sources = {"ai"}
  MaxRun = 2
  MaxSteps = 2
  MaxLayers = 2
SPECIFICATION Spec
SYMMETRY StoreSymmetry
CHECK_DEADLOCK FALSE
INVARIANTS
  Restorable
  NothingLeaks
