CONSTANTS
  original = original
  fork = fork
  s1 = s1
  s2 = s2
  Chats = {original}
  Original = original
  Stores = {s1, s2}
  None = None
  Sources = {"ai", "ui"}
  MaxRun = 2
  MaxSteps = 3
  MaxLayers = 3
SPECIFICATION Spec
SYMMETRY StoreSymmetry
CHECK_DEADLOCK FALSE
INVARIANTS
  Faithful
  BackFilled
  ResumesLast
