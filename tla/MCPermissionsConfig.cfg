CONSTANTS
  read = read
  write = write
  s1 = s1
  s2 = s2
  Stores = {s1, s2}
  Forms <- MCForms
  Config <- NoForms
  Asks = {read}
  Bounds <- MCBounds
  Targets <- MCTargets
  MaxForms = 2
  MaxAwaiting = 1
  MaxSaves = 2
SPECIFICATION ConfigSpec
SYMMETRY StoreSymmetry
CHECK_DEADLOCK FALSE
INVARIANTS
  Applied
  Overruled
  Tightens
  Coherent
