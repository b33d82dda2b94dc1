CONSTANTS
  read = read
  write = write
  s1 = s1
  s2 = s2
  Stores = {s1, s2}
  Forms <- MCFewForms
  Config <- NoForms
  Asks = {read}
  Bounds <- NoBounds
  Targets <- MCTargets
  MaxForms = 3
  MaxAwaiting = 2
  MaxSaves = 2
SPECIFICATION ConfigSpec
CHECK_DEADLOCK FALSE
INVARIANTS
  AlwaysApplied
  AlwaysOverruled
  Current
PROPERTY
  ChangesKept
