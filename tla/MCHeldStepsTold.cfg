CONSTANTS
  m = m
  n = n
  s1 = s1
  s2 = s2
  s3 = s3
  Names = {m, n}
  Steps = {s1, s2, s3}
  MaxAsks = 3
  MaxRestarts = 0
  MaxCrashes = 0
  Scopes = {"always"}
  None = None
SPECIFICATION Spec
SYMMETRY Symmetry
CHECK_DEADLOCK FALSE
INVARIANT
  Told
