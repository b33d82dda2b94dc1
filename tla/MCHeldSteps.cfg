CONSTANTS
  m = m
  n = n
  s1 = s1
  s2 = s2
  s3 = s3
  Names = {m, n}
  Steps = {s1, s2}
  MaxAsks = 3
  MaxRestarts = 1
  MaxCrashes = 1
  Scopes = {"once", "session", "always"}
  None = None
SPECIFICATION Spec
SYMMETRY Symmetry
CHECK_DEADLOCK FALSE
INVARIANTS
  OnceOnly
  Answerable
  CarriesOn
  AnsweredOnce
