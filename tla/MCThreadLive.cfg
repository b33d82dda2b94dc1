CONSTANTS
  Envelopes = {e1, e2}
  Drives = {d1, d2}
  NoDrive = NoDrive
  Cancellers = {c1}
  MaxSteps = 1
  Faults = {"prepare"}
SPECIFICATION FairSpec
CHECK_DEADLOCK FALSE
INVARIANTS
  RestIsSettled
PROPERTIES
  EverySettled
