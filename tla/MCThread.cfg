CONSTANTS
  Envelopes = {e1, e2, e3}
  Drives = {d1, d2}
  NoDrive = NoDrive
  Cancellers = {c1}
  MaxSteps = 1
  Faults = {"prepare", "settle"}
SPECIFICATION Spec
SYMMETRY Symmetry
CHECK_DEADLOCK FALSE
INVARIANTS
  OneDrive
  InOneHand
  SettledAtRest
  RestIsSettled
  ToldTruly
  SpokenInOrder
PROPERTY
  ImplementsDelivery
