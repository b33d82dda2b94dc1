CONSTANTS
  a = a
  b = b
  name = name
  constructor = constructor
  Formats = {1, 2}
  Values = {a, b}
  Names = {name}
  Inherited = {}
  MaxDeltaRun = 2
  MaxList = 2
  MaxSaves = 3
  Nothing = Nothing
SPECIFICATION StoreSpec
CHECK_DEADLOCK FALSE
INVARIANTS
  RoundTrip
