CONSTANTS
  a = a
  b = b
  name = name
  constructor = constructor
  Formats = {1}
  Values = {a, b}
  Names = {constructor}
  Inherited = {constructor}
  MaxDeltaRun = 2
  MaxList = 1
  MaxSaves = 3
  Nothing = Nothing
SPECIFICATION StoreSpec
CHECK_DEADLOCK FALSE
INVARIANT
  RoundTrip
