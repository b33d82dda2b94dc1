CONSTANTS
  MaxMessages = 4
  MaxSteps = 1
  MaxFailures = 0
SPECIFICATION TurnSpec
CHECK_DEADLOCK FALSE
PROPERTIES
  SteersBuyAStep
