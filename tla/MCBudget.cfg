CONSTANTS
  root = root
  child = child
  grand = grand
  Threads = {root, child, grand}
  Parent <- Chained
  Nobody = Nobody
  Limits <- Asks
  Unlimited = Unlimited
  TurnSteps = 2
  StepTokens = {0, 2}
  MaxOwn = 2
SPECIFICATION Spec
CHECK_DEADLOCK FALSE
INVARIANTS
  OverspendBounded
