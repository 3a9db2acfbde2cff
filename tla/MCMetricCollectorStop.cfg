SPECIFICATION FairSpec
CONSTANTS
  p1 = p1
  p2 = p2
  Paths = {p1}
  MaxTime = 2
  MaxUpdates = 1
PROPERTY StopReturns
CHECK_DEADLOCK FALSE
