SPECIFICATION FairSpec
CONSTANTS
  p1 = p1
  p2 = p2
  Paths <- MCPaths
  MaxTime = 2
  MaxUpdates = 2
INVARIANTS TypeOK StopIsClean StoredPrefix AbsentIsEmpty
PROPERTIES LifeSpec StopReturnsOrLoopDied
CHECK_DEADLOCK FALSE
