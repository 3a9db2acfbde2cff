SPECIFICATION FairSpec
CONSTANTS
  Paths = {p1, p2}
  s1 = s1
  s2 = s2
  Calls = {s1, s2}
  Asks <- MCAsks
  Setters = {w1}
  MaxSpots = 1
  MaxSets = 3
INVARIANTS TypeOK NothingMissed SyncMeansComplete SpotsAccounted
PROPERTIES NeverOlder ViewConverges GoneFreesSpot
CHECK_DEADLOCK FALSE
