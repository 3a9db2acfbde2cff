SPECIFICATION FairSpec
CONSTANTS
  Paths = {p1}
  s1 = s1
  s2 = s2
  Calls = {s1, s2}
  Asks <- MCAsks
  Setters = {w1}
  MaxSpots = 1
  MaxSets = 1
PROPERTY GoneIsRemoved
CHECK_DEADLOCK FALSE
