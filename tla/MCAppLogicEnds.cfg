SPECIFICATION FairSpec
CONSTANTS
  Targets = {t1}
  Ids = {c1, c2}
  Setters = {s1}
  Watcher = watcher
  Absent = absent
  Nil = nil
  MaxSets = 2
  Overlap = TRUE
  Faults <- LinkFaults
PROPERTIES OperationsEnd CacheSpec
CHECK_DEADLOCK FALSE
