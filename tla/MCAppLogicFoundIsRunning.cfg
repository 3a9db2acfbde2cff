SPECIFICATION Spec
CONSTANTS
  Targets = {t1, t2}
  Ids = {c1, c2, c3, c4}
  Setters = {s1}
  Watcher = watcher
  Absent = absent
  Nil = nil
  MaxSets = 2
  Overlap = FALSE
  Faults <- DialFaults
SYMMETRY MCSymmetry
INVARIANT FoundIsRunning
CHECK_DEADLOCK FALSE
