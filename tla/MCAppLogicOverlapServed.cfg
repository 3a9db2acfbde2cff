SPECIFICATION Spec
CONSTANTS
  Targets = {t1, t2}
  Ids = {c1, c2}
  Setters = {s1}
  Watcher = watcher
  Absent = absent
  Nil = nil
  MaxSets = 2
  Overlap = TRUE
  Faults <- NoFaults
SYMMETRY MCSymmetry
INVARIANT Served
CHECK_DEADLOCK FALSE
