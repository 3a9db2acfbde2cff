SPECIFICATION Spec
CONSTANTS
  Targets = {t1, t2}
  Ids = {c1, c2, c3, c4}
  Setters = {s1}
  Watcher = watcher
  Absent = absent
  Nil = nil
  MaxSets = 3
  Overlap = FALSE
  Faults <- NoFaults
SYMMETRY MCSymmetry
INVARIANT DeletedStaysDeleted
CHECK_DEADLOCK FALSE
