SPECIFICATION Spec
CONSTANTS
  Metrics = {m1, m2}
  MaxValue = 2
  Reconciler = reconciler
  Clients = {k1}
  ClientsSet = TRUE
  Resources = {r1, r2}
  None = none
  Gone = gone
  MaxUnary = 2
  Faults <- NoFaults
  MaxEdits = 1
  MaxTroubles = 0
SYMMETRY MCSymmetry
INVARIANT ConfigIsApplied
CHECK_DEADLOCK FALSE
