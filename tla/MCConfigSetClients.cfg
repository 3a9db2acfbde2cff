SPECIFICATION Spec
CONSTANTS
  Metrics = {m1, m2}
  MaxValue = 1
  Reconciler = reconciler
  Clients = {k1}
  ClientsSet = TRUE
  Resources = {r1, r2}
  None = none
  Gone = gone
  MaxUnary = 2
  Faults <- AllFaults
  MaxEdits = 1
  MaxTroubles = 1
SYMMETRY MCSymmetry
INVARIANTS TypeOK PermitsAccounted
CHECK_DEADLOCK FALSE
