SPECIFICATION Spec
CONSTANTS
  Metrics = {m1, m2}
  MaxValue = 2
  Reconciler = reconciler
  Clients = {}
  ClientsSet = FALSE
  Resources = {r1}
  None = none
  Gone = gone
  MaxUnary = 1
  Faults <- NoFaults
  MaxEdits = 3
  MaxTroubles = 1
SYMMETRY MCSymmetry
INVARIANT StateShowsData
CHECK_DEADLOCK FALSE
