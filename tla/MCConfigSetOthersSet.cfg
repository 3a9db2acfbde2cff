SPECIFICATION Spec
CONSTANTS
  Metrics = {m1, m2}
  MaxValue = 1
  Reconciler = reconciler
  Clients = {k1}
  ClientsSet = TRUE
  Resources = {r1, r2}
  None = none
  Gone = gone
  MaxUnary = 2
  Faults = {}
  MaxEdits = 2
  MaxTroubles = 0
INVARIANT UpToDateIsServed
CHECK_DEADLOCK FALSE
