SPECIFICATION FairSpec
CONSTANTS
  Metrics = {m1, m2}
  MaxValue = 2
  Reconciler = reconciler
  Clients = {k1}
  ClientsSet = FALSE
  Resources = {r1}
  None = none
  Gone = gone
  MaxUnary = 1
  Faults <- AllFaults
  MaxEdits = 3
  MaxTroubles = 2
INVARIANTS UpToDateIsServed StateFollows
PROPERTIES DesiredSpec DesiredIsServed
CHECK_DEADLOCK FALSE
