SPECIFICATION FairSpec
CONSTANT
  MaxTroubles = 1
INVARIANT WatcherGoesOn
CHECK_DEADLOCK FALSE
