SPECIFICATION FairSpec
CONSTANT
  MaxTroubles = 1
INVARIANT OneAnswer
CHECK_DEADLOCK FALSE
