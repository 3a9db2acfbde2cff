SPECIFICATION FairSpec
CONSTANT
  MaxTroubles = 1
PROPERTY LostServerEndsProcess
CHECK_DEADLOCK FALSE
