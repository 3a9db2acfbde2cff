SPECIFICATION FairSpec
CONSTANT
  MaxTroubles = 3
INVARIANTS TypeOK AnswersAreReady NothingBeforeMetrics
PROPERTIES ComesUp Reconciles
CHECK_DEADLOCK FALSE
