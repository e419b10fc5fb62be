SPECIFICATION PairFairSpec
CONSTANT MaxIce = 1
PROPERTIES FailureReported
CHECK_DEADLOCK FALSE
