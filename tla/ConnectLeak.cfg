SPECIFICATION PairFairSpec
CONSTANT MaxIce = 1
PROPERTIES TornDown
CHECK_DEADLOCK FALSE
