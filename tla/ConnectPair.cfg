SPECIFICATION PairFairSpec
CONSTANT MaxIce = 2
INVARIANTS PairTypeOK NoCandidateRefused
PROPERTIES Connected
CHECK_DEADLOCK FALSE
