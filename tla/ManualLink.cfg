SPECIFICATION LinkFairSpec
CONSTANTS
  offerer = offerer
  answerer = answerer
  MaxLoads = 2
INVARIANTS LinkTypeOK PackKeeps WarnsTruly
PROPERTIES LinkShown Reaches
CHECK_DEADLOCK FALSE
