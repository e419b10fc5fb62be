SPECIFICATION FairSpec
CONSTANTS
  NoTab = NoTab
  Tabs = {1, 2}
  MaxOpen = 2
  MaxIce = 2
INVARIANTS TypeOK OneInitiator NoCandidateRefused
PROPERTIES AutoPair
CHECK_DEADLOCK FALSE
