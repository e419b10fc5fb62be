SPECIFICATION FairSpec
CONSTANTS
  NoTab = NoTab
  Tabs = {1, 2, 3}
  MaxOpen = 2
  MaxIce = 1
PROPERTIES AutoPair
CHECK_DEADLOCK FALSE
