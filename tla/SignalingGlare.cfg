SPECIFICATION Spec
CONSTANTS
  NoTab = NoTab
  Tabs = {1, 2, 3}
  MaxOpen = 2
  MaxIce = 1
INVARIANTS OneInitiator
CHECK_DEADLOCK FALSE
