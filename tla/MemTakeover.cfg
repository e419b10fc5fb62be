SPECIFICATION FairSpec
CONSTANTS
  a = a  b = b  ka = ka  kb = kb
  batchOf5 = batchOf5  single = single
  NoEp = NoEp  NoKey = NoKey  NoSize = NoSize
  Eps = {a, b}
  Keys = {ka, kb}
  KeyOf <- OneKey
  Transmits = {batchOf5, single}
  Length <- MCLength
  SegmentSize <- MCSegmentSize
  SlotLen = 2
  Slots = {1, 2}
  Capacity = 2
INVARIANTS NoStranded
PROPERTIES TakenOverForGood HandedUp
CHECK_DEADLOCK FALSE
