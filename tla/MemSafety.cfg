SPECIFICATION Spec
CONSTANTS
  a = a  b = b  ka = ka  kb = kb
  batchOf5 = batchOf5  single = single
  NoEp = NoEp  NoKey = NoKey  NoSize = NoSize
  Eps = {a, b}
  Keys = {ka, kb}
  KeyOf <- TwoKeys
  Transmits = {batchOf5, single}
  Length <- MCLength
  SegmentSize <- MCSegmentSize
  SlotLen = 2
  Slots = {0, 1, 2}
  Capacity = 2
INVARIANTS TypeOK Ordered
PROPERTIES ImplementsSeam
CHECK_DEADLOCK FALSE
