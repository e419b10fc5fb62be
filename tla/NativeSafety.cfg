SPECIFICATION Spec
CONSTANTS
  a = a  b = b  ka = ka  kb = kb
  batchOf3 = batchOf3  single = single
  NoEp = NoEp  NoKey = NoKey  NoSize = NoSize
  Eps = {a, b}
  Keys = {ka, kb}
  KeyOf <- TwoKeys
  Transmits = {batchOf3, single}
  Length <- MCLength
  SegmentSize <- MCSegmentSize
  SlotLen = 2
  Slots = {2}
  SctpBuffer = 2
INVARIANTS TypeOK
PROPERTIES ImplementsSeam
CHECK_DEADLOCK FALSE
