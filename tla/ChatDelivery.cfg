SPECIFICATION FairSpec
CONSTANTS
  Responder = Responder
  Dials <- OneDial
  Sizes = {"empty", "text", "tooLong"}
  MaxSent <- TwoAndOne
INVARIANTS TypeOK InOrder FramesAligned
PROPERTIES Delivered
CHECK_DEADLOCK FALSE
