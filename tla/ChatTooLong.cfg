SPECIFICATION FairSpec
CONSTANTS
  Responder = Responder
  Dials <- OneDial
  Sizes = {"text", "tooLong"}
  MaxSent <- TwoAndOne
PROPERTIES DeliveredWhileUp
CHECK_DEADLOCK FALSE
