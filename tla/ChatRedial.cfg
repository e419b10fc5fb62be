SPECIFICATION Spec
CONSTANTS
  Responder = Responder
  Dials <- TwoDials
  Sizes = {"text"}
  MaxSent <- OneAndTwo
INVARIANTS InOrder HeldUntilHeard
CHECK_DEADLOCK FALSE
