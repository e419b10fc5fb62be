SPECIFICATION Spec
CONSTANTS
  Shared = {dispatch}
  Exclusive = {onmessage}
  Scoped = {executor}
  Handles = {chat}
  MaxDepth = 3
  StringLengths = {1, 3}
  DecoderBudget = 4
  MaxText = 2
INVARIANTS
  TypeOK CallsSafe Ownership WithinBudget TextArrives
CHECK_DEADLOCK FALSE
