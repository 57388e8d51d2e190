CONSTANTS
  Threads = {t1}
  Blocks = {b1}
  Program = Program
  Sizes = {1}
  W = 16
  ResetAnyTime = TRUE
  MaxCalls = 2
SPECIFICATION Spec
INVARIANTS
  OtherCountersUnaffected
