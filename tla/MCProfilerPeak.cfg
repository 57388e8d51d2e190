CONSTANTS
  Threads = {t1, t2}
  Blocks = {b1, b2}
  Program = Program
  Sizes = {2}
  W = 32
  UsizeW = 4
  ResetAnyTime = FALSE
  MaxCalls = 2
SYMMETRY Symmetry
SPECIFICATION ProfilerSpec
INVARIANTS
  PeakOfWindow
