CONSTANTS
  Threads = {t1, t2, t3}
  Blocks = {b1, b2, b3}
  Program = Program
  Sizes = {1, 3}
  W = 20
  ResetAnyTime = FALSE
  MaxCalls = 4
SYMMETRY Symmetry
SPECIFICATION TrackedSpec
INVARIANTS
  TypeOK
  ExactAtRest
  NoUnderflow
  PeakIsHighWater
  PeakCoversHeld
  HolderIsRegistered
  TableTellsTheSame
