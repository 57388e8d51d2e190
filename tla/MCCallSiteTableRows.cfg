CONSTANTS
  Threads = {t1, t2}
  Null = Null
  N <- Buckets
  MaxFrames = 2
  Traces <- TwoTraces
  WordBits = 3
  Rotation = 2
  K = 5
  FrameSlots = 3
  DEFAULT_BUCKETS = 4
  MIN_BUCKETS = 2
  MAX_BUCKETS = 8
  Unset = Unset
  NoNumber = NoNumber
  Requests = {0, 1, 2, 3, 4, 5, 6, 7, 8, 9, 16, 17}
  Hash <- HashOfTwo
  Sizes = {1}
  MaxCalls = 2
SYMMETRY Symmetry
SPECIFICATION Spec
INVARIANTS
  OneRowPerSite
