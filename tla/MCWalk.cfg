CONSTANTS
  Low = 16
  High = 64
  Top = 128
  MaxFrames = 2
  Starts = {0, 16, 24, 32, 48, 64, 112}
  Links = {0, 8, 16, 24, 32, 48, 64, 112}
  Returns = {0, 5, 6}
  HasFramePointer = TRUE
  Garbage = {0, 8, 32}
SPECIFICATION RecordEventSpec
INVARIANTS
  ReadsAreSafe
  CapturesWhatItReads
  ProperChainIsCaptured
  BoundsAreTheStack
PROPERTIES
  LossesHaveCause
  AskedOnce
