SPECIFICATION FairSpec
CONSTANTS
  Limit = 1
  PipeCap = 2
  MaxWritten = 3
  Timed = TRUE
  MayFork = TRUE
INVARIANTS
  TypeOK
  ResultIsComplete
  NoSurvivor
PROPERTIES
  CaptureEnds
