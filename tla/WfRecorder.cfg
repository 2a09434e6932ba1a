SPECIFICATION FairSpec
CONSTANTS
  Options <- MixedOptions
  PoolSize = 2
  MAX_FRAME_FAILURES = 1
  MaxClock = 2
INVARIANTS
  AudioNeedsWriter
PROPERTIES
  Timeline
  WriterStops
CHECK_DEADLOCK FALSE
