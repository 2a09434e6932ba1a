SPECIFICATION TabletSpec
CONSTANTS
  Options <- DefaultOptions
  PoolSize = 2
  MAX_FRAME_FAILURES = 1
  MaxClock = 1
PROPERTY CtrlCStops
CHECK_DEADLOCK FALSE
