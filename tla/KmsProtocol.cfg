SPECIFICATION FairSpec
CONSTANTS
  Launches = {"direct", "pkexec"}
  Versions = {"same", "other"}
  Screens <- SomeScreens
  Target <- TwoConnectors
  MaxItems = 3
  BufferSize = 2
  MaxCalls = 5
INVARIANTS
  LockStep
  FreshAnswer
  RightMonitor
PROPERTIES
  CallsReturn
  ServerEnds
CHECK_DEADLOCK FALSE
