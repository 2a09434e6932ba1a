SPECIFICATION FairSpec
CONSTANTS
  MaxFrames = 4
INVARIANTS
  WriterThere
PROPERTIES
  EveryFrameTaken
  StopsUnlessStalled
CHECK_DEADLOCK FALSE
