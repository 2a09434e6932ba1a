SPECIFICATION FairSpec
CONSTANTS
  N = 4
  MaxFrames = 9
INVARIANTS
  NoTearing
  InOrder
PROPERTIES
  EveryFrameEncoded
  ImplementsQueue
