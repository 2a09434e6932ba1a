SPECIFICATION FairSpec
CONSTANTS
  Senders <- TwoSenders
  Packets <- MixedPackets
  Locked = TRUE
  Radix = 4
  Window = 9
  maxBuffSize = 8
  Inputs = 2
  HeadersWhole = TRUE
PROPERTY ImplementsChannel
PROPERTY EveryFrameShown
PROPERTY ConnectedFromTheStart
PROPERTY NothingLost
CHECK_DEADLOCK FALSE
