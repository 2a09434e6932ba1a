SPECIFICATION Spec
CONSTANTS
  Senders <- OneSender
  Packets <- VideoPackets
  Locked = FALSE
  Radix = 4
  Window = 9
  maxBuffSize = 8
  Inputs = 2
  HeadersWhole = FALSE
PROPERTY ImplementsChannel
CHECK_DEADLOCK FALSE
