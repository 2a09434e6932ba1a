SPECIFICATION FairSpec
CONSTANTS
  Windows = {w1, w2}
  Root = Root
  None = None
  Stale = Stale
  Areas = {a1, a2}
  Options <- EveryTarget
  MaxEvents = 2
INVARIANTS
  NothingMissed
  GrabsFromASession
PROPERTIES
  CatchesUp
  FollowsFocus
CHECK_DEADLOCK FALSE
