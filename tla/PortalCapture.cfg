SPECIFICATION FairSpec
CONSTANTS
  Tokens = {t1}
  NoToken = NoToken
  MaxRuns = 2
  Fds <- FewFds
  MaxPlanes = 2
INVARIANTS
  NodeFromStart
  FdsOwned
PROPERTIES
  CatchesUp
  SetupEnds
  TokenRemembered
CHECK_DEADLOCK FALSE
