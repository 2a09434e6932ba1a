SPECIFICATION FairSpec
CONSTANTS
  Tracks = {"microphone"}
  Options <- MixedOptions
  replay_buffer_size_secs = 2
  KeyInterval = 2
  Tolerated = 3
  MaxClock = 3
INVARIANTS
  SaveWhole
  SaveStartsPlayable
  PausesLeftOut
PROPERTIES
  AudioInStep
  RequestServed
  Stops
CHECK_DEADLOCK FALSE
