SPECIFICATION SpecAudio
CONSTANTS
  MaxFragment = 5
  MaxQueued = 2
  MaxSamples = 7
  Period = 2
INVARIANTS
  SourceFollowed
PROPERTIES
  ImplementsPeriods
  AllHandedOver
CHECK_DEADLOCK FALSE
