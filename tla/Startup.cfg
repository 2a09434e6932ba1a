CONSTANTS
  CommandLines <- MCCommandLines
  Systems <- MCSystems
SPECIFICATION SpecStartup
INVARIANTS
  CodecsFit
  CaptureFits
  ListedWorks
CHECK_DEADLOCK FALSE
