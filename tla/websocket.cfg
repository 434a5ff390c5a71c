SPECIFICATION FairSpec
CONSTANTS
  Script <- Talk
  MaxShort = 0
  MaxMedium = 1
  MaxReceiveSize = 2
  MaskKeys = {1, 2}
  Timeouts = TRUE
  Faults = TRUE
  Garbage <- Empty
  Foreign = TRUE
INVARIANTS
  TypeOK
  FramesIntact
  WithinLimit
  PongsEchoPings
PROPERTIES
  ClosedIsSeen
