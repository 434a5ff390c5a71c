SPECIFICATION FairSpec
CONSTANTS
  Messages <- AllMessages
  MaxHeaderSize = 7
  MaxBodySize = 13
  ChunkSize = 5
  UIntSize = 32
  Timeouts = TRUE
  Faults = TRUE
INVARIANTS
  TypeOK
  ContentIntact
  Accepted
  QuietMeansUntouched
  Bounded
PROPERTIES
  Finishes
