SPECIFICATION FairSpec
CONSTANTS
  Messages <- TwoMessages
  Capacity = 1
  LongResends = TRUE
  MaxConnections = 2
  MaxInterrupts = 2
INVARIANTS
  SentOnce
