SPECIFICATION FairSpec
CONSTANTS
  Messages <- TwoMessages
  Capacity = 1
  LongResends = FALSE
  MaxConnections = 2
  MaxInterrupts = 2
INVARIANTS
  TypeOK
  FilesHeld
  SentOnce
PROPERTIES
  ConnectReturns
  AllTaken
