SPECIFICATION ReceiverFairSpec
CONSTANTS
  Payload <- MixedPackets
  HeaderLength = 2
  PipeCapacity = 3
  MaxReceiveSize = 2
  SendTimeout = TRUE
  ReceiveTimeout = TRUE
  ReusePacket = TRUE
  Careful = TRUE
  Faults = TRUE
  MaxDecoded = 3
  MaxStream = 8
INVARIANTS
  TypeOK
  QuietMeansUntouched
  BufferSafe
  StreamFramed
  ReceiverAligned
  DeliveredIntact
PROPERTIES
  ChannelSpec
  ReceiveTerminates
  AllDelivered
