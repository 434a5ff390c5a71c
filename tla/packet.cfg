SPECIFICATION Spec
CONSTANTS
  a = a
  b = b
  Packets = {a, b}
  LittleEndian = {b}
  Links <- AToB
  Read = {b}
  Values <- PackedValues
  Types <- ExtractedTypes
  Raws <- RawBuffers
  Positions = {0, 63}
  Offsets <- Jumps
  ByteSize = 4
  Word = 2
  SizeT = 64
  MaxItems = 2
  MaxBuffer = 9
INVARIANTS
  TypeOK
  WrittenIsRead
PROPERTIES
  ReadsInside
