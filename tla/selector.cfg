SPECIFICATION Spec
CONSTANTS
  s1 = s1
  s2 = s2
  l1 = l1
  Sockets <- TwoSockets
  Listeners <- OneListener
  TableSize = 3
  MaxCandidates = 1
  Reused = {s1}
  Discards = FALSE
INVARIANTS
  TypeOK
  OwnDescriptor
  NoDangling
  Watched
PROPERTIES
  ModeKept
CHECK_DEADLOCK FALSE
