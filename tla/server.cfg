SPECIFICATION ServerSpec
CONSTANTS
  s1 = s1
  s2 = s2
  l1 = l1
  Sockets <- TwoSockets
  Listeners <- OneListener
  listener = l1
  TableSize = 4
  MaxCandidates = 1
  Reused = {}
  Discards = FALSE
  Segments = 2
  MaxPending = 1
  MaxEvents = 2
INVARIANTS
  ServerTypeOK
  SessionsKept
PROPERTIES
  Served
  Reaped
