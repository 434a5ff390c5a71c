SPECIFICATION Spec
CONSTANTS
  s1 = s1
  s2 = s2
  l1 = l1
  Sockets <- TwoSockets
  Listeners <- OneListener
  TableSize = 3
  MaxCandidates = 2
  Reused = {}
  Discards = FALSE
SYMMETRY Symmetric
INVARIANTS
  RemoveTakesOneOff
CHECK_DEADLOCK FALSE
