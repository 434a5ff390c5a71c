SPECIFICATION Spec
CONSTANTS
  s1 = s1
  s2 = s2
  l1 = l1
  Sockets <- TwoSockets
  Listeners <- OneListener
  TableSize = 3
  MaxCandidates = 2
  Reused = {s1, s2, l1}
  Discards = TRUE
SYMMETRY Symmetric
INVARIANTS
  ConnectedIsOpen
CHECK_DEADLOCK FALSE
