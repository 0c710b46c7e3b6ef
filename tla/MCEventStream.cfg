SPECIFICATION FairSpec
CONSTANTS
  A = A
  B = B
  c1 = c1
  c2 = c2
  None = None
  Sessions <- TwoSessions
  Events <- OneEach
  Home = A
  Conns <- TwoConns
  Publishers <- Mixed
  StartInv = 1
  MaxInv = 2
  QueueSize = 1
  PageSize = 1
  WireSize = 0
  MaxEvents = 3
  MaxFaults = 1
  MaxSwitches = 1
  Pruned = TRUE
CONSTRAINTS InsideWindows FewOthers
CHECK_DEADLOCK FALSE
INVARIANTS Lossless
PROPERTIES DeliversInOrder
