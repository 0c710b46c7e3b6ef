SPECIFICATION KeySpec
CONSTANTS
  Keys = {k1, k2}
  Bodies = {b1, b2}
  Requests = {r1, r2, r3}
  Null = Null
  Lease = 3
  FailedLease = 1
  Retention = 3
  MaxTime = 7
  MaxKeyFaults = 1
SYMMETRY Symmetry
CHECK_DEADLOCK FALSE
INVARIANTS KeyTypeOK ReplayIsOwnAnswer ExactlyOnce
