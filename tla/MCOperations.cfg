SPECIFICATION FairSpec
CONSTANTS
  None = None
  s1 = s1
  t1 = t1
  t2 = t2
  Ops = {o1, o2}
  Workers = {w1, w2}
  Sessions = {s1}
  SessionTarget <- OneSession
  Targets = {t1}
  Invs = {i1, i2, i3}
  ScanLimit = 2
  MaxRestarts = 1
  MaxFaults = 1
CHECK_DEADLOCK FALSE
INVARIANTS TypeOK RollbackRunsAtMostOnce Serialized HonestRows
PROPERTIES EveryOperationSettles
