\* Two children on one semaphore slot, evidence for two, one crash.
SPECIFICATION Spec
CONSTANTS
  Child = {c1, c2}
  MaxChildren = 2
  ChildLimit = 1
  MaxEvidence = 2
  NoTask = NoTask
  MaxRounds = 3
  MaxResumes = 1
  MaxCrashes = 1
CONSTRAINT TwoWindows
CHECK_DEADLOCK FALSE
INVARIANTS FamilyHolds
PROPERTIES CancelHolds CancelSettles
