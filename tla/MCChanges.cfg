SPECIFICATION FairSpec
CONSTANTS
  c1 = c1
  c2 = c2
  Absent = Absent
  Original = Original
  Edited = Edited
  None = None
  Changesets <- TwoSets
  Request <- Opposite
  NPaths = 2
  New <- Second
  Protected <- First
  MaxFaults = 1
  MaxEdits = 1
  MaxApprovals = 1
CONSTRAINT OneWindow
CHECK_DEADLOCK FALSE
INVARIANTS AllOrNothing CertainFailureIsClean
PROPERTIES NoLostUpdate ApplyEnds
