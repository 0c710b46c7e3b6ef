\* Three projects, two proposals for the same change, one crash.
SPECIFICATION Spec
CONSTANTS
  MaxWrites = 3
  MaxEdits = 2
  MaxCrashes = 1
  NoOne = NoOne
CONSTRAINT Bounded
CHECK_DEADLOCK FALSE
INVARIANTS TargetsHold ProposalsHold
PROPERTIES NoWriteAfterCancel 
