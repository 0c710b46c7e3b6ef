\* Two messages, three operations, two investigations, one crash or orderly stop.
SPECIFICATION SessionSpec
CONSTANTS
  MaxActive = 2
  Page = 1
  ResumePage = 2
  MaxMsgs = 2
  MaxOps = 3
  MaxInvs = 2
  MaxSaid = 1
  MaxCrashes = 1
CONSTRAINT OneWindow
CHECK_DEADLOCK FALSE
INVARIANTS SessionTracksWork 
PROPERTIES WorkEnds
