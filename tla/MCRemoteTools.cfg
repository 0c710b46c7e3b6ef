SPECIFICATION FairSpec
CONSTANTS
  Targets <- OneTarget
  Callers = {1, 2}
  MaxSessions = 2
  MaxChildren = 2
  MaxFaults = 1
  MaxCalls = 5
CONSTRAINT OneWindow
CHECK_DEADLOCK FALSE
INVARIANTS SessionsOwned
PROPERTIES  CallsEnd
