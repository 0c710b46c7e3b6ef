SPECIFICATION FairSpec
CONSTANTS
  NSubs = 2
  Kind <- FileAndDocker
  MaxActive = 1
  QueueSize = 2
  BatchSize = 2
  PageSize = 1
  LiveSize = 2
  MaxFailures = 2
  MaxLines <- TwoEach
  MaxBlanks = 2
  MaxRotations = 1
  MaxFaults = 2
  MaxCalls = 3
CONSTRAINT OneWindow
CHECK_DEADLOCK FALSE
INVARIANTS LinesKept SocketSeesAll
PROPERTIES LinesArrive
