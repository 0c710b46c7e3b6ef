\* Three facts, four ids, two candidates per extraction, one crash.
SPECIFICATION Spec
CONSTANTS
  Id = {1, 2, 3, 4}
  Fact = {f, g, h}
  MaxBatch = 2
  Limit = 1
  Catalog = 1
  Rank = 2
  MaxCrashes = 1
  None = None
CONSTRAINT Bounded
SYMMETRY FactsAlike
CHECK_DEADLOCK FALSE
INVARIANTS KnowledgeHolds
PROPERTIES HistoryIsKept
