SPECIFICATION Spec
CONSTANTS
  read = read
  ask = ask
  r1 = r1
  r2 = r2
  t1 = t1
  t2 = t2
  None = None
  Calls <- BothCalls
  Dangerous <- OneCall
  NeedsApproval <- OneCall
  Runs <- TwoRuns
  Tasks <- TwoTasks
  MaxCrashes = 2
SYMMETRY Symmetry
CONSTRAINT Bounded
INVARIANTS TypeOK ExecutesOnce EffectNeedsGrant NothingLeftBehind
PROPERTIES CancelStartsNothing
