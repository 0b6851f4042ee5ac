SPECIFICATION FairSpec
CONSTANTS
  Chains <- MCChains
  BufSize = 1
  MaxFrames = 2
  MaxStages = 3
  MaxCalls = 2
INVARIANTS
  CleanEndIsWhole
  TotalsReported
  FailureReported
  CachedWhole
PROPERTIES
  GoroutinesEnd
CHECK_DEADLOCK FALSE
