SPECIFICATION FairSpec
CONSTANTS
  Modes <- MCModes
  MaxRounds = 2
  OutSize = 1
  MaxCalls = 2
  MaxChanges = 1
INVARIANTS
  ResultsMatchCalls
  GateRespected
  RoundsCounted
PROPERTIES
  ImplementsConversation
  LoopEnds
CHECK_DEADLOCK FALSE
