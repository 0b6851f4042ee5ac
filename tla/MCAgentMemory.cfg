SPECIFICATION FairSpec
CONSTANTS
  Turns = {1, 2, 3}
  Setups <- MCSetups
  OutSize = 1
  MaxText = 2
INVARIANTS
  ContextExact
  TurnAtomic
PROPERTIES
  CancelledTurnEnds
CHECK_DEADLOCK FALSE
