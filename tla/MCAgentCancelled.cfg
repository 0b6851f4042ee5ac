SPECIFICATION FairSpec
CONSTANTS
  Turns = {1, 2, 3}
  Setups <- MCSetups
  OutSize = 1
  MaxText = 2
PROPERTY PartialDiscarded
CHECK_DEADLOCK FALSE
