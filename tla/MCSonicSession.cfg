SPECIFICATION FairSpec
CONSTANTS
  Senders = {"mic", "app"}
  MaxSends = 3
  Budgets <- MCBudgets
  RecvSize = 1
INVARIANTS
  Bracketed
  FramesMatch
PROPERTY
  CloseEnds
CHECK_DEADLOCK FALSE
