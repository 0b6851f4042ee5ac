SPECIFICATION FairSpec
CONSTANTS
  a = a
  b = b
  Callers <- MCCallers
  Kinds <- MCKinds
  QueueSize = 1
  RecvSize = 1
  AckEvery = 2
  MaxResume = 1
  WriteAttempts = 2
INVARIANTS
  EventsOnce
  WritesInOrder
  CleanClose
  EOTCommitsOnce
PROPERTIES
  CloseEnds
CHECK_DEADLOCK FALSE
