SPECIFICATION Spec
CONSTANTS
  Jobs <- MCJobs
  OutSize = 1
INVARIANTS
  TranscriptsKept
CHECK_DEADLOCK FALSE
