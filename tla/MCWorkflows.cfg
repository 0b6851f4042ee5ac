SPECIFICATION EachSpec
CONSTANTS
  MaxAgents = 3
  Flows <- MCFlows
  OutSize = 1
  MaxText = 2
  Jobs <- SpeechJobs
INVARIANTS
  EndIsTrue
  AnswersAreWhole
  ReplyWhole
PROPERTIES
  Returns
  WorkersEnd
CHECK_DEADLOCK FALSE
