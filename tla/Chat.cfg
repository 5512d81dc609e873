SPECIFICATION FairSpec
CONSTANTS
  r1 = r1
  r2 = r2
  NoMessage = NoMessage
  Requests <- MCRequests2
  Backends = {"json", "postgres"}
  context_window = 2
  MaxTokens = 2
  MaxClears = 2
  MaxFaults = 1
INVARIANTS
  AnswersKept
  AnswerFollowsQuestion
  ClearedStaysCleared
PROPERTIES
  QuestionInContext
  HistoryGrows
  RequestsEnd
CHECK_DEADLOCK FALSE
