CONSTANTS
  HistoryLimit = 2
  ResponseCap = 1
  MaxMentions = 2
  MaxFaqAnswers = 1
  MaxConnections = 2
SPECIFICATION FairSpec
CHECK_DEADLOCK FALSE
INVARIANTS TypeOK HistoryBound QuestionInContext SearchProtocol AsyncInOrder
PROPERTIES SearchIsAnswered CallbackReturns
