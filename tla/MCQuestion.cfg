CONSTANTS
  MaxToolCalls = 2
  MaxIterations = 2
  FallbackTools <- TwoTools
  MaxCalls = 2
  MaxChunks = 1
  MaxFaults = 1

SPECIFICATION FairQSpec
INVARIANTS
  NothingAfterTheEnd
  
  
  CallsAnswered
  BudgetKept
  AnswerDelivered
PROPERTY QuestionReturns
