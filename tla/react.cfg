SPECIFICATION FairSpec
CONSTANTS
  max_iterations = 4
  window = 2
  MaxCalls = 2
CHECK_DEADLOCK FALSE
INVARIANTS RequestWellFormed AnswerDelivered TerminationTruthful
PROPERTIES RunReturns
