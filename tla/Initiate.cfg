SPECIFICATION FairInitiateSpec
CONSTANTS
  MaxAttempts = 3
  UnknownMaxAttempts = 2
CHECK_DEADLOCK FALSE
INVARIANTS
  AttemptsAreCounted
  BudgetIsKept
  BudgetIsSpent
  AnswerIsBacked
PROPERTIES
  InitiateIsAnswered
