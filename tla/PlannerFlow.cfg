SPECIFICATION FairSpec
CONSTANTS
  MaxSends = 3
  MaxSteps = 3
  MaxIterations = 1
  MaxRetries = 2
  MaxMishaps = 1
INVARIANTS
  TypeOK
  CallsAreAnswered
  ReplyAnswersTheQuestion
PROPERTIES
  ResumesWhereItAsked
  FinishedStepsStay
  InvocationEnds
CHECK_DEADLOCK FALSE
