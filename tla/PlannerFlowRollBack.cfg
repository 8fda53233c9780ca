SPECIFICATION Spec
CONSTANTS
  MaxSends = 2
  MaxSteps = 1
  MaxIterations = 1
  MaxRetries = 2
  MaxMishaps = 1
INVARIANTS
  RollBackRepairs
CHECK_DEADLOCK FALSE
