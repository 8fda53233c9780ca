SPECIFICATION Spec
CONSTANTS
  Retries = {r1, r2}
  MaxJobs = 3
  Lag = FALSE
  MaxBreaks = 1
INVARIANTS
  IndexIsIdempotent
CHECK_DEADLOCK FALSE
