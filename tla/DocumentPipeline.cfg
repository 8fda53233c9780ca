SPECIFICATION FairSpec
CONSTANTS
  Retries = {r1, r2}
  MaxJobs = 3
  Lag = TRUE
  MaxBreaks = 1
INVARIANTS
  TypeOK
  RowHasFile
  IndexMatchesRow
  NoForgottenDocument
PROPERTIES
  EveryParseEnds
CHECK_DEADLOCK FALSE
