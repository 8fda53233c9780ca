CONSTANTS
  Sessions = {s1}
  Chats = {c1, c2}
  Stops = {}
  Tasks = {t1}
  NoTask = NoTask
  NoSession = NoSession
  MaxOutput = 1
  MaxRestarts = 1
  Resume = FALSE
  Outages = FALSE
  Shutdowns = TRUE
SPECIFICATION FairSpec
CHECK_DEADLOCK FALSE
PROPERTIES
  FollowerEnds
  ExecutionEnds
