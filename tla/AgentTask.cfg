CONSTANTS
  Sessions = {s1, s2}
  Chats = {c1, c2}
  Stops = {}
  Tasks = {t1, t2}
  NoTask = NoTask
  NoSession = NoSession
  MaxOutput = 1
  MaxRestarts = 0
  Resume = TRUE
  Outages = TRUE
  Shutdowns = FALSE
SPECIFICATION Spec
SYMMETRY Symmetry
CHECK_DEADLOCK FALSE
INVARIANTS
  MessageInOnePlace
