CONSTANTS
  Sessions = {s1}
  Chats = {c1, c2}
  Stops = {}
  Tasks = {t1, t2}
  NoTask = NoTask
  NoSession = NoSession
  MaxOutput = 0
  MaxRestarts = 0
  Resume = FALSE
  Outages = FALSE
  Shutdowns = FALSE
SPECIFICATION Spec
SYMMETRY Symmetry
CHECK_DEADLOCK FALSE
INVARIANT
  NoMessageStranded
