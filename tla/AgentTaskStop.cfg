CONSTANTS
  Sessions = {s1}
  Chats = {c1, c2}
  Stops = {x1, x2}
  Tasks = {t1}
  NoTask = NoTask
  NoSession = NoSession
  MaxOutput = 1
  MaxRestarts = 0
  Resume = TRUE
  Outages = TRUE
  Shutdowns = FALSE
SPECIFICATION Spec
SYMMETRY Symmetry
CHECK_DEADLOCK FALSE
INVARIANTS
  TypeOK
  RegisteredTaskIsUnfinished
  CancelHandlerUninterrupted
  EndedStreamIsClosed
