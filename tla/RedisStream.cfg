CONSTANTS
  Poppers = {p1, p2}
  NoPopper = NoPopper
  MaxPuts = 3
  MaxTries = 2
  MaxStalls = 2
  MaxBreaks = 1
SPECIFICATION FairSpec
INVARIANTS
  TypeOK
  LockGuards
  InOrder
  NothingLost
PROPERTIES
  EveryMessageTaken
  IsMessageQueue
