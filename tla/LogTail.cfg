SPECIFICATION FairSpec
CONSTANTS
  MaxInode = 2
  MaxLine = 3
  Beginnings <- EndOrBeginning
  BookmarkEvery = 2
  MaxRestarts = 1
  World <- Everything
  MaxKinds = 3
INVARIANTS
  LogIsRead
  RepeatsLittle
PROPERTY CatchesUp
CHECK_DEADLOCK FALSE
