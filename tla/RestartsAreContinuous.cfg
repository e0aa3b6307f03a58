SPECIFICATION Spec
CONSTANTS
  MaxInode = 2
  MaxLine = 3
  Beginnings <- EndOrBeginning
  BookmarkEvery = 2
  MaxRestarts = 1
  World <- Everything
  MaxKinds = 2
INVARIANT RestartsAreContinuous
CHECK_DEADLOCK FALSE
