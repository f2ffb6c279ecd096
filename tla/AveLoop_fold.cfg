SPECIFICATION FairSpec
CONSTANTS
  Value = {1, 2}
  Steps = 5
  From = {0, 8}
  To = {8, 12}
  Incr = {1, 2}
  Chunk = 2
  Sel = {1, 4, 7}
INVARIANTS
  TypeOK
  BuffersOutliveReads
  ProgressIsTrue
  NothingHeld
PROPERTIES
  FoldsAllInOrder
  ReturnsInTheEnd
CHECK_DEADLOCK FALSE
