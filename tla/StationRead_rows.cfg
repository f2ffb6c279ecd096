SPECIFICATION Spec
CONSTANTS
  Layout <- MixedLayouts
  Slot = {1}
  MaxOpens = 2
  MaxGone = 1
  NamesFail = TRUE
  MaxCache = 2
  ReadsFail = TRUE
  Area = {1}
  SCNUM = 1
INVARIANTS
  TypeOK
  OneFileOpen
  RowsAreRightUnlessLate
  CacheIsTrue
  ReportsAreRightUnlessTorn
CHECK_DEADLOCK FALSE
