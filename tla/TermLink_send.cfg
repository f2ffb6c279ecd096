SPECIFICATION FairSpec
CONSTANTS
  Size = 5
  Cap = 8
  Pty = 1
  MaxDiv = 2
  MaxLooks = 1
  MaxPic = 1
  MaxEvents = 2
INVARIANTS
  TypeOK
  HandedOneStep
  NothingLostSilently
PROPERTIES
  DropsExplained
  PanesendReturns
CHECK_DEADLOCK FALSE
