SPECIFICATION Spec
CONSTANTS
  b1 = b1  b2 = b2  b3 = b3  b4 = b4  line = line  mark = mark
  NoBuf = NoBuf
  NoPage = NoPage
  Buf <- MCBuf3
  Prim <- MCPrim
  Words <- MCWords
  Need <- MCWords
  BufLen = 2
  Backdrop <- MCColored
  AllocMayFail = TRUE
  ClearAfterDraw = FALSE
  UndoInScript = FALSE
  MaxLim = 3
  MaxGen = 4
SYMMETRY Symm3
INVARIANTS StepsStayUsable PrimitivesWhole
PROPERTY RefinesUndoHistory
CHECK_DEADLOCK FALSE
