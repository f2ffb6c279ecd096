SPECIFICATION Spec
CONSTANTS
  b1 = b1  b2 = b2  b3 = b3  b4 = b4  line = line  mark = mark
  NoBuf = NoBuf
  NoPage = NoPage
  Buf <- MCBuf4
  Prim <- MCOne
  Words <- MCWordsOne
  Need <- MCWordsOne
  BufLen = 2
  Backdrop <- MCPlain
  AllocMayFail = TRUE
  ClearAfterDraw = TRUE
  UndoInScript = TRUE
  MaxLim = 2
  MaxGen = 4
SYMMETRY Symm4
INVARIANTS TypeOK BuffersOwnedOnce HeapAccounted NoFrameStepsInDoubleBuffering BackgroundHasSurface
PROPERTY SwapShowsBackground
CHECK_DEADLOCK FALSE
