SPECIFICATION Spec
CONSTANTS
  Modes = {"tmux", "file"}
  Anims = {"off", "live", "gif"}
  Syncs = {FALSE}
  FrameQ = 1
  AnimMax = 2
  MaxPage = 3
  SignalInIdle = TRUE
  SignalInGap = TRUE
  WriteMayFail = TRUE
  PaneMoves = FALSE
INVARIANTS TypeOK FramesCounted
PROPERTY RefinesPictureFeed
CHECK_DEADLOCK FALSE
