SPECIFICATION FairSpec
CONSTANTS
  Modes = {"tmux", "inline"}
  Anims = {"gif"}
  Syncs = {FALSE, TRUE}
  FrameQ = 1
  AnimMax = 2
  MaxPage = 3
  SignalInIdle = FALSE
  SignalInGap = FALSE
  WriteMayFail = FALSE
  PaneMoves = TRUE
PROPERTIES PromptShowsPage MainReturns
CHECK_DEADLOCK FALSE
