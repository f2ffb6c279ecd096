SPECIFICATION Spec
CONSTANTS
  Modes = {"tmux"}
  Anims = {"gif"}
  Syncs = {FALSE}
  FrameQ = 2
  AnimMax = 2
  MaxPage = 5
  SignalInIdle = FALSE
  SignalInGap = FALSE
  WriteMayFail = FALSE
  PaneMoves = FALSE
INVARIANTS AtMostTwoMore GifIsOneCommand NothingLeftAtPrompt
CHECK_DEADLOCK FALSE
