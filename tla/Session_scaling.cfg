SPECIFICATION Spec
CONSTANTS
  Name = {v}
  Dims = {}
  MaxFiles = 2
  MaxObj = 2
  Opt = {"cint", "vrange"}
  Once = {"cint"}
  Val = {1}
  Limits = {2}
  SnapMayFail = TRUE
  OwnGrids = FALSE
  MaxCmd = 6
  MaxSub = 6
PROPERTY
  UndoneScalingLive
