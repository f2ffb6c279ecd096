SPECIFICATION Spec
CONSTANTS
  Name = {v}
  Dims = {}
  MaxFiles = 2
  MaxObj = 3
  Opt = {"cint", "vrange"}
  Once = {"cint"}
  Val = {1}
  Limits = {2}
  SnapMayFail = TRUE
  OwnGrids = TRUE
  MaxCmd = 7
  MaxSub = 6
INVARIANTS
  TypeOK
  DefaultFileOpen
  OneCalendar
  RefusedByOpenFiles
  OptionsAsShorter
  ScalingAsShorter
  KeptScalingLive
CHECK_DEADLOCK FALSE
