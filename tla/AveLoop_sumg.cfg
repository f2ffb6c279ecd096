SPECIFICATION Spec
CONSTANTS
  Value = {1}
  Steps = 3
  From = {2}
  To = {6}
  Incr = {1}
  Chunk = 2
  Sel = {4}
INVARIANTS
  SumgSkipsMissing
CHECK_DEADLOCK FALSE
