SPECIFICATION Spec
CONSTANTS
  k1 = k1
  k2 = k2
  NoKey = NoKey
  Keys = {k1, k2}
  MaxFailures = 3
  MaxClosing = 1
  Happens = {"change"}
CHECK_DEADLOCK FALSE
INVARIANTS GapIsRead
