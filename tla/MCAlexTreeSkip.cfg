SPECIFICATION Spec
CONSTANTS
  Procs = {p1, p2}
  Scanners = {s1}
  Values = {v1, v2}
  NewValues = {v2}
  None = None
  NumKeys = 4
  OpKeys = {1, 2}
  ScanFrom = {0, 2}
  to_scan = 3
  Loaded = {0, 2, 3}
  Shapes <- BothShapes
  RootLeafResizes = FALSE
  MaxNodes = 10
  MaxOps = 2
INVARIANT ScanComplete
CHECK_DEADLOCK FALSE
