SPECIFICATION Spec
CONSTANTS
  Procs = {p1, p2}
  Scanners = {}
  Values = {v1, v2}
  NewValues = {v2}
  None = None
  NumKeys = 4
  OpKeys = {1, 3}
  ScanFrom = {0}
  to_scan = 3
  Loaded = {0, 3}
  Shapes <- JustOneLeaf
  RootLeafResizes = TRUE
  MaxNodes = 10
  MaxOps = 2
INVARIANT SuperrootAboveRoot
CHECK_DEADLOCK FALSE
