SPECIFICATION FairSpec
CONSTANTS
  Procs = {p1, p2}
  Scanners = {s1}
  Values = {v1, v2}
  NewValues = {v2}
  None = None
  NumKeys = 4
  OpKeys = {0, 3}
  ScanFrom = {0}
  to_scan = 3
  Loaded = {1, 3}
  Shapes <- BothShapes
  RootLeafResizes = FALSE
  MaxNodes = 10
  MaxOps = 2
INVARIANTS RetiredUnreachable QuietTree Domains ScanSound
PROPERTIES Linearizable OperationsEnd
CHECK_DEADLOCK FALSE
