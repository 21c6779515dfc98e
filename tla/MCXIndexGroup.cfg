SPECIFICATION Spec
CONSTANTS
  Procs = {p1, p2}
  Putters = {p1, p2}
  Scanners = {}
  ScanFrom = {1}
  to_scan = 3
  Values = {v1, v2}
  None = None
  OpKeys = {3}
  Layout <- TwoGroups
  Buffered = {4, 5}
  Errors = {"low", "ok"}
  MaxModelN = 1
  BufferSizeBound = 3
  MergeBound = 3
  CompactThreshold = 1
  MaxOps = 3
  MaxPass = 1
SYMMETRY Symmetry
INVARIANTS NoDuplicateKey NoUseAfterFree
PROPERTY Linearizable
CHECK_DEADLOCK FALSE
