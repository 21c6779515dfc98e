SPECIFICATION Spec
CONSTANTS
  Procs = {p1, p2}
  Putters = {p1, p2}
  Scanners = {}
  ScanFrom = {1}
  to_scan = 3
  Values = {v1}
  None = None
  OpKeys = {2}
  Layout <- OneGroup
  Buffered = {}
  Errors = {"high"}
  MaxModelN = 1
  BufferSizeBound = 3
  MergeBound = 3
  CompactThreshold = 1
  MaxOps = 2
  MaxPass = 1
INVARIANT NoDuplicateKey
CHECK_DEADLOCK FALSE
