SPECIFICATION Spec
CONSTANTS
  Procs = {p1, p2}
  Putters = {p1}
  Scanners = {p2}
  ScanFrom = {1}
  to_scan = 3
  Values = {v1, v2}
  None = None
  OpKeys = {3}
  Layout <- OneGroup
  Buffered = {2, 4}
  Errors = {"high", "ok", "low"}
  MaxModelN = 2
  BufferSizeBound = 3
  MergeBound = 3
  CompactThreshold = 1
  MaxOps = 3
  MaxPass = 1
SYMMETRY Symmetry
INVARIANTS TypeOK PointersResolve ScanSound
PROPERTY Linearizable
CHECK_DEADLOCK FALSE
