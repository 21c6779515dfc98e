SPECIFICATION FairSpec
CONSTANTS
  Procs = {p1, p2}
  Putters = {p1}
  Scanners = {p2}
  ScanFrom = {3}
  to_scan = 2
  Values = {v1}
  None = None
  OpKeys = {3}
  Layout <- TwoGroups
  Buffered = {4, 5}
  Errors = {"low", "ok"}
  MaxModelN = 1
  BufferSizeBound = 3
  MergeBound = 3
  CompactThreshold = 1
  MaxOps = 2
  MaxPass = 1
PROPERTIES ThreadsJoin
CHECK_DEADLOCK FALSE
