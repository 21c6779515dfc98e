SPECIFICATION FairSpec
CONSTANTS
  Procs = {p1, p2}
  Scanners = {s1}
  Values = {v1}
  None = None
  Garbage = Garbage
  Capacity = 3
  OpKeys = {3, 6, 25}
  ScanFrom = {2}
  Loads <- MCLoads
  MaxOps = 2
INVARIANTS TypeOK ChainSorted Separated QuietTree ScanExact
PROPERTIES Linearizable OperationsEnd
CHECK_DEADLOCK FALSE
