SPECIFICATION FairSpec
CONSTANTS
  Procs = {p1, p2}
  Values = {v1, v2}
  None = None
  Ptr = Ptr
  MaxOps = 2
INVARIANTS TypeOK PointerSafe NoUseAfterFree
PROPERTIES Linearizable OperationsEnd
CHECK_DEADLOCK FALSE
