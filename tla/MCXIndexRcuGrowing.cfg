SPECIFICATION Spec
CONSTANTS
  ThreadNums <- Growing
  MaxThreads = 2
  Bgs = {b1, b2}
  MaxOps = 1
  MaxPublish = 1
INVARIANT StatusInBounds
CHECK_DEADLOCK FALSE
