SPECIFICATION Spec
CONSTANTS
  ThreadNums <- SameTwice
  MaxThreads = 1
  Bgs = {b1, b2}
  MaxOps = 2
  MaxPublish = 3
INVARIANT NoUseAfterFree
CHECK_DEADLOCK FALSE
