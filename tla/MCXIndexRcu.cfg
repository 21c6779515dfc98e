SPECIFICATION FairSpec
CONSTANTS
  ThreadNums <- OneIndex
  MaxThreads = 2
  Bgs = {b1, b2}
  MaxOps = 2
  MaxPublish = 2
INVARIANTS TypeOK NoUseAfterFree
PROPERTY ExitReleasesBarriers
CHECK_DEADLOCK FALSE
