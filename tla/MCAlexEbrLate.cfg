SPECIFICATION Spec
CONSTANTS
  Threads = {t1, t2}
  BatchSize = 1
  MaxNodes = 6
SYMMETRY Symmetry
INVARIANTS NoUseAfterFree
CHECK_DEADLOCK FALSE
