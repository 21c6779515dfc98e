SPECIFICATION Spec
CONSTANTS
  Threads = {t1, t2}
  BatchSize = 1
  MaxNodes = 6
SYMMETRY Symmetry
INVARIANTS TypeOK SafeUnlessLate RetiredOnce SkewUnlessLate
CHECK_DEADLOCK FALSE
