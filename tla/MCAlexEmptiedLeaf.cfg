SPECIFICATION IndexSpec
CONSTANTS
  NumKeys = 5
  Updatable = {2}
  WordBits = 2
  Uninitialized = {0, 1, 2, 3, 4, 5}
  NumLippKeys = 4
  Slots = 3
  compact_policy = "ADAPTIVE"
  COMPACT_LEAF_MAX_SIZE = 4
  COMPACT_LINEAR_SCAN_MAX_SIZE = 1
  COMPACT_SEGMENT_SCAN_MAX_SIZE = 3
  COMPACT_SEGMENT_SIZE = 2
  MinCapacity = 1
  CapacityFactor = 1
  RebuildSize = 3
  RebuildRatio = 3
  MaxInserts = 3
  OpKeys = {1, 3}
  FirstExempt = FALSE
INVARIANT LastSlotReal
