SPECIFICATION MCSpec
CONSTANTS
  None = None
  Blocks = {b1, b2, b3}
  Values = {1, 2}
  Revs = 6
  Room = 2
  Cycles = 3
  Garbage <- Old
  Superblock = FALSE
  Crowded = FALSE
  StaysOpen = FALSE
  FsBlocks = {0, 1, 2, 3, 4, 5, 6, 7, 8, 9, 10}
  Names = {1, 2}
  MaxDepth = 1
  MaxOps = 3
  MaxCompactions = 1
  MaxRelocations = 1
  MaxTroubles = 1
  AnyFailure = FALSE
  LateWear = FALSE
  MixedRepairs = FALSE
  Wear = {"create", "mkdir", "remove", "rmdir", "rename", "movedir"}
SYMMETRY Symmetric
INVARIANTS Readable ProgsErased Disjoint ListEnds Flagged
PROPERTIES Atomic TreeAtomic
CHECK_DEADLOCK FALSE
