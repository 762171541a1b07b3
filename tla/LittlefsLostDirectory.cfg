SPECIFICATION Spec
CONSTANTS
  Blocks = {0, 1, 2, 3, 4, 5, 6, 7, 8, 9, 10}
  Names = {1, 2}
  MaxDepth = 1
  MaxOps = 2
  MaxCompactions = 0
  MaxRelocations = 1
  MaxTroubles = 1
  AnyFailure = FALSE
  LateWear = FALSE
  MixedRepairs = TRUE
  Wear = {"movedir"}
INVARIANT Flagged
CHECK_DEADLOCK FALSE
