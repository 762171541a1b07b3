SPECIFICATION Spec
CONSTANTS
  None = None
  Blocks = {b1, b2, b3}
  Values = {1, 2}
  Revs = 6
  Room = 2
  Cycles = 3
  Garbage <- Old
  Superblock = FALSE
  Crowded = FALSE
  StaysOpen = TRUE
INVARIANT Durable
SYMMETRY Symmetric
CHECK_DEADLOCK FALSE
