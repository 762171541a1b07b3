SPECIFICATION Spec
CONSTANTS
  Socks = {1, 2}
  Pcbs = {1, 2, 3}
  NULL = NULL
  Backlogs = {1, 2}
  NonBlocking = FALSE
  MaxBytes = 3
INVARIANT RecvAsserts
CHECK_DEADLOCK FALSE
