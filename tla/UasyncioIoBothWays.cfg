SPECIFICATION Spec
CONSTANTS
  Tasks = {t1, t2, t3}
  Events = {}
  Locks = {}
  Streams = {s}
  None = None
  MaxSleep = 0
  IoUses <- BothWays
  UsesWaitFor = FALSE
  UsesStop = FALSE
  CancelsWaiters = FALSE
INVARIANT IoWaitersMapped
CHECK_DEADLOCK FALSE
