SPECIFICATION MCSpec
CONSTANTS
  None = None
  Tasks = {t1, t2, t3}
  Events = {e}
  Locks = {}
  IoUses <- OneWay
  UsesWaitFor = TRUE
  UsesStop = TRUE
  CancelsWaiters = FALSE
  Streams = {s}
  MaxSleep = 1
  Socks = {1, 2}
  Pcbs = {1, 2, 3, 4}
  NULL = NULL
  Backlogs = {1, 3}
  NonBlocking = FALSE
  MaxBytes = 3
  Reports = {1, 3, 9, 13, 16, 18, 20}
  Lens = {3, 14}
  Tags = {170}
  RxBufs = {16, 24}
  UuidLen = 2
  MaxQueued = 2
  AtbLen = 2
  BLOCKS_PER_ATB = 2
  StackSize = 1
  NRoots = 2
  MaxRequest = 3
  Resizes = {1, 2, 3}
  MaxLock = 1
  Threshold = 1
  Finalisers = {FALSE, TRUE}
  AutoCollect = {FALSE, TRUE}
  Stores = {}
VIEW Relevant
INVARIANTS WaitersServed OwnsPcb QueueIsRing StreamIntact Framed NoLostEvent HintSound NoOrphanTail HeapIntact
