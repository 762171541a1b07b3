SPECIFICATION MCSpec
CONSTANTS
  AtbLen = 1
  BLOCKS_PER_ATB = 5
  StackSize = 1
  NRoots = 2
  MaxRequest = 2
  Resizes = {}
  MaxLock = 0
  Threshold <- ThresholdOff
  Finalisers = {FALSE}
  AutoCollect = {}
  Stores = {1, 2, 3}
  Threads = {main, ta, tb}
  Main = main
  Objs = {a, b}
  Globals = Globals
  Nobody = Nobody
  StoresDuring = FALSE
INVARIANTS TypeOK LiveIntact LiveKept StartsClean
PROPERTIES CollectionEnds Collected
