CONSTANTS
  AtbLen = 1
  BLOCKS_PER_ATB = 4
  StackSize = 1
  NRoots = 3
  MaxRequest = 2
  Resizes = {}
  MaxLock = 0
  Threshold <- ThresholdOff
  Finalisers = {FALSE, TRUE}
  AutoCollect = {}
  Stores = {}
SPECIFICATION FairSpec
PROPERTY FinaliserKept
