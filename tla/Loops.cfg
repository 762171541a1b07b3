SPECIFICATION MCSpec
CONSTANTS
  Depth = 4
  MaxNest = 3
  MaxKbd = 2
  Callbacks <- MCCallbacks
  None = None
  Tasks = {t1, t2, t3}
  Locks = {lk}
  MaxSleep = 1
INVARIANTS TypeOK LockDepth NoLostWakeup NoPreemption OneQueue LockExclusive NoMissedWakeup CancelKept
PROPERTIES CallbackRuns InterruptTaken ImplementsCallbackQueue ScheduledRuns
