CONSTANTS
  NPROC = 4
  QUANTUM = 1
  NSEM = 1
  Prios = {1, 2}
  Delays = {}
  Counts = {0}
  MaxCount = 1
  Calls <- MisuseCalls
  PreemptEnqueued = FALSE
SPECIFICATION LockSpec
VIEW lock_live
INVARIANTS MutualExclusion HolderIsOwner OneQueuePerProcess
PROPERTY ImplementsQueueLock
