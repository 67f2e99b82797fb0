CONSTANTS
  NPROC = 4
  QUANTUM = 1
  NSEM = 0
  Prios = {1, 2}
  Delays = {}
  Counts = {}
  MaxCount = 0
  Calls <- LockCalls
  PreemptEnqueued = TRUE
SPECIFICATION LockSpec
INVARIANT OneQueuePerProcess
