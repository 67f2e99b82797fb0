CONSTANTS
  NPROC = 4
  QUANTUM = 1
  NSEM = 0
  Prios = {1}
  Delays = {}
  Counts = {}
  MaxCount = 0
  Calls <- LockCalls
  PreemptEnqueued = FALSE
SPECIFICATION LockLiveSpec

PROPERTY WaitersServed
