CONSTANTS
  NPROC = 4
  QUANTUM = 1
  NSEM = 1
  Prios = {1, 2}
  Delays = {1}
  Counts = {0, 2}
  MaxCount = 2
  Calls <- KillCalls
SPECIFICATION Spec
CHECK_DEADLOCK FALSE
INVARIANT PrcountIsLive
