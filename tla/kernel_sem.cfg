CONSTANTS
  NPROC = 4
  QUANTUM = 2
  NSEM = 1
  Prios = {1, 2}
  Delays = {1}
  Counts = {0, 2}
  MaxCount = 2
  Calls <- SemCalls
SPECIFICATION Spec
VIEW live
CHECK_DEADLOCK FALSE
INVARIANTS QueuesMatchStates CountsMatchQueues HighestPriorityRuns
