CONSTANTS
  NPROC = 3
  QUANTUM = 2
  NSEM = 1
  Prios = {1, 2}
  Delays = {1, 2}
  Counts = {0, 2}
  MaxCount = 2
  Calls <- LiveCalls
SPECIFICATION LiveSpec
PROPERTIES SleepersWake RoundRobin
