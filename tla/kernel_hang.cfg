CONSTANTS
  NPROC = 4
  QUANTUM = 2
  NSEM = 1
  Prios = {1}
  Delays = {2}
  Counts = {0, 2}
  MaxCount = 2
  Calls <- HangCalls
SPECIFICATION LiveSpec
CHECK_DEADLOCK FALSE
PROPERTY SleepersWake
