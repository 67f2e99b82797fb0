CONSTANTS
  NPROC = 4
  QUANTUM = 1
  NSEM = 1
  Prios = {1}
  Delays = {0, 1, 2}
  Counts = {0, 2}
  MaxCount = 2
  Calls <- MsgCalls
SPECIFICATION Spec
VIEW live
CHECK_DEADLOCK FALSE
INVARIANTS TypeOK ReceiveHasMessage
PROPERTY SleepersOnTime
