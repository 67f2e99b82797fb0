CONSTANTS
  Spinners = {2, 3, 4}
  AlUsers = {u1, u2, u3}
  AlLocks = {"a", "b"}
  PreemptTry = FALSE
  PiPrio <- ThreePriorities
  PiLocks = {a, b}
  PreemptUnlock = FALSE
  Nested = FALSE
  PortUsers = {u1, u2, u3}
  NPORTS = 2
  PT_MSGS = 2
  PortSizes = {2}
  MaxSeq = 3
  HeapBlocks <- TwoFreeBlocks
  AddressSpace = 128
  Requests = {0, 1, 24, 96}
  WrapSizes = FALSE
  PoolUsers = {2, 3}
  PoolShapes <- OneBufferOrTwo
  NBPOOLS = 3
  PoolSems = 2
  TtyReaders = {2}
  TtyWriters = {4, 5}
  TY_IBUFLEN = 3
  TY_OBUFLEN = 2
  TY_EBUFLEN = 2
  UART_FIFO_SIZE = 1
  TtyOutput = {"newline"}
  Unhandled = {}
  EthReaders = {2}
  EthWriters = {3, 4}
  E1000_RX_RING_SIZE = 4
  E1000_TX_RING_SIZE = 3
  E1000_RING_BOUNDARY = 2
  FillTx = FALSE
  ArpUsers = {2, 3}
  ArpHosts = {1, 2, 3}
  ARP_SIZ = 2
  ARP_RETRY = 2
  EvictFresh = FALSE
  NetUsers = {2, 3}
  UDP_SLOTS = 2
  UDP_QSIZ = 1
  IP_OQSIZ = 2
  NetBufs = 4
  Remotes = {h1, h2}
  ShareSlots = FALSE
  FillIpq = FALSE
SPECIFICATION ServicesSpec
SYMMETRY Alike
CHECK_DEADLOCK FALSE
INVARIANTS SpinExclusion DeadlocksReported PiExclusion PiInherits
  PortCountsHold NoMessageOutlivesReset HeapIsWhole BuffersConserved
  RingsHoldTheText NoOutputStalls RingsAgree ResolutionsHold
  BuffersAccounted ReceiversAreTold
PROPERTY ActiveIsQueueLock
