CONSTANTS
  RdsUsers = {a, b}
  RdsBlocks = {c, d, e}
  RD_CNODES = 1
  RD_RETRIES = 2
  TakeEarlier = FALSE
  MaxWrites = 2
  MaxExchanges = 3
  LfNames = {a, b}
  LfChars = {c, d}
  Nlfl = 2
  LF_BLKSIZ = 1
  LF_IBLEN = 2
  IBlocks = 2
  DBlocks = 3
  LF_NUM_DIR_ENT = 2
  IbPerSector = 2
  OpenTogether = FALSE
  CloseApart = FALSE
  Offsets = {0}
  MaxSize = 3
SPECIFICATION StorageSpec
SYMMETRY Alike
CHECK_DEADLOCK FALSE
INVARIANT RemoteDiskHolds
PROPERTY LfsIsFileStore
