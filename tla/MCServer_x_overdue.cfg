\* A deferred answer that comes after the timeout.
SPECIFICATION Spec
CONSTANTS
  Conn = {c1}
  NoConn = NoConn
  SndBuf = 1
  InitCap = 2
  MaxCap = 16
  BodyCap = 3
  RespCap = 2
  REQUEST_TIMEOUT = 2
  KEEPALIVE_TIMEOUT = 3
  SeqIds = 256
  MemLimit = 100
  FdLimit = 1
  OutLens = {1}
  Requests = {"get"}
  MaxFragments = 3
  MaxChunks = 1
  AppCalls = {"respond", "defer", "overdue"}
  Faults = {}
  Lines = {"short"}
  Directives = {"none", "close"}
  HeadsVary = FALSE
INVARIANTS
  HandleLive
