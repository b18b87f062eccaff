\* Two connections whose requests may be deferred; the buffers of one are
\* enough for the other to be refused.
SPECIFICATION Spec
CONSTANTS
  Conn = {c1, c2}
  NoConn = NoConn
  SndBuf = 1
  InitCap = 2
  MaxCap = 16
  BodyCap = 3
  RespCap = 2
  REQUEST_TIMEOUT = 2
  KEEPALIVE_TIMEOUT = 3
  SeqIds = 256
  MemLimit = 1
  FdLimit = 2
  OutLens = {2}
  Requests = {"get", "large"}
  MaxFragments = 2
  MaxChunks = 1
  AppCalls = {"respond", "defer"}
  Faults = {"fin"}
  Lines = {"short"}
  Directives = {"none", "close"}
  HeadsVary = FALSE
INVARIANTS
  NoDanglingRequest
  HandleLive
  TimerRuns
  BacklogEmptied
  MemoryAccounted
PROPERTIES
  ResponseNotCut
SYMMETRY Connections
