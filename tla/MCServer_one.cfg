\* One connection: every well-formed request, whole and chunked responses,
\* an application that sets the connection directive and frees buffers.
SPECIFICATION Spec
CONSTANTS
  Conn = {c1}
  NoConn = NoConn
  SndBuf = 1
  InitCap = 2
  MaxCap = 17
  BodyCap = 3
  RespCap = 2
  REQUEST_TIMEOUT = 2
  KEEPALIVE_TIMEOUT = 3
  SeqIds = 256
  MemLimit = 100
  FdLimit = 1
  OutLens = {1, 2}
  Requests = {"get", "head", "bighead", "stream", "large"}
  MaxFragments = 4
  MaxChunks = 1
  AppCalls = {"respond", "chunks", "defer", "defer_last", "connection", "free"}
  Faults = {"fin", "rst"}
  Lines = {"short"}
  Directives = {"none", "close"}
  HeadsVary = TRUE
INVARIANTS
  TypeOK
  NoLostWakeup
  CallbackRegistered
  KeepAliveHonoured
  NoFault
  MemoryNotOverstated
