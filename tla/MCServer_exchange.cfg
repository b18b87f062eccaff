\* One connection, every kind of answer, deferred or not.
SPECIFICATION FairSpec
CONSTANTS
  Conn = {c1}
  NoConn = NoConn
  SndBuf = 1
  InitCap = 2
  MaxCap = 16
  BodyCap = 3
  RespCap = 2
  REQUEST_TIMEOUT = 2
  KEEPALIVE_TIMEOUT = 3
  SeqIds = 256
  MemLimit = 100
  FdLimit = 1
  OutLens = {1, 2}
  Requests = {"get", "head", "stream", "large", "bad"}
  MaxFragments = 4
  MaxChunks = 1
  AppCalls = {"respond", "chunks", "defer"}
  Faults = {"fin", "rst"}
  Lines = {"short"}
  Directives = {"none", "close"}
  HeadsVary = FALSE
PROPERTIES
  ImplementsExchange
  Reclaimed
