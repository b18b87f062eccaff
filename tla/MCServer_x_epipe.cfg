\* Two connections writing, one of them reset.
SPECIFICATION Spec
CONSTANTS
  Conn = {c1, c2}
  NoConn = NoConn
  SndBuf = 1
  InitCap = 2
  MaxCap = 16
  BodyCap = 3
  RespCap = 2
  REQUEST_TIMEOUT = 2
  KEEPALIVE_TIMEOUT = 3
  SeqIds = 256
  MemLimit = 100
  FdLimit = 2
  OutLens = {3}
  Requests = {"get"}
  MaxFragments = 1
  MaxChunks = 1
  AppCalls = {"respond"}
  Faults = {"rst"}
  Lines = {"short"}
  Directives = {"none", "close"}
  HeadsVary = FALSE
PROPERTIES
  ResponseNotCut
