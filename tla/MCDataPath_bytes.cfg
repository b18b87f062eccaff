\* Every kind of request and of answer, with the arrivals the parser copes with.
CONSTANTS
  MaxCap = 48
  InitCap = 10
  SeqIds = 256
  Limit <- Limits
  RespCap = 22
  Shapes <- OneOfEach
  Responses <- Answers
  Pieces <- Short
  MaxRequests = 2
  MaxChunks = 2
  Cut <- Apart
  Repeats = TRUE
SPECIFICATION Spec
INVARIANTS
  DataFits
  InBounds
  RequestExact
  NoStall
  NotDropped
  ResponseExact
  Whole
PROPERTY
  ImplementsTransfer
