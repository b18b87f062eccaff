\* A body the last byte of which comes late.
CONSTANTS
  MaxCap = 44
  InitCap = 10
  SeqIds = 256
  Limit <- Limits
  RespCap = 22
  Shapes <- OnlySmall
  Responses <- Answers
  Pieces <- Short
  MaxRequests = 1
  MaxChunks = 2
  Cut <- BeforeLast
  Repeats = TRUE
SPECIFICATION Spec
INVARIANT
  BodyExact
