\* A chunked body that is longer than the buffer.
CONSTANTS
  MaxCap = 34
  InitCap = 34
  SeqIds = 256
  Limit <- Limits
  RespCap = 22
  Shapes <- OnlyFull
  Responses <- Answers
  Pieces <- Short
  MaxRequests = 1
  MaxChunks = 2
  Cut <- InSecond
  Repeats = TRUE
SPECIFICATION Spec
INVARIANT
  NoStall
