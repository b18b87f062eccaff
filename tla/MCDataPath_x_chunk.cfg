\* A first chunk that arrives in two halves.
CONSTANTS
  MaxCap = 44
  InitCap = 10
  SeqIds = 256
  Limit <- Limits
  RespCap = 22
  Shapes <- OnlyFirst
  Responses <- Answers
  Pieces <- Short
  MaxRequests = 1
  MaxChunks = 2
  Cut <- InFirst
  Repeats = TRUE
SPECIFICATION Spec
INVARIANT
  BodyExact
