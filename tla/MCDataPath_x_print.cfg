\* A chunk that does not fit into the print buffer at first.
CONSTANTS
  MaxCap = 44
  InitCap = 10
  SeqIds = 256
  Limit <- Limits
  RespCap = 22
  Shapes <- OnlySmall
  Responses <- Answers
  Pieces <- Long
  MaxRequests = 1
  MaxChunks = 2
  Cut <- Apart
  Repeats = TRUE
SPECIFICATION Spec
INVARIANT
  ResponseExact
