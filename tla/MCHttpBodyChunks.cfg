SPECIFICATION BodySpec
CONSTANTS
  Char = {a}
  NUL = NUL
  MaxCap = 4
  MaxWrite = 2
  MaxBlocks = 2
  NDebug = TRUE
  W = 16
  MaxAlloc = 7
  BodySize = 2
  TrunkSize = 4
  Lengths <- MCLengths
  Sizes <- MCSizes
  None = None
  LineLens = {2, 3}
  MaxChunk = 2
  MaxChunks = 3
  MaxResponses = 1
CHECK_DEADLOCK FALSE
INVARIANTS ChunksTerminated
