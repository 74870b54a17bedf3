SPECIFICATION BuffersSpec
CONSTANTS
  Char = {a}
  NUL = NUL
  MaxCap = 4
  MaxWrite = 4
  MaxBlocks = 2
  NDebug = FALSE
  W = 16
  MaxAlloc = 7
  BodySize = 2
  TrunkSize = 3
  Lengths <- MCLengths
  Sizes <- MCSizes
  None = None
  LineLens = {2, 3}
  MaxChunk = 4
  MaxChunks = 3
  MaxResponses = 2
CHECK_DEADLOCK FALSE
INVARIANTS WritesInBounds BlockOwned BodyInBounds BodyWhole TrunkFreed ContentTerminated
PROPERTIES AppendTerminates ImplementsText
