SPECIFICATION CommandsSpec
CONSTANTS
  PathLens <- MCPath
  DomainLens <- MCDomain
  CookieLens <- MCCookie
  DataLens <- MCData
  PortDigits <- MCPort
  InfoVarLen = 40
  MaxPathLen = 200
  EncodedLen = 54
  MaxColons = 7
  CodeSize = 5
  MaxLines = 3
  ValueLens <- MCValues
  AddressLens <- MCAddress
  CheckCodes <- MCCheckCodes
  GarbageLens <- MCGarbage
  Chunks <- MCChunks
  GB <- MCGB
  FreeFlow <- MCFree
  FeePerGB = 6144
  FeeStrLen = 16
  Decimals = 4
  Flows <- MCFlows
  Flows6 <- MCFlows6
  Fees <- MCFees
  Modes <- MCModes
INVARIANTS RequestWhole TextsWhole ShareShown FeeShown
CHECK_DEADLOCK FALSE
