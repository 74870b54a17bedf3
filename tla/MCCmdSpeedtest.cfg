SPECIFICATION CmdSpec
CONSTANTS
  f1 = f1
  f2 = f2
  Conn <- MCConn
  TLS <- MCTLS
  Fd <- MCFd
  NoFd = NoFd
  NoConn = NoConn
  MainThread = MainThread
  Writer <- MCWriter
  Nobody = Nobody
  Verbose = TRUE
  ThreadCount = 3
  FileSize = 4
  BlocksPerMB = 2
  IntW = 8
  MaxRounds = 2
  Scarce = TRUE
  Count = 4
  Milli = 2
  Scale = 10000
  Rtts <- MCRtts
INVARIANTS TransferOnOwnSocket ResultsWritable RoundLeavesNothing PingReported LinesWhole
PROPERTIES ImplementsForkJoin RoundsEnd
