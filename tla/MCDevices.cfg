SPECIFICATION DevicesSpec
CONSTANTS
  c1 = c1
  f1 = f1
  f2 = f2
  f3 = f3
  f4 = f4
  k1 = k1
  Conn <- MCConn
  TLS <- MCConn
  Jar <- MCConn
  Fd <- MCFd
  NoFd = NoFd
  NoConn = NoConn
  Cookie <- MCCookie
  Debug = TRUE
  MaxRedirects = 2
  MaxCalls = 5
  MaxDevices = 2
  Lists <- MCLists
  Empty = Empty
  Junk = Junk
INVARIANTS WatchKeepsSockets PasswordSentOnce RowsAreObjects
