SPECIFICATION FairSpec
CONSTANTS
  c1 = c1
  f1 = f1
  f2 = f2
  f3 = f3
  f4 = f4
  k1 = k1
  Conn <- OneConn
  TLS <- OneConn
  Jar <- OneConn
  Fd <- FourFds
  NoFd = NoFd
  NoConn = NoConn
  Cookie <- OneCookie
  Debug = TRUE
  MaxRedirects = 2
  MaxCalls = 2
INVARIANTS RedirectBudget CookiesCarried AnswerWhole SocketsLeft RequestOnOwnSocket
PROPERTIES ImplementsExchange RequestEnds
