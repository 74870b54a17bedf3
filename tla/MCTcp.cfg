SPECIFICATION TcpSpec
CONSTANTS
  c1 = c1
  c2 = c2
  c3 = c3
  f1 = f1
  f2 = f2
  Conn <- MCConn
  TLS <- MCTLS
  Fd <- MCFd
  NoFd = NoFd
  NoConn = NoConn
INVARIANTS SocketUsable NoneLost SslFollowsSocket
SYMMETRY MCSymmetry
