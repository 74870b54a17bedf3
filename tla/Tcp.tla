--------------------------------- MODULE Tcp ---------------------------------
(***************************************************************************)
(* src/net/socket.c and src/net/tcp.c: how an http_t gets a connection and *)
(* gives it back.  The connections of a process share one descriptor table *)
(* and reuse its numbers, while tcp->fd keeps the old number after a close *)
(* and tcp->ssl is overwritten by the next SSL_new.                        *)
(*                                                                         *)
(* TcpSpec drives the module as src/net/README.md asks for: connect,       *)
(* use only if that succeeded, close, then perhaps connect again.          *)
(* HttpClient and Speedtest drive the same actions the way the code does.  *)
(***************************************************************************)
EXTENDS Integers, FiniteSets

CONSTANTS Conn,   \* the http_t objects, each with its tcp_t
          TLS,    \* those with use_ssl
          Fd,     \* the descriptors the process may have open
          NoFd,   \* INVALID_SOCKET for a descriptor, NULL for an SSL object
          NoConn  \* owner of a descriptor that is not open

ASSUME TcpAssumption == /\ TLS \subseteq Conn
                        /\ IsFiniteSet(Fd)
                        /\ NoFd \notin Fd
                        /\ NoConn \notin Conn

VARIABLES owner,  \* kernel: which connection's socket() opened the descriptor
          mode,   \* kernel: "blocking", as a new socket is, or "nonblocking"
          fd,     \* tcp->fd
          ssl,    \* tcp->ssl: the descriptor its SSL object is attached to
          sock,   \* the local fd of socket_connect while it waits
          stage   \* how far http_connect is

tcpVars == <<owner, mode, fd, ssl, sock, stage>>

Stage == {"idle",      \* no connection: never made, given up, or closed
          "connect",   \* socket_connect waits in select
          "tls",       \* tcp_connect returned 0, tls_upgrade is next
          "handshake", \* in SSL_connect
          "tlswait",   \* SSL_connect wants more, tls_upgrade waits in select
          "up"}        \* http_connect returned 0

Free == {f \in Fd : owner[f] = NoConn}
Owned(c) == {f \in Fd : owner[f] = c}

TcpInit == /\ owner = [f \in Fd |-> NoConn]
           /\ mode = [f \in Fd |-> "blocking"]
           /\ fd = [c \in Conn |-> NoFd]
           /\ ssl = [c \in Conn |-> NoFd]
           /\ sock = [c \in Conn |-> NoFd]
           /\ stage = [c \in Conn |-> "idle"]

\* close(f): releases the number, whoever opened it; EBADF changes nothing.
Closed(f) == [g \in Fd |-> IF g = f THEN NoConn ELSE owner[g]]

------------------------------------------------------------------------------
(* socket_connect *)

\* domain2addr fails, which nobody looks at: socket_connect is given what the
\* stack had in ip_buf.  If that spells an address, the connect goes on as to
\* any other server (below); if not, it ends here.
Unresolved(c) ==
  /\ stage[c] = "idle"
  /\ UNCHANGED tcpVars

\* The address is not one, or socket() fails.
SocketFails(c) ==
  /\ stage[c] = "idle"
  /\ UNCHANGED tcpVars

\* connect() fails at once; the new socket is closed.
ConnectRefused(c, f) ==
  /\ stage[c] = "idle" /\ f \in Free
  /\ owner' = Closed(f)
  /\ UNCHANGED <<mode, fd, ssl, sock, stage>>

\* connect() is in progress on a nonblocking socket: wait in select.
ConnectStarts(c, f) ==
  /\ stage[c] = "idle" /\ f \in Free
  /\ owner' = [owner EXCEPT ![f] = c]
  /\ mode' = [mode EXCEPT ![f] = "nonblocking"]
  /\ sock' = [sock EXCEPT ![c] = f]
  /\ stage' = [stage EXCEPT ![c] = "connect"]
  /\ UNCHANGED <<fd, ssl>>

\* Mutant: set_blocking is forgotten
ConnectedNonblocking(c, f) ==
  /\ fd' = [fd EXCEPT ![c] = f]
  /\ mode' = [mode EXCEPT ![f] = "nonblocking"]
  /\ sock' = [sock EXCEPT ![c] = NoFd]
  /\ stage' = [stage EXCEPT ![c] = IF c \in TLS THEN "tls" ELSE "up"]
  /\ UNCHANGED ssl

\* socket_connect returns f, blocking again, and tcp_connect keeps it.
Connected(c, f) ==
  /\ fd' = [fd EXCEPT ![c] = f]
  /\ mode' = [mode EXCEPT ![f] = "blocking"]
  /\ sock' = [sock EXCEPT ![c] = NoFd]
  /\ stage' = [stage EXCEPT ![c] = IF c \in TLS THEN "tls" ELSE "up"]
  /\ UNCHANGED ssl

\* connect() succeeds at once.
ConnectedAtOnce(c, f) ==
  /\ stage[c] = "idle" /\ f \in Free
  /\ owner' = [owner EXCEPT ![f] = c]
  /\ Connected(c, f)

\* select reports the socket and SO_ERROR is 0.
SelectReady(c) ==
  /\ stage[c] = "connect"
  /\ Connected(c, sock[c])
  /\ UNCHANGED owner

\* Mutant: a time-out returns without closing the socket
SelectFails_NoClose(c) ==
  /\ stage[c] = "connect"
  /\ sock' = [sock EXCEPT ![c] = NoFd]
  /\ stage' = [stage EXCEPT ![c] = "idle"]
  /\ UNCHANGED <<owner, mode, fd, ssl>>

\* Mutant: select is called again after a time-out
SelectFails_Again(c) == stage[c] = "connect" /\ UNCHANGED tcpVars

\* select fails or times out, or SO_ERROR is set: the socket is closed.
SelectFails(c) ==
  /\ stage[c] = "connect"
  /\ owner' = Closed(sock[c])
  /\ mode' = [mode EXCEPT ![sock[c]] = "blocking"]
  /\ sock' = [sock EXCEPT ![c] = NoFd]
  /\ stage' = [stage EXCEPT ![c] = "idle"]
  /\ UNCHANGED <<fd, ssl>>

------------------------------------------------------------------------------
(* tls_upgrade *)

\* tls_disconnect and, in http_connect, tcp_close: the connection is given up.
GiveUp(c) ==
  /\ ssl' = [ssl EXCEPT ![c] = NoFd]
  /\ owner' = Closed(fd[c])
  /\ stage' = [stage EXCEPT ![c] = "idle"]
  /\ UNCHANGED <<mode, fd, sock>>

\* SSL_new overwrites tcp->ssl; SSL_set_fd attaches the socket.
TlsStarts(c) ==
  /\ stage[c] = "tls"
  /\ ssl' = [ssl EXCEPT ![c] = fd[c]]
  /\ stage' = [stage EXCEPT ![c] = "handshake"]
  /\ UNCHANGED <<owner, mode, fd, sock>>

\* SSL_new, SSL_set_fd or the SNI name fails.
TlsFails(c) == stage[c] = "tls" /\ GiveUp(c)

HandshakeDone(c) ==
  /\ stage[c] = "handshake"
  /\ stage' = [stage EXCEPT ![c] = "up"]
  /\ UNCHANGED <<owner, mode, fd, ssl, sock>>

\* SSL_ERROR_WANT_*: wait in select, at most 5 s, and try again.
HandshakeWants(c) ==
  /\ stage[c] = "handshake"
  /\ stage' = [stage EXCEPT ![c] = "tlswait"]
  /\ UNCHANGED <<owner, mode, fd, ssl, sock>>

HandshakeReady(c) ==
  /\ stage[c] = "tlswait"
  /\ stage' = [stage EXCEPT ![c] = "handshake"]
  /\ UNCHANGED <<owner, mode, fd, ssl, sock>>

\* SSL_connect fails, or the select times out or fails.
HandshakeFails(c) == stage[c] \in {"handshake", "tlswait"} /\ GiveUp(c)

------------------------------------------------------------------------------

\* Mutant: the SSL object is left in place
tcp_close_KeepsSsl(c) ==
  /\ owner' = Closed(fd[c])
  /\ stage' = [stage EXCEPT ![c] = "idle"]
  /\ UNCHANGED <<mode, fd, ssl, sock>>

\* Frees the SSL object and closes whatever tcp->fd numbers; fd keeps it.
tcp_close(c) ==
  /\ ssl' = [ssl EXCEPT ![c] = NoFd]
  /\ owner' = Closed(fd[c])
  /\ stage' = [stage EXCEPT ![c] = "idle"]
  /\ UNCHANGED <<mode, fd, sock>>

\* http_free (tls_cleanup) and http_init of the same object for a new use.
Renew(c) ==
  /\ stage[c] = "idle"
  /\ ssl' = [ssl EXCEPT ![c] = NoFd]
  /\ fd' = [fd EXCEPT ![c] = NoFd]
  /\ UNCHANGED <<owner, mode, sock, stage>>

\* One step of http_connect; it has returned 0 once stage is "up", and -1
\* once it is "idle" again.
Connecting(c) ==
  \/ Unresolved(c) \/ SocketFails(c)
  \/ \E f \in Fd : \/ ConnectRefused(c, f)
                   \/ ConnectStarts(c, f)
                   \/ ConnectedAtOnce(c, f)
  \/ SelectReady(c) \/ SelectFails(c)
  \/ TlsStarts(c) \/ TlsFails(c)
  \/ HandshakeDone(c) \/ HandshakeWants(c) \/ HandshakeReady(c)
  \/ HandshakeFails(c)

\* Mutant: http_close also after a failed http_connect
Disconnect_Always(c) == stage[c] \in {"idle", "up"} /\ tcp_close(c)

Disconnect(c) == stage[c] = "up" /\ tcp_close(c)

TcpNext == \E c \in Conn : Connecting(c) \/ Disconnect(c) \/ Renew(c)

TcpSpec == TcpInit /\ [][TcpNext]_tcpVars

------------------------------------------------------------------------------

\* Types; TLS stages belong to TLS connections, and the local socket exists
\* exactly while socket_connect waits.
TcpTypeOK ==
  /\ owner \in [Fd -> Conn \cup {NoConn}]
  /\ mode \in [Fd -> {"blocking", "nonblocking"}]
  /\ fd \in [Conn -> Fd \cup {NoFd}]
  /\ ssl \in [Conn -> Fd \cup {NoFd}]
  /\ sock \in [Conn -> Fd \cup {NoFd}]
  /\ stage \in [Conn -> Stage]
  /\ \A c \in Conn :
       /\ stage[c] \in {"tls", "handshake", "tlswait"} => c \in TLS
       /\ sock[c] # NoFd <=> stage[c] = "connect"

\* The socket a connection works on.
Current(c) == IF stage[c] = "connect" THEN sock[c] ELSE fd[c]

\* Whenever a connection reads, writes, shakes hands or closes, the number it
\* uses is that of a socket it opened itself: though numbers are reused and
\* tcp->fd stays stale after a close, two connections never meet on one.
OwnSocket == \A c \in Conn :
  stage[c] # "idle" => Current(c) \in Fd /\ owner[Current(c)] = c

\* No descriptor is lost: what is open is the current socket of its owner, so
\* each failure path of socket_connect and tls_upgrade closes what it opened.
NoneLost == \A f \in Fd : owner[f] # NoConn =>
  stage[owner[f]] # "idle" /\ Current(owner[f]) = f

\* SSL objects: SSL_new never overwrites one that is alive, none survives its
\* connection, and the one in use is attached to the connection's own socket.
SslFollowsSocket == \A c \in Conn :
  ssl[c] = IF c \in TLS /\ stage[c] \in {"handshake", "tlswait", "up"}
           THEN fd[c] ELSE NoFd

\* What http_connect hands out blocks again, on both paths of socket_connect:
\* every read and write that follows relies on that.
BlockingInUse == \A c \in Conn :
  stage[c] \in {"tls", "handshake", "tlswait", "up"} => mode[fd[c]] = "blocking"

\* Both together: what a connection uses is its own socket, and the same socket
\* that was set to block and not one that another connection is waiting on.
SocketUsable == OwnSocket /\ BlockingInUse
=============================================================================
