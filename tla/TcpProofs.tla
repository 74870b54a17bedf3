------------------------------ MODULE TcpProofs ------------------------------
(***************************************************************************)
(* Proofs about Tcp, for any set of connections and any finite set of      *)
(* descriptors.  The inductive invariant is the conjunction of the types,  *)
(* OwnSocket, NoneLost, SslFollowsSocket and BlockingInUse: that a close   *)
(* hits only the connection's own socket needs OwnSocket, and that no      *)
(* descriptor is lost then needs both.                                     *)
(***************************************************************************)
EXTENDS Tcp, TLAPS, WellFoundedInduction

------------------------------------------------------------------------------
(* for the modules that extend this one *)

\* A nonempty set of naturals has a least element.
LEMMA LeastNumber ==
  ASSUME NEW S \in SUBSET Nat, S # {}
  PROVE  \E k \in S : \A j \in S : k <= j
<1> DEFINE R == OpToRel(<, Nat)
<1>1. IsWellFoundedOn(R, Nat)
  BY NatLessThanWellFounded
<1>2. \A x, y \in Nat : x < y => <<x, y>> \in R
  BY DEF OpToRel
<1> HIDE DEF R
<1>3. PICK k \in S : \A j \in S : ~ (<<j, k>> \in R)
  BY <1>1, WFMin
<1>4. ASSUME NEW j \in S PROVE k <= j
  <2>1. j \in Nat /\ k \in Nat /\ ~(<<j, k>> \in R)
    BY <1>3
  <2>2. ~(j < k)
    BY <1>2, <2>1
  <2> QED
    BY <2>1, <2>2
<1> QED
  BY <1>4

------------------------------------------------------------------------------
(* connections *)

IInv == /\ TcpTypeOK /\ OwnSocket /\ NoneLost
        /\ SslFollowsSocket /\ BlockingInUse

\* The invariant holds before the first connection.
LEMMA InitIInv == TcpInit => IInv
  BY TcpAssumption
  DEF TcpInit, IInv, TcpTypeOK, OwnSocket, NoneLost, SslFollowsSocket,
      BlockingInUse, Stage

\* A step of http_connect keeps the types.
LEMMA ConnectingTypes ==
  ASSUME TcpTypeOK, NEW c \in Conn, Connecting(c)
  PROVE  TcpTypeOK'
<1> USE TcpAssumption DEF TcpTypeOK, Stage
<1>1. CASE Unresolved(c) \/ SocketFails(c)
  BY <1>1 DEF Unresolved, SocketFails, tcpVars
<1>2. ASSUME NEW f \in Fd, ConnectRefused(c, f) PROVE TcpTypeOK'
  BY <1>2 DEF ConnectRefused, Closed, Free
<1>3. ASSUME NEW f \in Fd, ConnectStarts(c, f) PROVE TcpTypeOK'
  BY <1>3 DEF ConnectStarts, Free
<1>4. ASSUME NEW f \in Fd, ConnectedAtOnce(c, f) PROVE TcpTypeOK'
  BY <1>4 DEF ConnectedAtOnce, Connected, Free
<1>5. CASE SelectReady(c)
  BY <1>5 DEF SelectReady, Connected
<1>6. CASE SelectFails(c)
  BY <1>6 DEF SelectFails, Closed
<1>7. CASE TlsStarts(c)
  BY <1>7 DEF TlsStarts
<1>8. CASE TlsFails(c)
  BY <1>8 DEF TlsFails, GiveUp, Closed
<1>9. CASE HandshakeDone(c) \/ HandshakeWants(c) \/ HandshakeReady(c)
  BY <1>9 DEF HandshakeDone, HandshakeWants, HandshakeReady
<1>10. CASE HandshakeFails(c)
  BY <1>10 DEF HandshakeFails, GiveUp, Closed
<1> QED
  BY <1>1, <1>2, <1>3, <1>4, <1>5, <1>6, <1>7, <1>8, <1>9, <1>10
  DEF Connecting

\* A step of http_connect keeps every connection on a socket of its own.
LEMMA ConnectingOwnSocket ==
  ASSUME TcpTypeOK, OwnSocket, NEW c \in Conn, Connecting(c)
  PROVE  OwnSocket'
<1> USE TcpAssumption DEF TcpTypeOK, OwnSocket, Current, Stage
<1>1. CASE Unresolved(c) \/ SocketFails(c)
  BY <1>1 DEF Unresolved, SocketFails, tcpVars
<1>2. ASSUME NEW f \in Fd, ConnectRefused(c, f) PROVE OwnSocket'
  BY <1>2 DEF ConnectRefused, Closed, Free
<1>3. ASSUME NEW f \in Fd, ConnectStarts(c, f) PROVE OwnSocket'
  BY <1>3 DEF ConnectStarts, Free
<1>4. ASSUME NEW f \in Fd, ConnectedAtOnce(c, f) PROVE OwnSocket'
  BY <1>4 DEF ConnectedAtOnce, Connected, Free
<1>5. CASE SelectReady(c)
  BY <1>5 DEF SelectReady, Connected
<1>6. CASE SelectFails(c)
  BY <1>6 DEF SelectFails, Closed
<1>7. CASE TlsStarts(c)
  BY <1>7 DEF TlsStarts
<1>8. CASE TlsFails(c)
  BY <1>8 DEF TlsFails, GiveUp, Closed
<1>9. CASE HandshakeDone(c) \/ HandshakeWants(c) \/ HandshakeReady(c)
  BY <1>9 DEF HandshakeDone, HandshakeWants, HandshakeReady
<1>10. CASE HandshakeFails(c)
  BY <1>10 DEF HandshakeFails, GiveUp, Closed
<1> QED
  BY <1>1, <1>2, <1>3, <1>4, <1>5, <1>6, <1>7, <1>8, <1>9, <1>10
  DEF Connecting

\* A step of http_connect loses no descriptor and no SSL object, and hands out
\* blocking sockets.
LEMMA ConnectingKeeps ==
  ASSUME IInv, NEW c \in Conn, Connecting(c)
  PROVE  NoneLost' /\ SslFollowsSocket' /\ BlockingInUse'
<1> DEFINE Goal == NoneLost /\ SslFollowsSocket /\ BlockingInUse
<1> USE TcpAssumption
    DEF IInv, TcpTypeOK, OwnSocket, NoneLost, SslFollowsSocket, BlockingInUse,
        Current, Stage
<1>1. CASE Unresolved(c) \/ SocketFails(c)
  BY <1>1 DEF Unresolved, SocketFails, tcpVars
<1>2. ASSUME NEW f \in Fd, ConnectRefused(c, f) PROVE Goal'
  BY <1>2 DEF ConnectRefused, Closed, Free
<1>3. ASSUME NEW f \in Fd, ConnectStarts(c, f) PROVE Goal'
  BY <1>3 DEF ConnectStarts, Free
<1>4. ASSUME NEW f \in Fd, ConnectedAtOnce(c, f) PROVE Goal'
  BY <1>4 DEF ConnectedAtOnce, Connected, Free
<1>5. CASE SelectReady(c)
  BY <1>5 DEF SelectReady, Connected
<1>6. CASE SelectFails(c)
  BY <1>6 DEF SelectFails, Closed
<1>7. CASE TlsStarts(c)
  BY <1>7 DEF TlsStarts
<1>8. CASE TlsFails(c)
  BY <1>8 DEF TlsFails, GiveUp, Closed
<1>9. CASE HandshakeDone(c) \/ HandshakeWants(c) \/ HandshakeReady(c)
  BY <1>9 DEF HandshakeDone, HandshakeWants, HandshakeReady
<1>10. CASE HandshakeFails(c)
  BY <1>10 DEF HandshakeFails, GiveUp, Closed
<1> QED
  BY <1>1, <1>2, <1>3, <1>4, <1>5, <1>6, <1>7, <1>8, <1>9, <1>10
  DEF Connecting

\* Every step keeps the invariant.
LEMMA StepIInv == IInv /\ [TcpNext]_tcpVars => IInv'
<1> SUFFICES ASSUME IInv, [TcpNext]_tcpVars PROVE IInv'
  OBVIOUS
<1> USE TcpAssumption
<1>1. CASE UNCHANGED tcpVars
  BY <1>1 DEF tcpVars, IInv, TcpTypeOK, OwnSocket, NoneLost, SslFollowsSocket,
              BlockingInUse, Current
<1>2. ASSUME NEW c \in Conn, Connecting(c) PROVE IInv'
  BY <1>2, ConnectingTypes, ConnectingOwnSocket, ConnectingKeeps DEF IInv
<1>3. ASSUME NEW c \in Conn, Disconnect(c) PROVE IInv'
  BY <1>3 DEF Disconnect, tcp_close, Closed, IInv, TcpTypeOK, OwnSocket,
              NoneLost, SslFollowsSocket, BlockingInUse, Current, Stage
<1>4. ASSUME NEW c \in Conn, Renew(c) PROVE IInv'
  BY <1>4 DEF Renew, IInv, TcpTypeOK, OwnSocket, NoneLost, SslFollowsSocket,
              BlockingInUse, Current, Stage
<1> QED
  BY <1>1, <1>2, <1>3, <1>4 DEF TcpNext

\* The whole invariant holds in every reachable state.
THEOREM TcpInvariant == TcpSpec => []IInv
  BY InitIInv, StepIInv, PTL DEF TcpSpec

\* Type correctness.
THEOREM TcpTypes == TcpSpec => []TcpTypeOK
  BY TcpInvariant, PTL DEF IInv

\* A connection in use works on a socket of its own that blocks, whatever
\* numbers the kernel reuses.
THEOREM TcpSocketUsable == TcpSpec => []SocketUsable
<1>1. IInv => SocketUsable
  BY DEF IInv, SocketUsable
<1> QED
  BY <1>1, TcpInvariant, PTL

\* No failure path of socket_connect or tls_upgrade loses a descriptor.
THEOREM TcpNoneLost == TcpSpec => []NoneLost
  BY TcpInvariant, PTL DEF IInv

\* An SSL object is alive exactly while its connection is, and is never
\* overwritten.
THEOREM TcpSsl == TcpSpec => []SslFollowsSocket
  BY TcpInvariant, PTL DEF IInv
=============================================================================
