---------------------------- MODULE DevicesProofs ----------------------------
(*****************************************************************************)
(* Proofs about HttpClient, for any set of http_t objects, any finite set    *)
(* of descriptors and any MAX_REDIRECTS, and about Devices, its caller, for  *)
(* any number of rows and lists.                                             *)
(*                                                                           *)
(* The inductive invariant HInv adds to the properties of HttpClient what    *)
(* they rest on: the connections' sockets (OwnSocket, SslInUse), what is     *)
(* known at each point of a request (Progress), that nothing the server set  *)
(* is missing from the jar (JarComplete), and how many sockets are left      *)
(* behind at each point (Counted).  Every step of cmd_devices is a step of   *)
(* HttpClient, so all of it holds there too; Session adds what the command   *)
(* has open at each of its own steps, and Parsed where the parser is in a    *)
(* list and what the rows before hold.                                       *)
(*****************************************************************************)
EXTENDS Devices, TcpProofs, FiniteSetTheorems

------------------------------------------------------------------------------
(* HttpClient *)

\* At each point of a request: which exchange status and body are from.
Progress == \A c \in Conn :
  /\ pc[c] \in {"body", "close"} => statusOf[c] = exchanges[c]
  /\ pc[c] = "close" => bodyOf[c] = exchanges[c]
  /\ pc[c] # "ready" => answer[c] = "none"

\* The jar holds every cookie the server set, and requests carry the jar.
JarComplete == \A c \in Jar :
  /\ jar[c] = got[c]
  /\ pc[c] = "head" => sent[c] = got[c]

\* The SSL object of a TLS connection in use is attached to its socket.
SslInUse == \A c \in Conn :
  /\ c \in TLS /\ stage[c] \in {"handshake", "tlswait", "up"} => ssl[c] = fd[c]
  /\ c \notin TLS => ssl[c] = NoFd

\* The descriptors an http_t opened and no longer works on.
Forgotten(c) == {f \in Owned(c) : stage[c] = "idle" \/ f # Current(c)}

\* While a call runs it has left behind one socket per redirect; when it ends
\* with NULL, perhaps the one it worked on as well.
Counted == \A c \in Conn :
  LET n == Cardinality(Forgotten(c)) IN
  /\ pc[c] \notin {"ready", "crashed"} \/ answer[c] = "body" =>
       n = held[c] + redirects[c]
  /\ pc[c] = "ready" /\ answer[c] = "none" => n = held[c]
  /\ pc[c] = "ready" /\ answer[c] = "null" =>
       /\ n \in held[c] + redirects[c] .. held[c] + redirects[c] + 1
       /\ n <= held[c] + MaxRedirects + 1

HInv == /\ TypeOK /\ RedirectBudget
        /\ Progress /\ AnswerWhole
        /\ JarComplete
        /\ OwnSocket /\ SslInUse
        /\ Counted

------------------------------------------------------------------------------

\* The sets of descriptors are finite, so their sizes are numbers.
LEMMA OwnedFinite ==
  \A c \in Conn : /\ IsFiniteSet(Owned(c)) /\ Cardinality(Owned(c)) \in Nat
                  /\ IsFiniteSet(Forgotten(c))
                  /\ Cardinality(Forgotten(c)) \in Nat
<1> SUFFICES ASSUME NEW c \in Conn
             PROVE  /\ IsFiniteSet(Owned(c)) /\ Cardinality(Owned(c)) \in Nat
                    /\ IsFiniteSet(Forgotten(c))
                    /\ Cardinality(Forgotten(c)) \in Nat
  OBVIOUS
<1>1. IsFiniteSet(Owned(c))
  <2>1. Owned(c) \subseteq Fd
    BY DEF Owned
  <2> QED
    BY <2>1, TcpAssumption, FS_Subset
<1>2. IsFiniteSet(Forgotten(c))
  <2>1. Forgotten(c) \subseteq Owned(c)
    BY DEF Forgotten
  <2> QED
    BY <1>1, <2>1, FS_Subset
<1> QED
  BY <1>1, <1>2, FS_CardinalityType

\* The invariant holds initially.
LEMMA InitHInv == Init => HInv
<1> SUFFICES ASSUME Init PROVE HInv
  OBVIOUS
<1> USE TcpAssumption, HttpAssumption DEF Init, TcpInit
<1>1. TypeOK
  BY DEF TypeOK, TcpTypeOK, RequestTypes, DataTypes, Phase, PC, Stage
<1>2. RedirectBudget /\ Progress /\ AnswerWhole /\ JarComplete
  BY DEF RedirectBudget, Progress, AnswerWhole, JarComplete
<1>3. OwnSocket /\ SslInUse
  BY DEF OwnSocket, SslInUse
<1>4. Counted
  <2>1. \A c \in Conn : Forgotten(c) = {}
    BY DEF Forgotten, Owned
  <2> QED
    BY <2>1, FS_EmptySet DEF Counted
<1> QED
  BY <1>1, <1>2, <1>3, <1>4 DEF HInv

\* A step of http_connect touches its own connection only.
LEMMA ConnectingFrame ==
  ASSUME TcpTypeOK, NEW c \in Conn, Connecting(c)
  PROVE  /\ \A d \in Conn \ {c} : /\ stage'[d] = stage[d] /\ fd'[d] = fd[d]
                                  /\ ssl'[d] = ssl[d] /\ sock'[d] = sock[d]
         /\ stage'[c] \in Stage
<1> USE TcpAssumption DEF TcpTypeOK, Stage
<1> DEFINE Frame == /\ \A d \in Conn \ {c} :
                         /\ stage'[d] = stage[d] /\ fd'[d] = fd[d]
                         /\ ssl'[d] = ssl[d] /\ sock'[d] = sock[d]
                    /\ stage'[c] \in Stage
<1> SUFFICES Frame
  OBVIOUS
<1>1. CASE Unresolved(c) \/ SocketFails(c)
  BY <1>1 DEF Unresolved, SocketFails, tcpVars
<1>2. CASE \E f \in Fd : ConnectRefused(c, f) \/ ConnectStarts(c, f)
                         \/ ConnectedAtOnce(c, f)
  BY <1>2 DEF ConnectRefused, ConnectStarts, ConnectedAtOnce, Connected
<1>3. CASE SelectReady(c) \/ SelectFails(c)
  BY <1>3 DEF SelectReady, SelectFails, Connected
<1>4. CASE TlsStarts(c) \/ TlsFails(c) \/ HandshakeFails(c)
  BY <1>4 DEF TlsStarts, TlsFails, HandshakeFails, GiveUp
<1>5. CASE HandshakeDone(c) \/ HandshakeWants(c) \/ HandshakeReady(c)
  BY <1>5 DEF HandshakeDone, HandshakeWants, HandshakeReady
<1> QED
  BY <1>1, <1>2, <1>3, <1>4, <1>5 DEF Connecting

\* What a response may set is a sequence of cookies.
LEMMA ResponseCookies ==
  ASSUME NEW r \in Response
  PROVE  r.cookies \in Seq(Cookie)
<1>1. r.cookies = <<>> \/ \E k \in Cookie : r.cookies = <<k>>
  BY DEF Response
<1>2. ASSUME NEW k \in Cookie PROVE <<k>> \in Seq(Cookie)
  OBVIOUS
<1>3. <<>> \in Seq(Cookie)
  OBVIOUS
<1> QED
  BY <1>1, <1>2, <1>3

\* The types of the connections survive every step.
LEMMA StepTcpTypes ==
  ASSUME TypeOK, [Next]_vars
  PROVE  TcpTypeOK'
<1> USE DEF TypeOK
<1>1. CASE UNCHANGED vars
  BY <1>1, TcpAssumption DEF vars, tcpVars, TcpTypeOK, Stage
<1>2. ASSUME NEW c \in Conn, http_request(c) PROVE TcpTypeOK'
  BY <1>2, TcpAssumption
  DEF http_request, RedirectsAtCall, dataVars, tcpVars, TcpTypeOK, Stage
<1>3. ASSUME NEW c \in Conn, http_connect(c) PROVE TcpTypeOK'
  BY <1>3, ConnectingTypes DEF http_connect
<1>4. ASSUME NEW c \in Conn, SendOk(c) PROVE TcpTypeOK'
  BY <1>4, TcpAssumption DEF SendOk, GoTo, tcpVars, TcpTypeOK, Stage
<1>5. ASSUME NEW c \in Conn, SendFails(c) PROVE TcpTypeOK'
  BY <1>5, TcpAssumption
  DEF SendFails, Abandon, Return, dataVars, Phase, TcpTypeOK, Stage
<1>6. ASSUME NEW c \in Conn, NoHeaders(c) PROVE TcpTypeOK'
  BY <1>6, TcpAssumption
  DEF NoHeaders, Abandon, Return, dataVars, Phase, TcpTypeOK, Stage
<1>7. ASSUME NEW c \in Conn, NEW r \in Response, Redirect(c, r)
      PROVE  TcpTypeOK'
  BY <1>7, TcpAssumption
  DEF Redirect, MaxReached, Abandon, GoTo, Return, Phase, TcpTypeOK, Stage
<1>8. ASSUME NEW c \in Conn, NEW r \in Response, FinalHeaders(c, r)
      PROVE  TcpTypeOK'
  BY <1>8, TcpAssumption
  DEF FinalHeaders, ParseHeaders, GoTo, tcpVars, TcpTypeOK, Stage
<1>9. ASSUME NEW c \in Conn, BodyOk(c) PROVE TcpTypeOK'
  BY <1>9, TcpAssumption DEF BodyOk, GoTo, tcpVars, TcpTypeOK, Stage
<1>10. ASSUME NEW c \in Conn, BodyFails(c) PROVE TcpTypeOK'
  BY <1>10, TcpAssumption
  DEF BodyFails, Abandon, Return, Phase, TcpTypeOK, Stage
<1>11. ASSUME NEW c \in Conn, http_close(c) PROVE TcpTypeOK'
  BY <1>11, TcpAssumption
  DEF http_close, tcp_close, Return, dataVars, Closed, Phase, TcpTypeOK, Stage
<1>12. ASSUME NEW c \in Conn, NEW on \in BOOLEAN, http_set_redirect(c, on)
      PROVE  TcpTypeOK'
  BY <1>12, TcpAssumption
  DEF http_set_redirect, tcpVars, requestVars, TcpTypeOK, Stage
<1>13. ASSUME NEW c \in Conn, NEW on \in BOOLEAN, http_renew(c, on)
      PROVE  TcpTypeOK'
  BY <1>13, TcpAssumption DEF http_renew, Renew, TcpTypeOK, Stage
<1>14. ASSUME NEW c \in Conn, HeadersCrash(c) PROVE TcpTypeOK'
  BY <1>14, TcpAssumption
  DEF HeadersCrash, Abandon, Crash, GoTo, dataVars, Phase, TcpTypeOK, Stage
<1> QED
  BY <1>1, <1>2, <1>3, <1>4, <1>5, <1>6, <1>7, <1>8, <1>9, <1>10, <1>11,
     <1>12, <1>13, <1>14
  DEF Next, Step, Gone

\* The types of a request's control survive every step.
LEMMA StepRequestTypes ==
  ASSUME TypeOK, RedirectBudget, [Next]_vars
  PROVE  RequestTypes'
<1> USE DEF TypeOK
<1>1. CASE UNCHANGED vars
  BY <1>1 DEF vars, tcpVars, RequestTypes, PC
<1>2. ASSUME NEW c \in Conn, http_request(c) PROVE RequestTypes'
  BY <1>2, HttpAssumption, OwnedFinite
  DEF http_request, RedirectsAtCall, dataVars, tcpVars, RequestTypes, PC
<1>3. ASSUME NEW c \in Conn, http_connect(c) PROVE RequestTypes'
  BY <1>3 DEF http_connect, GoTo, Return, dataVars, RequestTypes, PC
<1>4. ASSUME NEW c \in Conn, SendOk(c) PROVE RequestTypes'
  BY <1>4, HttpAssumption
  DEF SendOk, GoTo, tcpVars, RedirectBudget, RequestTypes, PC
<1>5. ASSUME NEW c \in Conn, SendFails(c) PROVE RequestTypes'
  BY <1>5 DEF SendFails, Abandon, Return, dataVars, RequestTypes, PC
<1>6. ASSUME NEW c \in Conn, NoHeaders(c) PROVE RequestTypes'
  BY <1>6 DEF NoHeaders, Abandon, Return, dataVars, RequestTypes, PC
<1>7. ASSUME NEW c \in Conn, NEW r \in Response, Redirect(c, r)
      PROVE  RequestTypes'
  BY <1>7, HttpAssumption
  DEF Redirect, MaxReached, Abandon, GoTo, Return, RedirectBudget,
      RequestTypes, PC
<1>8. ASSUME NEW c \in Conn, NEW r \in Response, FinalHeaders(c, r)
      PROVE  RequestTypes'
  BY <1>8 DEF FinalHeaders, ParseHeaders, GoTo, tcpVars, RequestTypes, PC
<1>9. ASSUME NEW c \in Conn, BodyOk(c) PROVE RequestTypes'
  BY <1>9 DEF BodyOk, GoTo, tcpVars, RequestTypes, PC
<1>10. ASSUME NEW c \in Conn, BodyFails(c) PROVE RequestTypes'
  BY <1>10 DEF BodyFails, Abandon, Return, RequestTypes, PC
<1>11. ASSUME NEW c \in Conn, http_close(c) PROVE RequestTypes'
  BY <1>11 DEF http_close, tcp_close, Return, dataVars, RequestTypes, PC
<1>12. ASSUME NEW c \in Conn, NEW on \in BOOLEAN, http_set_redirect(c, on)
      PROVE  RequestTypes'
  BY <1>12 DEF http_set_redirect, tcpVars, requestVars, RequestTypes, PC
<1>13. ASSUME NEW c \in Conn, NEW on \in BOOLEAN, http_renew(c, on)
      PROVE  RequestTypes'
  BY <1>13, HttpAssumption, OwnedFinite
  DEF http_renew, Renew, RequestTypes, PC
<1>14. ASSUME NEW c \in Conn, HeadersCrash(c) PROVE RequestTypes'
  BY <1>14 DEF HeadersCrash, Abandon, Crash, GoTo, dataVars, RequestTypes, PC
<1> QED
  BY <1>1, <1>2, <1>3, <1>4, <1>5, <1>6, <1>7, <1>8, <1>9, <1>10, <1>11,
     <1>12, <1>13, <1>14
  DEF Next, Step, Gone

\* The types of a request's data survive every step.
LEMMA StepDataTypes ==
  ASSUME TypeOK, [Next]_vars
  PROVE  DataTypes'
<1> USE DEF TypeOK
<1>1. CASE UNCHANGED vars
  BY <1>1 DEF vars, tcpVars, DataTypes
<1>2. ASSUME NEW c \in Conn, http_request(c) PROVE DataTypes'
  BY <1>2 DEF http_request, RedirectsAtCall, dataVars, tcpVars, DataTypes
<1>3. ASSUME NEW c \in Conn, http_connect(c) PROVE DataTypes'
  BY <1>3 DEF http_connect, GoTo, Return, dataVars, DataTypes
<1>4. ASSUME NEW c \in Conn, SendOk(c) PROVE DataTypes'
  BY <1>4 DEF SendOk, GoTo, tcpVars, StoredCookies, RequestTypes, DataTypes
<1>5. ASSUME NEW c \in Conn, SendFails(c) PROVE DataTypes'
  BY <1>5 DEF SendFails, Abandon, Return, dataVars, DataTypes
<1>6. ASSUME NEW c \in Conn, NoHeaders(c) PROVE DataTypes'
  BY <1>6 DEF NoHeaders, Abandon, Return, dataVars, DataTypes
<1>7. ASSUME NEW c \in Conn, NEW r \in Response, Redirect(c, r)
      PROVE  DataTypes'
  BY <1>7, ResponseCookies
  DEF Redirect, ParseHeaders, StoredCookies, RequestTypes, DataTypes
<1>8. ASSUME NEW c \in Conn, NEW r \in Response, FinalHeaders(c, r)
      PROVE  DataTypes'
  BY <1>8, ResponseCookies
  DEF FinalHeaders, ParseHeaders, StoredCookies, RequestTypes, DataTypes
<1>9. ASSUME NEW c \in Conn, BodyOk(c) PROVE DataTypes'
  BY <1>9 DEF BodyOk, GoTo, tcpVars, RequestTypes, DataTypes
<1>10. ASSUME NEW c \in Conn, BodyFails(c) PROVE DataTypes'
  BY <1>10 DEF BodyFails, Abandon, Return, RequestTypes, DataTypes
<1>11. ASSUME NEW c \in Conn, http_close(c) PROVE DataTypes'
  BY <1>11 DEF http_close, tcp_close, Return, dataVars, DataTypes
<1>12. ASSUME NEW c \in Conn, NEW on \in BOOLEAN, http_set_redirect(c, on)
      PROVE  DataTypes'
  BY <1>12 DEF http_set_redirect, tcpVars, requestVars, DataTypes
<1>13. ASSUME NEW c \in Conn, NEW on \in BOOLEAN, http_renew(c, on)
      PROVE  DataTypes'
  BY <1>13, HttpAssumption DEF http_renew, DataTypes
<1>14. ASSUME NEW c \in Conn, HeadersCrash(c) PROVE DataTypes'
  BY <1>14 DEF HeadersCrash, Abandon, Crash, GoTo, dataVars, DataTypes
<1> QED
  BY <1>1, <1>2, <1>3, <1>4, <1>5, <1>6, <1>7, <1>8, <1>9, <1>10, <1>11,
     <1>12, <1>13, <1>14
  DEF Next, Step, Gone

\* http_request_call and http_connect stay in agreement.
LEMMA StepPhase ==
  ASSUME TypeOK, [Next]_vars
  PROVE  Phase'
<1> USE DEF TypeOK
<1>1. CASE UNCHANGED vars
  BY <1>1 DEF vars, tcpVars, Phase, TcpTypeOK, RequestTypes, PC, Stage
<1>2. ASSUME NEW c \in Conn, http_request(c) PROVE Phase'
  BY <1>2
  DEF http_request, RedirectsAtCall, dataVars, tcpVars, Phase, TcpTypeOK,
      RequestTypes, PC, Stage
<1>3. ASSUME NEW c \in Conn, http_connect(c) PROVE Phase'
  BY <1>3, ConnectingFrame
  DEF http_connect, GoTo, Return, Phase, TcpTypeOK, RequestTypes, PC, Stage
<1>4. ASSUME NEW c \in Conn, SendOk(c) PROVE Phase'
  BY <1>4 DEF SendOk, GoTo, tcpVars, Phase, TcpTypeOK, RequestTypes, PC, Stage
<1>5. ASSUME NEW c \in Conn, SendFails(c) PROVE Phase'
  BY <1>5
  DEF SendFails, Abandon, Return, dataVars, Phase, TcpTypeOK, RequestTypes,
      PC, Stage
<1>6. ASSUME NEW c \in Conn, NoHeaders(c) PROVE Phase'
  BY <1>6
  DEF NoHeaders, Abandon, Return, dataVars, Phase, TcpTypeOK, RequestTypes,
      PC, Stage
<1>7. ASSUME NEW c \in Conn, NEW r \in Response, Redirect(c, r) PROVE Phase'
  BY <1>7
  DEF Redirect, MaxReached, Abandon, GoTo, Return, Phase, TcpTypeOK,
      RequestTypes, PC, Stage
<1>8. ASSUME NEW c \in Conn, NEW r \in Response, FinalHeaders(c, r)
      PROVE  Phase'
  BY <1>8
  DEF FinalHeaders, GoTo, tcpVars, Phase, TcpTypeOK, RequestTypes, PC, Stage
<1>9. ASSUME NEW c \in Conn, BodyOk(c) PROVE Phase'
  BY <1>9 DEF BodyOk, GoTo, tcpVars, Phase, TcpTypeOK, RequestTypes, PC, Stage
<1>10. ASSUME NEW c \in Conn, BodyFails(c) PROVE Phase'
  BY <1>10
  DEF BodyFails, Abandon, Return, Phase, TcpTypeOK, RequestTypes, PC, Stage
<1>11. ASSUME NEW c \in Conn, http_close(c) PROVE Phase'
  BY <1>11
  DEF http_close, tcp_close, Return, dataVars, Phase, TcpTypeOK, RequestTypes,
      PC, Stage
<1>12. ASSUME NEW c \in Conn, NEW on \in BOOLEAN, http_set_redirect(c, on)
      PROVE  Phase'
  BY <1>12
  DEF http_set_redirect, tcpVars, requestVars, Phase, TcpTypeOK, RequestTypes,
      PC, Stage
<1>13. ASSUME NEW c \in Conn, NEW on \in BOOLEAN, http_renew(c, on)
      PROVE  Phase'
  BY <1>13 DEF http_renew, Renew, Phase, TcpTypeOK, RequestTypes, PC, Stage
<1>14. ASSUME NEW c \in Conn, HeadersCrash(c) PROVE Phase'
  BY <1>14
  DEF HeadersCrash, Abandon, Crash, GoTo, dataVars, Phase, TcpTypeOK, RequestTypes,
      PC, Stage
<1> QED
  BY <1>1, <1>2, <1>3, <1>4, <1>5, <1>6, <1>7, <1>8, <1>9, <1>10, <1>11,
     <1>12, <1>13, <1>14
  DEF Next, Step, Gone

\* Every call starts with the whole budget and keeps its count right.
LEMMA StepBudget ==
  ASSUME TypeOK, RedirectBudget, [Next]_vars
  PROVE  RedirectBudget'
<1> USE DEF TypeOK
<1>1. CASE UNCHANGED vars
  BY <1>1, HttpAssumption DEF vars, tcpVars, RedirectBudget, RequestTypes
<1>2. ASSUME NEW c \in Conn, http_request(c)
      PROVE  RedirectBudget'
  BY <1>2, HttpAssumption
  DEF http_request, RedirectsAtCall, dataVars, tcpVars, RedirectBudget,
      RequestTypes
<1>3. ASSUME NEW c \in Conn, http_connect(c)
      PROVE  RedirectBudget'
  BY <1>3, HttpAssumption
  DEF http_connect, GoTo, Return, dataVars, RedirectBudget, RequestTypes
<1>4. ASSUME NEW c \in Conn, SendOk(c)
      PROVE  RedirectBudget'
  BY <1>4, HttpAssumption
  DEF SendOk, GoTo, tcpVars, RedirectBudget, RequestTypes
<1>5. ASSUME NEW c \in Conn, SendFails(c)
      PROVE  RedirectBudget'
  BY <1>5, HttpAssumption
  DEF SendFails, Abandon, Return, dataVars, RedirectBudget, RequestTypes
<1>6. ASSUME NEW c \in Conn, NoHeaders(c)
      PROVE  RedirectBudget'
  BY <1>6, HttpAssumption
  DEF NoHeaders, Abandon, Return, dataVars, RedirectBudget, RequestTypes
<1>7. ASSUME NEW c \in Conn, NEW r \in Response, Redirect(c, r)
      PROVE  RedirectBudget'
  BY <1>7, HttpAssumption
  DEF Redirect, MaxReached, Abandon, GoTo, Return, RedirectBudget,
      RequestTypes
<1>8. ASSUME NEW c \in Conn, NEW r \in Response, FinalHeaders(c, r)
      PROVE  RedirectBudget'
  BY <1>8, HttpAssumption
  DEF FinalHeaders, GoTo, tcpVars, RedirectBudget, RequestTypes
<1>9. ASSUME NEW c \in Conn, BodyOk(c)
      PROVE  RedirectBudget'
  BY <1>9, HttpAssumption
  DEF BodyOk, GoTo, tcpVars, RedirectBudget, RequestTypes
<1>10. ASSUME NEW c \in Conn, BodyFails(c)
      PROVE  RedirectBudget'
  BY <1>10, HttpAssumption
  DEF BodyFails, Abandon, Return, RedirectBudget, RequestTypes
<1>11. ASSUME NEW c \in Conn, http_close(c)
      PROVE  RedirectBudget'
  BY <1>11, HttpAssumption
  DEF http_close, tcp_close, Return, dataVars, RedirectBudget, RequestTypes
<1>12. ASSUME NEW c \in Conn, NEW on \in BOOLEAN, http_set_redirect(c, on)
      PROVE  RedirectBudget'
  BY <1>12, HttpAssumption
  DEF http_set_redirect, tcpVars, requestVars, RedirectBudget, RequestTypes
<1>13. ASSUME NEW c \in Conn, NEW on \in BOOLEAN, http_renew(c, on)
      PROVE  RedirectBudget'
  BY <1>13, HttpAssumption DEF http_renew, Renew, RedirectBudget, RequestTypes
<1>14. ASSUME NEW c \in Conn, HeadersCrash(c)
      PROVE  RedirectBudget'
  BY <1>14, HttpAssumption
  DEF HeadersCrash, Abandon, Crash, GoTo, dataVars, RedirectBudget, RequestTypes
<1> QED
  BY <1>1, <1>2, <1>3, <1>4, <1>5, <1>6, <1>7, <1>8, <1>9, <1>10, <1>11,
     <1>12, <1>13, <1>14
  DEF Next, Step, Gone

\* Status and body follow the exchange.
LEMMA StepProgress ==
  ASSUME TypeOK, Progress, [Next]_vars
  PROVE  Progress'
<1> USE DEF TypeOK
<1>1. CASE UNCHANGED vars
  BY <1>1 DEF vars, tcpVars, Progress, RequestTypes, DataTypes
<1>2. ASSUME NEW c \in Conn, http_request(c) PROVE Progress'
  BY <1>2
  DEF http_request, RedirectsAtCall, dataVars, tcpVars, Progress,
      RequestTypes, DataTypes
<1>3. ASSUME NEW c \in Conn, http_connect(c) PROVE Progress'
  BY <1>3
  DEF http_connect, GoTo, Return, dataVars, Progress, RequestTypes, DataTypes
<1>4. ASSUME NEW c \in Conn, SendOk(c) PROVE Progress'
  BY <1>4 DEF SendOk, GoTo, tcpVars, Progress, RequestTypes, DataTypes
<1>5. ASSUME NEW c \in Conn, SendFails(c) PROVE Progress'
  BY <1>5
  DEF SendFails, Abandon, Return, dataVars, Progress, RequestTypes, DataTypes
<1>6. ASSUME NEW c \in Conn, NoHeaders(c) PROVE Progress'
  BY <1>6
  DEF NoHeaders, Abandon, Return, dataVars, Progress, RequestTypes, DataTypes
<1>7. ASSUME NEW c \in Conn, NEW r \in Response, Redirect(c, r) PROVE Progress'
  BY <1>7
  DEF Redirect, ParseHeaders, Abandon, GoTo, Return, Progress, RequestTypes,
      DataTypes
<1>8. ASSUME NEW c \in Conn, NEW r \in Response, FinalHeaders(c, r)
      PROVE  Progress'
  BY <1>8
  DEF FinalHeaders, ParseHeaders, GoTo, tcpVars, Progress, RequestTypes,
      DataTypes
<1>9. ASSUME NEW c \in Conn, BodyOk(c) PROVE Progress'
  BY <1>9 DEF BodyOk, GoTo, tcpVars, Progress, RequestTypes, DataTypes
<1>10. ASSUME NEW c \in Conn, BodyFails(c) PROVE Progress'
  BY <1>10 DEF BodyFails, Abandon, Return, Progress, RequestTypes, DataTypes
<1>11. ASSUME NEW c \in Conn, http_close(c) PROVE Progress'
  BY <1>11
  DEF http_close, tcp_close, Return, dataVars, Progress, RequestTypes,
      DataTypes
<1>12. ASSUME NEW c \in Conn, NEW on \in BOOLEAN, http_set_redirect(c, on)
      PROVE  Progress'
  BY <1>12
  DEF http_set_redirect, tcpVars, requestVars, Progress, RequestTypes,
      DataTypes
<1>13. ASSUME NEW c \in Conn, NEW on \in BOOLEAN, http_renew(c, on)
      PROVE  Progress'
  BY <1>13 DEF http_renew, Renew, Progress, RequestTypes, DataTypes
<1>14. ASSUME NEW c \in Conn, HeadersCrash(c) PROVE Progress'
  BY <1>14
  DEF HeadersCrash, Abandon, Crash, GoTo, dataVars, Progress, RequestTypes, DataTypes
<1> QED
  BY <1>1, <1>2, <1>3, <1>4, <1>5, <1>6, <1>7, <1>8, <1>9, <1>10, <1>11,
     <1>12, <1>13, <1>14
  DEF Next, Step, Gone

\* A body is returned with the status of its own exchange.
LEMMA StepAnswer ==
  ASSUME TypeOK, RedirectBudget, Progress, AnswerWhole, [Next]_vars
  PROVE  AnswerWhole'
<1> USE DEF TypeOK
<1>1. CASE UNCHANGED vars
  BY <1>1 DEF vars, tcpVars, AnswerWhole, Progress, RequestTypes, DataTypes
<1>2. ASSUME NEW c \in Conn, http_request(c) PROVE AnswerWhole'
  BY <1>2
  DEF http_request, RedirectsAtCall, dataVars, tcpVars, AnswerWhole, Progress,
      RequestTypes, DataTypes
<1>3. ASSUME NEW c \in Conn, http_connect(c) PROVE AnswerWhole'
  BY <1>3
  DEF http_connect, GoTo, Return, dataVars, AnswerWhole, Progress,
      RequestTypes, DataTypes
<1>4. ASSUME NEW c \in Conn, SendOk(c) PROVE AnswerWhole'
  BY <1>4
  DEF SendOk, GoTo, tcpVars, AnswerWhole, Progress, RequestTypes, DataTypes
<1>5. ASSUME NEW c \in Conn, SendFails(c) PROVE AnswerWhole'
  BY <1>5
  DEF SendFails, Abandon, Return, dataVars, AnswerWhole, Progress,
      RequestTypes, DataTypes
<1>6. ASSUME NEW c \in Conn, NoHeaders(c) PROVE AnswerWhole'
  BY <1>6
  DEF NoHeaders, Abandon, Return, dataVars, AnswerWhole, Progress,
      RequestTypes, DataTypes
<1>7. ASSUME NEW c \in Conn, NEW r \in Response, Redirect(c, r)
      PROVE  AnswerWhole'
  BY <1>7
  DEF Redirect, ParseHeaders, Abandon, GoTo, Return, AnswerWhole, Progress,
      RequestTypes, DataTypes
<1>8. ASSUME NEW c \in Conn, NEW r \in Response, FinalHeaders(c, r)
      PROVE  AnswerWhole'
  BY <1>8
  DEF FinalHeaders, ParseHeaders, GoTo, tcpVars, AnswerWhole, Progress,
      RequestTypes, DataTypes
<1>9. ASSUME NEW c \in Conn, BodyOk(c) PROVE AnswerWhole'
  BY <1>9
  DEF BodyOk, GoTo, tcpVars, AnswerWhole, Progress, RequestTypes, DataTypes
<1>10. ASSUME NEW c \in Conn, BodyFails(c) PROVE AnswerWhole'
  BY <1>10
  DEF BodyFails, Abandon, Return, AnswerWhole, Progress, RequestTypes,
      DataTypes
<1>11. ASSUME NEW c \in Conn, http_close(c) PROVE AnswerWhole'
  <2>1. exchanges[c] > 0
    BY <1>11, HttpAssumption DEF http_close, RedirectBudget, RequestTypes
  <2>2. statusOf[c] = exchanges[c] /\ bodyOf[c] = exchanges[c]
    BY <1>11 DEF http_close, Progress
  <2> QED
    BY <1>11, <2>1, <2>2
    DEF http_close, Return, dataVars, AnswerWhole, RequestTypes
<1>12. ASSUME NEW c \in Conn, NEW on \in BOOLEAN, http_set_redirect(c, on)
      PROVE  AnswerWhole'
  BY <1>12
  DEF http_set_redirect, tcpVars, requestVars, AnswerWhole, Progress,
      RequestTypes, DataTypes
<1>13. ASSUME NEW c \in Conn, NEW on \in BOOLEAN, http_renew(c, on)
      PROVE  AnswerWhole'
  BY <1>13
  DEF http_renew, Renew, AnswerWhole, Progress, RequestTypes, DataTypes
<1>14. ASSUME NEW c \in Conn, HeadersCrash(c) PROVE AnswerWhole'
  BY <1>14
  DEF HeadersCrash, Abandon, Crash, GoTo, dataVars, AnswerWhole, Progress,
      RequestTypes, DataTypes
<1> QED
  BY <1>1, <1>2, <1>3, <1>4, <1>5, <1>6, <1>7, <1>8, <1>9, <1>10, <1>11,
     <1>12, <1>13, <1>14
  DEF Next, Step, Gone

\* Cookies are stored before a redirect is followed.
LEMMA StepJar ==
  ASSUME TypeOK, JarComplete, [Next]_vars
  PROVE  JarComplete'
<1> USE DEF TypeOK
<1>1. CASE UNCHANGED vars
  BY <1>1, HttpAssumption
  DEF vars, tcpVars, JarComplete, RequestTypes, DataTypes
<1>2. ASSUME NEW c \in Conn, http_request(c) PROVE JarComplete'
  BY <1>2, HttpAssumption
  DEF http_request, RedirectsAtCall, dataVars, tcpVars, JarComplete,
      RequestTypes, DataTypes
<1>3. ASSUME NEW c \in Conn, http_connect(c) PROVE JarComplete'
  BY <1>3, HttpAssumption
  DEF http_connect, GoTo, Return, dataVars, JarComplete, RequestTypes,
      DataTypes
<1>4. ASSUME NEW c \in Conn, SendOk(c) PROVE JarComplete'
  BY <1>4, HttpAssumption
  DEF SendOk, GoTo, tcpVars, JarComplete, RequestTypes, DataTypes
<1>5. ASSUME NEW c \in Conn, SendFails(c) PROVE JarComplete'
  BY <1>5, HttpAssumption
  DEF SendFails, Abandon, Return, dataVars, JarComplete, RequestTypes,
      DataTypes
<1>6. ASSUME NEW c \in Conn, NoHeaders(c) PROVE JarComplete'
  BY <1>6, HttpAssumption
  DEF NoHeaders, Abandon, Return, dataVars, JarComplete, RequestTypes,
      DataTypes
<1>7. ASSUME NEW c \in Conn, NEW r \in Response, Redirect(c, r)
      PROVE  JarComplete'
  BY <1>7, HttpAssumption
  DEF Redirect, ParseHeaders, Abandon, GoTo, Return, StoredCookies,
      JarComplete, RequestTypes, DataTypes
<1>8. ASSUME NEW c \in Conn, NEW r \in Response, FinalHeaders(c, r)
      PROVE  JarComplete'
  BY <1>8, HttpAssumption
  DEF FinalHeaders, ParseHeaders, GoTo, tcpVars, StoredCookies, JarComplete,
      RequestTypes, DataTypes
<1>9. ASSUME NEW c \in Conn, BodyOk(c) PROVE JarComplete'
  BY <1>9, HttpAssumption
  DEF BodyOk, GoTo, tcpVars, JarComplete, RequestTypes, DataTypes
<1>10. ASSUME NEW c \in Conn, BodyFails(c) PROVE JarComplete'
  BY <1>10, HttpAssumption
  DEF BodyFails, Abandon, Return, JarComplete, RequestTypes, DataTypes
<1>11. ASSUME NEW c \in Conn, http_close(c) PROVE JarComplete'
  BY <1>11, HttpAssumption
  DEF http_close, tcp_close, Return, dataVars, JarComplete, RequestTypes,
      DataTypes
<1>12. ASSUME NEW c \in Conn, NEW on \in BOOLEAN, http_set_redirect(c, on)
      PROVE  JarComplete'
  BY <1>12, HttpAssumption
  DEF http_set_redirect, tcpVars, requestVars, JarComplete, RequestTypes,
      DataTypes
<1>13. ASSUME NEW c \in Conn, NEW on \in BOOLEAN, http_renew(c, on)
      PROVE  JarComplete'
  BY <1>13, HttpAssumption
  DEF http_renew, Renew, JarComplete, RequestTypes, DataTypes
<1>14. ASSUME NEW c \in Conn, HeadersCrash(c) PROVE JarComplete'
  BY <1>14, HttpAssumption
  DEF HeadersCrash, Abandon, Crash, GoTo, dataVars, JarComplete, RequestTypes,
      DataTypes
<1> QED
  BY <1>1, <1>2, <1>3, <1>4, <1>5, <1>6, <1>7, <1>8, <1>9, <1>10, <1>11,
     <1>12, <1>13, <1>14
  DEF Next, Step, Gone

\* A step of http_connect keeps the SSL objects where they belong.
LEMMA ConnectingSslInUse ==
  ASSUME TcpTypeOK, SslInUse, NEW c \in Conn, Connecting(c)
  PROVE  SslInUse'
<1> USE TcpAssumption DEF TcpTypeOK, SslInUse, Stage
<1>1. CASE Unresolved(c) \/ SocketFails(c)
  BY <1>1 DEF Unresolved, SocketFails, tcpVars
<1>2. CASE \E f \in Fd : ConnectRefused(c, f) \/ ConnectStarts(c, f)
                         \/ ConnectedAtOnce(c, f)
  BY <1>2 DEF ConnectRefused, ConnectStarts, ConnectedAtOnce, Connected
<1>3. CASE SelectReady(c) \/ SelectFails(c)
  BY <1>3 DEF SelectReady, SelectFails, Connected
<1>4. CASE TlsStarts(c) \/ TlsFails(c) \/ HandshakeFails(c)
  BY <1>4 DEF TlsStarts, TlsFails, HandshakeFails, GiveUp
<1>5. CASE HandshakeDone(c) \/ HandshakeWants(c) \/ HandshakeReady(c)
  BY <1>5 DEF HandshakeDone, HandshakeWants, HandshakeReady
<1> QED
  BY <1>1, <1>2, <1>3, <1>4, <1>5 DEF Connecting

\* Connections in use stay on sockets of their own.
LEMMA StepOwnSocket ==
  ASSUME TypeOK, OwnSocket, [Next]_vars
  PROVE  OwnSocket'
<1> USE DEF TypeOK
<1>1. CASE UNCHANGED vars
  BY <1>1, TcpAssumption DEF vars, tcpVars, OwnSocket, Current, TcpTypeOK
<1>2. ASSUME NEW c \in Conn, http_request(c) PROVE OwnSocket'
  BY <1>2, TcpAssumption
  DEF http_request, RedirectsAtCall, dataVars, tcpVars, OwnSocket, Current,
      TcpTypeOK
<1>3. ASSUME NEW c \in Conn, http_connect(c) PROVE OwnSocket'
  BY <1>3, ConnectingOwnSocket DEF http_connect
<1>4. ASSUME NEW c \in Conn, SendOk(c) PROVE OwnSocket'
  BY <1>4, TcpAssumption
  DEF SendOk, GoTo, tcpVars, OwnSocket, Current, TcpTypeOK
<1>5. ASSUME NEW c \in Conn, SendFails(c) PROVE OwnSocket'
  BY <1>5, TcpAssumption
  DEF SendFails, Abandon, Return, dataVars, OwnSocket, Current, TcpTypeOK
<1>6. ASSUME NEW c \in Conn, NoHeaders(c) PROVE OwnSocket'
  BY <1>6, TcpAssumption
  DEF NoHeaders, Abandon, Return, dataVars, OwnSocket, Current, TcpTypeOK
<1>7. ASSUME NEW c \in Conn, NEW r \in Response, Redirect(c, r)
      PROVE  OwnSocket'
  BY <1>7, TcpAssumption DEF Redirect, Abandon, OwnSocket, Current, TcpTypeOK
<1>8. ASSUME NEW c \in Conn, NEW r \in Response, FinalHeaders(c, r)
      PROVE  OwnSocket'
  BY <1>8, TcpAssumption
  DEF FinalHeaders, tcpVars, OwnSocket, Current, TcpTypeOK
<1>9. ASSUME NEW c \in Conn, BodyOk(c) PROVE OwnSocket'
  BY <1>9, TcpAssumption
  DEF BodyOk, GoTo, tcpVars, OwnSocket, Current, TcpTypeOK
<1>10. ASSUME NEW c \in Conn, BodyFails(c) PROVE OwnSocket'
  BY <1>10, TcpAssumption
  DEF BodyFails, Abandon, Return, OwnSocket, Current, TcpTypeOK
<1>11. ASSUME NEW c \in Conn, http_close(c) PROVE OwnSocket'
  BY <1>11, TcpAssumption
  DEF http_close, tcp_close, Closed, Phase, OwnSocket, Current, TcpTypeOK
<1>12. ASSUME NEW c \in Conn, NEW on \in BOOLEAN, http_set_redirect(c, on)
      PROVE  OwnSocket'
  BY <1>12, TcpAssumption
  DEF http_set_redirect, tcpVars, requestVars, OwnSocket, Current, TcpTypeOK
<1>13. ASSUME NEW c \in Conn, NEW on \in BOOLEAN, http_renew(c, on)
      PROVE  OwnSocket'
  BY <1>13, TcpAssumption
  DEF http_renew, Renew, Stage, OwnSocket, Current, TcpTypeOK
<1>14. ASSUME NEW c \in Conn, HeadersCrash(c) PROVE OwnSocket'
  BY <1>14, TcpAssumption
  DEF HeadersCrash, Abandon, Crash, GoTo, dataVars, OwnSocket, Current, TcpTypeOK
<1> QED
  BY <1>1, <1>2, <1>3, <1>4, <1>5, <1>6, <1>7, <1>8, <1>9, <1>10, <1>11,
     <1>12, <1>13, <1>14
  DEF Next, Step, Gone

\* The SSL objects of connections in use stay on their sockets.
LEMMA StepSslInUse ==
  ASSUME TypeOK, SslInUse, [Next]_vars
  PROVE  SslInUse'
<1> USE DEF TypeOK
<1>1. CASE UNCHANGED vars
  BY <1>1, TcpAssumption DEF vars, tcpVars, SslInUse, TcpTypeOK
<1>2. ASSUME NEW c \in Conn, http_request(c) PROVE SslInUse'
  BY <1>2, TcpAssumption
  DEF http_request, RedirectsAtCall, dataVars, tcpVars, SslInUse, TcpTypeOK
<1>3. ASSUME NEW c \in Conn, http_connect(c) PROVE SslInUse'
  BY <1>3, ConnectingSslInUse DEF http_connect
<1>4. ASSUME NEW c \in Conn, SendOk(c) PROVE SslInUse'
  BY <1>4, TcpAssumption DEF SendOk, GoTo, tcpVars, SslInUse, TcpTypeOK
<1>5. ASSUME NEW c \in Conn, SendFails(c) PROVE SslInUse'
  BY <1>5, TcpAssumption
  DEF SendFails, Abandon, Return, dataVars, SslInUse, TcpTypeOK
<1>6. ASSUME NEW c \in Conn, NoHeaders(c) PROVE SslInUse'
  BY <1>6, TcpAssumption
  DEF NoHeaders, Abandon, Return, dataVars, SslInUse, TcpTypeOK
<1>7. ASSUME NEW c \in Conn, NEW r \in Response, Redirect(c, r) PROVE SslInUse'
  BY <1>7, TcpAssumption DEF Redirect, Abandon, SslInUse, TcpTypeOK
<1>8. ASSUME NEW c \in Conn, NEW r \in Response, FinalHeaders(c, r)
      PROVE  SslInUse'
  BY <1>8, TcpAssumption DEF FinalHeaders, tcpVars, SslInUse, TcpTypeOK
<1>9. ASSUME NEW c \in Conn, BodyOk(c) PROVE SslInUse'
  BY <1>9, TcpAssumption DEF BodyOk, GoTo, tcpVars, SslInUse, TcpTypeOK
<1>10. ASSUME NEW c \in Conn, BodyFails(c) PROVE SslInUse'
  BY <1>10, TcpAssumption DEF BodyFails, Abandon, Return, SslInUse, TcpTypeOK
<1>11. ASSUME NEW c \in Conn, http_close(c) PROVE SslInUse'
  BY <1>11, TcpAssumption DEF http_close, tcp_close, SslInUse, TcpTypeOK
<1>12. ASSUME NEW c \in Conn, NEW on \in BOOLEAN, http_set_redirect(c, on)
      PROVE  SslInUse'
  BY <1>12, TcpAssumption
  DEF http_set_redirect, tcpVars, requestVars, SslInUse, TcpTypeOK
<1>13. ASSUME NEW c \in Conn, NEW on \in BOOLEAN, http_renew(c, on)
      PROVE  SslInUse'
  BY <1>13, TcpAssumption DEF http_renew, Renew, SslInUse, TcpTypeOK
<1>14. ASSUME NEW c \in Conn, HeadersCrash(c) PROVE SslInUse'
  BY <1>14, TcpAssumption
  DEF HeadersCrash, Abandon, Crash, GoTo, dataVars, SslInUse, TcpTypeOK
<1> QED
  BY <1>1, <1>2, <1>3, <1>4, <1>5, <1>6, <1>7, <1>8, <1>9, <1>10, <1>11,
     <1>12, <1>13, <1>14
  DEF Next, Step, Gone

\* A step of http_connect forgets no descriptor and recovers none.
LEMMA ConnectingForgotten ==
  ASSUME TcpTypeOK, OwnSocket, NEW c \in Conn, Connecting(c), NEW d \in Conn
  PROVE  Forgotten(d)' = Forgotten(d)
<1> USE TcpAssumption
    DEF TcpTypeOK, OwnSocket, Forgotten, Owned, Current, Stage
<1>1. CASE Unresolved(c) \/ SocketFails(c)
  BY <1>1 DEF Unresolved, SocketFails, tcpVars
<1>2. ASSUME NEW f \in Fd, ConnectRefused(c, f)
      PROVE  Forgotten(d)' = Forgotten(d)
  BY <1>2 DEF ConnectRefused, Closed, Free
<1>3. ASSUME NEW f \in Fd, ConnectStarts(c, f)
      PROVE  Forgotten(d)' = Forgotten(d)
  BY <1>3 DEF ConnectStarts, Free
<1>4. ASSUME NEW f \in Fd, ConnectedAtOnce(c, f)
      PROVE  Forgotten(d)' = Forgotten(d)
  BY <1>4 DEF ConnectedAtOnce, Connected, Free
<1>5. CASE SelectReady(c)
  BY <1>5 DEF SelectReady, Connected
<1>6. CASE SelectFails(c)
  BY <1>6 DEF SelectFails, Closed
<1>7. CASE TlsStarts(c)
  BY <1>7 DEF TlsStarts
<1>8. CASE TlsFails(c) \/ HandshakeFails(c)
  BY <1>8 DEF TlsFails, HandshakeFails, GiveUp, Closed
<1>9. CASE HandshakeDone(c) \/ HandshakeWants(c) \/ HandshakeReady(c)
  BY <1>9 DEF HandshakeDone, HandshakeWants, HandshakeReady
<1> QED
  BY <1>1, <1>2, <1>3, <1>4, <1>5, <1>6, <1>7, <1>8, <1>9 DEF Connecting

\* Abandoning a connection in use forgets exactly its socket.
LEMMA AbandonForgotten ==
  ASSUME TcpTypeOK, OwnSocket, NEW c \in Conn, stage[c] = "up", Abandon(c)
  PROVE  /\ \A d \in Conn \ {c} : Forgotten(d)' = Forgotten(d)
         /\ Cardinality(Forgotten(c)') = Cardinality(Forgotten(c)) + 1
<1> USE DEF TcpTypeOK
<1>1. \A d \in Conn \ {c} : Forgotten(d)' = Forgotten(d)
  BY DEF Abandon, Forgotten, Owned, Current
<1>2. Forgotten(c)' = Forgotten(c) \cup {fd[c]} /\ fd[c] \notin Forgotten(c)
  BY DEF Abandon, Forgotten, Owned, Current, OwnSocket
<1> QED
  BY <1>1, <1>2, OwnedFinite, FS_AddElement

\* Closing a connection in use forgets nothing.
LEMMA CloseForgotten ==
  ASSUME TcpTypeOK, OwnSocket, NEW c \in Conn, stage[c] = "up", tcp_close(c),
         NEW d \in Conn
  PROVE  Forgotten(d)' = Forgotten(d)
  BY TcpAssumption
  DEF tcp_close, Closed, TcpTypeOK, OwnSocket, Forgotten, Owned, Current

\* Between two calls everything an http_t has open is forgotten.
LEMMA IdleForgotten ==
  ASSUME NEW c \in Conn, stage[c] = "idle"
  PROVE  Forgotten(c) = Owned(c)
  BY DEF Forgotten

\* The count of the sockets left behind stays right.
LEMMA StepCounted ==
  ASSUME TypeOK, RedirectBudget, Progress, OwnSocket, Counted, [Next]_vars
  PROVE  Counted'
<1> DEFINE n(c) == Cardinality(Forgotten(c))
           Count(c) ==
             /\ pc[c] \notin {"ready", "crashed"} \/ answer[c] = "body" =>
                  n(c) = held[c] + redirects[c]
             /\ pc[c] = "ready" /\ answer[c] = "none" => n(c) = held[c]
             /\ pc[c] = "ready" /\ answer[c] = "null" =>
                  /\ n(c) \in held[c] + redirects[c] .. held[c] + redirects[c] + 1
                  /\ n(c) <= held[c] + MaxRedirects + 1
<1>n. \A c \in Conn : n(c) \in Nat
  BY OwnedFinite
<1>i. \A c \in Conn : Count(c)
  BY DEF Counted
<1>g. SUFFICES \A d \in Conn : Count(d)'
  BY DEF Counted
<1> HIDE DEF n
<1> USE DEF TypeOK
<1>s. ASSUME UNCHANGED tcpVars PROVE \A d \in Conn : n(d)' = n(d)
  BY <1>s DEF tcpVars, n, Forgotten, Owned, Current
<1>a. ASSUME NEW c \in Conn, stage[c] = "up", Abandon(c)
      PROVE  n(c)' = n(c) + 1 /\ \A d \in Conn \ {c} : n(d)' = n(d)
  BY <1>a, AbandonForgotten DEF n
<1>r. \A c \in Conn : stage[c] = "idle" => Cardinality(Owned(c)) = n(c)
  BY IdleForgotten DEF n

<1>1. CASE UNCHANGED vars
  BY <1>1, <1>s, <1>i DEF vars, tcpVars
<1>2. ASSUME NEW c \in Conn, http_request(c)
      PROVE  \A d \in Conn : Count(d)'
  <2>1. \A d \in Conn : n(d)' = n(d)
    BY <1>2, <1>s DEF http_request
  <2> QED
    BY <1>2, <2>1, <1>n, <1>i, HttpAssumption, <1>r
    DEF http_request, RedirectsAtCall, dataVars, RequestTypes, Progress,
        RedirectBudget, Phase
<1>3. ASSUME NEW c \in Conn, http_connect(c)
      PROVE  \A d \in Conn : Count(d)'
  <2>1. \A d \in Conn : n(d)' = n(d)
    BY <1>3, ConnectingForgotten DEF n, http_connect
  <2> QED
    BY <1>3, <2>1, <1>n, <1>i, HttpAssumption
    DEF http_connect, GoTo, Return, dataVars, RequestTypes, Progress,
        RedirectBudget, Phase
<1>4. ASSUME NEW c \in Conn, SendOk(c)
      PROVE  \A d \in Conn : Count(d)'
  <2>1. \A d \in Conn : n(d)' = n(d)
    BY <1>4, <1>s DEF SendOk
  <2> QED
    BY <1>4, <2>1, <1>n, <1>i, HttpAssumption
    DEF SendOk, GoTo, RequestTypes, Progress, RedirectBudget, Phase
<1>5. ASSUME NEW c \in Conn, SendFails(c)
      PROVE  \A d \in Conn : Count(d)'
  <2>1. n(c)' = n(c) + 1 /\ \A d \in Conn \ {c} : n(d)' = n(d)
    BY <1>5, <1>a DEF SendFails, Phase
  <2> QED
    BY <1>5, <2>1, <1>n, <1>i, HttpAssumption
    DEF SendFails, Return, dataVars, RequestTypes, Progress, RedirectBudget,
        Phase
<1>6. ASSUME NEW c \in Conn, NoHeaders(c)
      PROVE  \A d \in Conn : Count(d)'
  <2>1. n(c)' = n(c) + 1 /\ \A d \in Conn \ {c} : n(d)' = n(d)
    BY <1>6, <1>a DEF NoHeaders, Phase
  <2> QED
    BY <1>6, <2>1, <1>n, <1>i, HttpAssumption
    DEF NoHeaders, Return, dataVars, RequestTypes, Progress, RedirectBudget,
        Phase
<1>7. ASSUME NEW c \in Conn, NEW r \in Response, Redirect(c, r)
      PROVE  \A d \in Conn : Count(d)'
  <2>1. n(c)' = n(c) + 1 /\ \A d \in Conn \ {c} : n(d)' = n(d)
    BY <1>7, <1>a DEF Redirect, Phase
  <2> QED
    BY <1>7, <2>1, <1>n, <1>i, HttpAssumption
    DEF Redirect, MaxReached, GoTo, Return, RequestTypes, Progress,
        RedirectBudget, Phase
<1>8. ASSUME NEW c \in Conn, NEW r \in Response, FinalHeaders(c, r)
      PROVE  \A d \in Conn : Count(d)'
  <2>1. \A d \in Conn : n(d)' = n(d)
    BY <1>8, <1>s DEF FinalHeaders
  <2> QED
    BY <1>8, <2>1, <1>n, <1>i, HttpAssumption
    DEF FinalHeaders, GoTo, RequestTypes, Progress, RedirectBudget, Phase
<1>9. ASSUME NEW c \in Conn, BodyOk(c)
      PROVE  \A d \in Conn : Count(d)'
  <2>1. \A d \in Conn : n(d)' = n(d)
    BY <1>9, <1>s DEF BodyOk
  <2> QED
    BY <1>9, <2>1, <1>n, <1>i, HttpAssumption
    DEF BodyOk, GoTo, RequestTypes, Progress, RedirectBudget, Phase
<1>10. ASSUME NEW c \in Conn, BodyFails(c)
      PROVE  \A d \in Conn : Count(d)'
  <2>1. n(c)' = n(c) + 1 /\ \A d \in Conn \ {c} : n(d)' = n(d)
    BY <1>10, <1>a DEF BodyFails, Phase
  <2> QED
    BY <1>10, <2>1, <1>n, <1>i, HttpAssumption
    DEF BodyFails, Return, RequestTypes, Progress, RedirectBudget, Phase
<1>11. ASSUME NEW c \in Conn, http_close(c)
      PROVE  \A d \in Conn : Count(d)'
  <2>1. \A d \in Conn : n(d)' = n(d)
    BY <1>11, CloseForgotten DEF n, http_close, Phase
  <2> QED
    BY <1>11, <2>1, <1>n, <1>i, HttpAssumption
    DEF http_close, Return, dataVars, RequestTypes, Progress, RedirectBudget,
        Phase
<1>12. ASSUME NEW c \in Conn, NEW on \in BOOLEAN, http_set_redirect(c, on)
      PROVE  \A d \in Conn : Count(d)'
  <2>1. \A d \in Conn : n(d)' = n(d)
    BY <1>12, <1>s DEF http_set_redirect
  <2> QED
    BY <1>12, <2>1, <1>n, <1>i, HttpAssumption
    DEF http_set_redirect, requestVars, RequestTypes, Progress,
        RedirectBudget, Phase
<1>13. ASSUME NEW c \in Conn, NEW on \in BOOLEAN, http_renew(c, on)
      PROVE  \A d \in Conn : Count(d)'
  <2>1. \A d \in Conn : n(d)' = n(d)
    BY <1>13 DEF n, http_renew, Renew, Forgotten, Owned, Current, TcpTypeOK
  <2> QED
    BY <1>13, <2>1, <1>n, <1>i, HttpAssumption, <1>r
    DEF http_renew, RequestTypes, Progress, RedirectBudget, Phase
<1>14. ASSUME NEW c \in Conn, HeadersCrash(c)
      PROVE  \A d \in Conn : Count(d)'
  <2>1. n(c)' = n(c) + 1 /\ \A d \in Conn \ {c} : n(d)' = n(d)
    BY <1>14, <1>a DEF HeadersCrash, Crash, Phase
  <2> QED
    BY <1>14, <2>1, <1>n, <1>i, HttpAssumption
    DEF HeadersCrash, Crash, GoTo, dataVars, RequestTypes, Progress, RedirectBudget,
        Phase
<1> HIDE DEF Count
<1> QED
  BY <1>1, <1>2, <1>3, <1>4, <1>5, <1>6, <1>7, <1>8, <1>9, <1>10, <1>11,
     <1>12, <1>13, <1>14
  DEF Next, Step, Gone

\* Every step keeps the invariant.
LEMMA StepHInv == HInv /\ [Next]_vars => HInv'
<1> SUFFICES ASSUME HInv, [Next]_vars PROVE HInv'
  OBVIOUS
<1>1. TypeOK'
  BY StepTcpTypes, StepRequestTypes, StepDataTypes, StepPhase DEF HInv, TypeOK
<1>2. RedirectBudget' /\ Progress' /\ AnswerWhole' /\ JarComplete'
  BY StepBudget, StepProgress, StepAnswer, StepJar DEF HInv
<1>3. OwnSocket' /\ SslInUse' /\ Counted'
  BY StepOwnSocket, StepSslInUse, StepCounted DEF HInv, TypeOK
<1> QED
  BY <1>1, <1>2, <1>3 DEF HInv

\* The invariant holds in every reachable state.
THEOREM HttpInvariant == Spec => []HInv
  BY InitHInv, StepHInv, PTL DEF Spec

\* Type correctness.
THEOREM HttpTypes == Spec => []TypeOK
  BY HttpInvariant, PTL DEF HInv

\* Every call has the whole redirect budget and never exceeds it.
THEOREM HttpRedirectBudget == Spec => []RedirectBudget
  BY HttpInvariant, PTL DEF HInv

\* Requests carry every cookie set so far, by redirecting responses too.
THEOREM HttpCookiesCarried == Spec => []CookiesCarried
<1>1. HInv => CookiesCarried
  BY DEF HInv, JarComplete, CookiesCarried
<1> QED
  BY <1>1, HttpInvariant, PTL

\* A returned body and the status code are of the same, last exchange.
THEOREM HttpAnswerWhole == Spec => []AnswerWhole
  BY HttpInvariant, PTL DEF HInv

\* What a call leaves open when it ends, exactly.
THEOREM HttpSocketsLeft == Spec => []SocketsLeft
<1>1. HInv => SocketsLeft
  <2> SUFFICES ASSUME HInv, NEW c \in Conn, pc[c] = "ready"
               PROVE  /\ answer[c] = "body" => Left(c) = redirects[c]
                      /\ answer[c] = "null" =>
                           /\ Left(c) \in redirects[c] .. redirects[c] + 1
                           /\ Left(c) <= MaxRedirects + 1
                      /\ answer[c] = "none" => Left(c) = 0
    BY DEF SocketsLeft
  <2>1. Forgotten(c) = Owned(c)
    BY IdleForgotten DEF HInv, TypeOK, Phase
  <2>2. held[c] \in Nat /\ redirects[c] \in Nat
    BY HttpAssumption DEF HInv, TypeOK, RequestTypes
  <2>3. Cardinality(Owned(c)) \in Nat
    BY OwnedFinite
  <2>4. LET m == Cardinality(Owned(c)) IN
        /\ answer[c] = "body" => m = held[c] + redirects[c]
        /\ answer[c] = "none" => m = held[c]
        /\ answer[c] = "null" =>
             /\ m \in held[c] + redirects[c] .. held[c] + redirects[c] + 1
             /\ m <= held[c] + MaxRedirects + 1
    BY <2>1 DEF HInv, Counted
  <2> QED
    BY <2>2, <2>3, <2>4, HttpAssumption DEF Left
<1> QED
  BY <1>1, HttpInvariant, PTL

\* A request reads, writes and closes a socket its own http_t opened.
THEOREM HttpRequestOnOwnSocket == Spec => []RequestOnOwnSocket
<1>1. HInv => RequestOnOwnSocket
  BY DEF HInv, OwnSocket, SslInUse, Current, RequestOnOwnSocket
<1> QED
  BY <1>1, HttpInvariant, PTL

------------------------------------------------------------------------------
(* http_request implements the abstract exchange. *)

\* A step that leaves these four alone, on every http_t, is a stutter.
LEMMA Stutter ==
  ASSUME RequestTypes, RequestTypes', UNCHANGED <<exchanges, answer>>,
         \A d \in Conn : /\ pc'[d] = "ready" <=> pc[d] = "ready"
                         /\ answer[d] = "body" => bodyOf'[d] = bodyOf[d]
  PROVE  UNCHANGED Abs!xvars
<1>1. [d \in Conn |-> pc'[d] # "ready"] = [d \in Conn |-> pc[d] # "ready"]
  OBVIOUS
<1>2. [d \in Conn |-> IF answer'[d] = "body" THEN bodyOf'[d] ELSE 0]
        = [d \in Conn |-> IF answer[d] = "body" THEN bodyOf[d] ELSE 0]
  OBVIOUS
<1> QED
  BY <1>1, <1>2 DEF Abs!xvars

\* A return of NULL is an abstract failure.
LEMMA NullIsFail ==
  ASSUME TypeOK, Progress, NEW c \in Conn, pc[c] # "ready", Return(c, "null"),
         UNCHANGED exchanges, \A d \in Conn \ {c} : bodyOf'[d] = bodyOf[d]
  PROVE  Abs!AbsFail(c)
<1> USE DEF TypeOK, RequestTypes, Return, Progress
<1>1. [d \in Conn |-> pc[d] # "ready"][c]
  OBVIOUS
<1>2. [d \in Conn |-> pc'[d] # "ready"]
        = [[d \in Conn |-> pc[d] # "ready"] EXCEPT ![c] = FALSE]
  OBVIOUS
<1>3. answer' = [answer EXCEPT ![c] = "null"]
  OBVIOUS
<1>4. [d \in Conn |-> IF answer'[d] = "body" THEN bodyOf'[d] ELSE 0]
        = [d \in Conn |-> IF answer[d] = "body" THEN bodyOf[d] ELSE 0]
  OBVIOUS
<1> QED
  BY <1>1, <1>2, <1>3, <1>4 DEF Abs!AbsFail

\* The initial states are abstract initial states.
LEMMA InitAbs == Init => Abs!AbsInit
  BY DEF Init, Abs!AbsInit

\* Every step is an abstract step of the same http_t, or a stutter.
LEMMA StepAbs ==
  ASSUME HInv, HInv', [Next]_vars
  PROVE  [Abs!AbsNext]_(Abs!xvars)
<1> DEFINE Goal == Abs!AbsNext \/ UNCHANGED Abs!xvars
<1> SUFFICES Goal
  OBVIOUS
<1> HIDE DEF Goal
<1>t. TypeOK /\ RequestTypes /\ RequestTypes' /\ Progress
  BY DEF HInv, TypeOK
<1>f. ASSUME NEW c \in Conn, Abs!AbsFail(c) PROVE Goal
  BY <1>f DEF Goal, Abs!AbsNext
<1>s. ASSUME UNCHANGED Abs!xvars PROVE Goal
  BY <1>s DEF Goal
<1>1. CASE UNCHANGED vars
  BY <1>1, <1>s, <1>t, Stutter DEF vars
<1>2. ASSUME NEW c \in Conn, http_request(c) PROVE Goal
  <2> USE <1>2, <1>t DEF RequestTypes
  <2>1. ~[d \in Conn |-> pc[d] # "ready"][c]
    BY DEF http_request
  <2>2. [d \in Conn |-> pc'[d] # "ready"]
          = [[d \in Conn |-> pc[d] # "ready"] EXCEPT ![c] = TRUE]
    BY DEF http_request
  <2>3. /\ exchanges' = [exchanges EXCEPT ![c] = 0]
        /\ answer' = [answer EXCEPT ![c] = "none"]
    BY DEF http_request
  <2>4. [d \in Conn |-> IF answer'[d] = "body" THEN bodyOf'[d] ELSE 0]
          = [[d \in Conn |-> IF answer[d] = "body" THEN bodyOf[d] ELSE 0]
               EXCEPT ![c] = 0]
    BY DEF http_request, dataVars
  <2>5. Abs!AbsCall(c)
    BY <2>1, <2>2, <2>3, <2>4 DEF Abs!AbsCall
  <2> QED
    BY <2>5 DEF Goal, Abs!AbsNext
<1>3. ASSUME NEW c \in Conn, http_connect(c) PROVE Goal
  <2>1. UNCHANGED <<exchanges, bodyOf>> /\ pc[c] = "connect"
    BY <1>3 DEF http_connect, dataVars
  <2>2. CASE Return(c, "null")
    BY <2>1, <2>2, <1>t, <1>f, NullIsFail
  <2>3. CASE GoTo(c, "send") \/ GoTo(c, "connect")
    BY <2>1, <2>3, <1>t, <1>s, Stutter DEF GoTo, RequestTypes
  <2> QED
    BY <1>3, <2>2, <2>3 DEF http_connect
<1>4. ASSUME NEW c \in Conn, SendOk(c) PROVE Goal
  <2> USE <1>4, <1>t DEF RequestTypes
  <2>1. [d \in Conn |-> pc[d] # "ready"][c] /\ exchanges[c] <= MaxRedirects
    BY DEF SendOk, HInv, RedirectBudget
  <2>2. [d \in Conn |-> pc'[d] # "ready"] = [d \in Conn |-> pc[d] # "ready"]
    BY DEF SendOk, GoTo
  <2>3. exchanges' = [exchanges EXCEPT ![c] = @ + 1] /\ UNCHANGED answer
    BY DEF SendOk, GoTo
  <2>4. [d \in Conn |-> IF answer'[d] = "body" THEN bodyOf'[d] ELSE 0]
          = [d \in Conn |-> IF answer[d] = "body" THEN bodyOf[d] ELSE 0]
    BY DEF SendOk, GoTo
  <2>5. Abs!AbsExchange(c)
    BY <2>1, <2>2, <2>3, <2>4 DEF Abs!AbsExchange
  <2> QED
    BY <2>5 DEF Goal, Abs!AbsNext
<1>5. ASSUME NEW c \in Conn, SendFails(c) \/ NoHeaders(c) \/ BodyFails(c)
      PROVE  Goal
  <2>1. /\ pc[c] # "ready" /\ Return(c, "null") /\ UNCHANGED exchanges
        /\ \A d \in Conn \ {c} : bodyOf'[d] = bodyOf[d]
    <3>1. CASE SendFails(c)
      BY <3>1 DEF SendFails, dataVars
    <3>2. CASE NoHeaders(c)
      BY <3>2 DEF NoHeaders, dataVars
    <3>3. CASE BodyFails(c)
      BY <3>3 DEF BodyFails, HInv, TypeOK, DataTypes
    <3> QED
      BY <1>5, <3>1, <3>2, <3>3
  <2> QED
    BY <2>1, <1>t, <1>f, NullIsFail
<1>6. ASSUME NEW c \in Conn, NEW r \in Response, Redirect(c, r) PROVE Goal
  <2>1. UNCHANGED <<exchanges, bodyOf>> /\ pc[c] = "head"
    BY <1>6 DEF Redirect, ParseHeaders
  <2>2. CASE Return(c, "null")
    BY <2>1, <2>2, <1>t, <1>f, NullIsFail
  <2>3. CASE GoTo(c, "connect") \/ GoTo(c, "crashed")
    BY <2>1, <2>3, <1>t, <1>s, Stutter DEF GoTo, RequestTypes
  <2> QED
    BY <1>6, <2>2, <2>3 DEF Redirect
<1>7. ASSUME NEW c \in Conn, NEW r \in Response, FinalHeaders(c, r) PROVE Goal
  <2>1. /\ UNCHANGED <<exchanges, bodyOf>> /\ pc[c] = "head"
        /\ GoTo(c, "body")
    BY <1>7 DEF FinalHeaders, ParseHeaders
  <2> QED
    BY <2>1, <1>t, <1>s, Stutter DEF GoTo, RequestTypes
<1>8. ASSUME NEW c \in Conn, BodyOk(c) PROVE Goal
  <2>1. /\ UNCHANGED exchanges /\ pc[c] = "body" /\ GoTo(c, "close")
        /\ \A d \in Conn : answer[d] = "body" => bodyOf'[d] = bodyOf[d]
    BY <1>8, <1>t DEF BodyOk, Progress, HInv, TypeOK, DataTypes
  <2> QED
    BY <2>1, <1>t, <1>s, Stutter DEF GoTo, RequestTypes
<1>9. ASSUME NEW c \in Conn, http_close(c) PROVE Goal
  <2> USE <1>9, <1>t DEF RequestTypes
  <2>a. exchanges[c] > 0
    BY HttpAssumption DEF http_close, HInv, RedirectBudget
  <2>b. pc[c] # "ready"
    BY DEF http_close
  <2>1. [d \in Conn |-> pc[d] # "ready"][c] /\ exchanges[c] > 0
    BY <2>a, <2>b, Zenon
  <2>2. [d \in Conn |-> pc'[d] # "ready"]
          = [[d \in Conn |-> pc[d] # "ready"] EXCEPT ![c] = FALSE]
    BY DEF http_close, Return
  <2>3. UNCHANGED exchanges /\ answer' = [answer EXCEPT ![c] = "body"]
    BY DEF http_close, Return
  <2>4. [d \in Conn |-> IF answer'[d] = "body" THEN bodyOf'[d] ELSE 0]
          = [[d \in Conn |-> IF answer[d] = "body" THEN bodyOf[d] ELSE 0]
               EXCEPT ![c] = exchanges[c]]
    <3>1. bodyOf' = bodyOf /\ bodyOf[c] = exchanges[c]
      BY DEF http_close, dataVars, Progress
    <3> QED
      BY <3>1, <2>3
  <2>5. Abs!AbsAnswer(c)
    BY <2>1, <2>2, <2>3, <2>4 DEF Abs!AbsAnswer
  <2> QED
    BY <2>5 DEF Goal, Abs!AbsNext
<1>10. ASSUME NEW c \in Conn, NEW on \in BOOLEAN, http_set_redirect(c, on)
       PROVE  Goal
  BY <1>10, <1>s, <1>t, Stutter DEF http_set_redirect, requestVars
<1>11. ASSUME NEW c \in Conn, NEW on \in BOOLEAN, http_renew(c, on) PROVE Goal
  <2> USE <1>11, <1>t DEF RequestTypes
  <2>1. ~[d \in Conn |-> pc[d] # "ready"][c]
    BY DEF http_renew
  <2>2. [d \in Conn |-> pc'[d] # "ready"] = [d \in Conn |-> pc[d] # "ready"]
    BY DEF http_renew
  <2>3. /\ exchanges' = [exchanges EXCEPT ![c] = 0]
        /\ answer' = [answer EXCEPT ![c] = "none"]
    BY DEF http_renew
  <2>4. [d \in Conn |-> IF answer'[d] = "body" THEN bodyOf'[d] ELSE 0]
          = [[d \in Conn |-> IF answer[d] = "body" THEN bodyOf[d] ELSE 0]
               EXCEPT ![c] = 0]
    BY DEF http_renew, HInv, TypeOK, DataTypes
  <2>5. Abs!AbsRenew(c)
    BY <2>1, <2>2, <2>3, <2>4 DEF Abs!AbsRenew
  <2> QED
    BY <2>5 DEF Goal, Abs!AbsNext
<1>12. ASSUME NEW c \in Conn, HeadersCrash(c) PROVE Goal
  <2>1. /\ UNCHANGED <<exchanges, bodyOf>> /\ pc[c] = "head"
        /\ GoTo(c, "crashed")
    BY <1>12 DEF HeadersCrash, Crash, dataVars
  <2> QED
    BY <2>1, <1>t, <1>s, Stutter DEF GoTo, RequestTypes
<1> QED
  BY <1>1, <1>2, <1>3, <1>4, <1>5, <1>6, <1>7, <1>8, <1>9, <1>10, <1>11, <1>12
  DEF Next, Step, Gone

\* Each call makes at most MAX_REDIRECTS + 1 exchanges and ends with NULL or
\* with the body of the last one.
THEOREM HttpImplementsExchange == Spec => ImplementsExchange
  BY InitAbs, StepAbs, HttpInvariant, PTL
  DEF Spec, ImplementsExchange, Abs!AbsSpec

------------------------------------------------------------------------------
(* Devices *)

LEMMA MeInConn == me \in Conn
  BY DevicesAssumption DEF me

\* A step of the command is one of HttpClient, or changes nothing of it.
LEMMA StepClient == [DevicesNext]_allVars => [Next]_vars
<1> SUFFICES ASSUME [DevicesNext]_allVars PROVE [Next]_vars
  OBVIOUS
<1> USE MeInConn
<1>1. CASE Requesting
  BY <1>1 DEF Requesting, Next
<1>2. ASSUME NEW next, Call(next) PROVE [Next]_vars
  BY <1>2 DEF Call, Next
<1>3. CASE disable_redirect
  BY <1>3 DEF disable_redirect, Next
<1>4. CASE StartFails \/ LoginFails \/ PollCrashes \/ ParseRow \/ ParseCrashes
             \/ ParseEnds \/ devices_output \/ Over \/ UNCHANGED allVars
  BY <1>4, Zenon DEF StartFails, LoginFails, PollCrashes, ParseRow, ParseCrashes,
       ParseEnds, devices_output, Over, allVars
<1>5. ASSUME NEW list, Answer(list) PROVE [Next]_vars
  BY <1>5 DEF Answer
<1> QED
  BY <1>1, <1>2, <1>3, <1>4, <1>5, Zenon
  DEF DevicesNext, DevicesStep, device_get_form, device_get_randomcode,
      device_login, Poll

\* cmd_devices is a caller of HttpClient: its theorems hold of the command.
THEOREM DevicesIsClient == DevicesSpec => Spec
<1>1. DevicesInit => Init
  BY DEF DevicesInit
<1> QED
  BY <1>1, StepClient, PTL DEF DevicesSpec, Spec

------------------------------------------------------------------------------

Listing == {"parse", "show", "sleep", "done"}
LoggedIn == {"verify", "poll"} \cup Listing

\* What is open, and whether redirects are followed, at each step.
Session ==
  /\ cmd = "start" => pc[me] = "ready" /\ Cardinality(Owned(me)) = 0
  /\ cmd = "form" => held[me] = 0
  /\ cmd = "random" => held[me] <= MaxRedirects
  /\ cmd = "login" => /\ pc[me] = "ready"
                      /\ Cardinality(Owned(me)) <= 2 * MaxRedirects
                      /\ ~useRedirect[me]
  /\ cmd \in LoggedIn => /\ held[me] <= 2 * MaxRedirects
                         /\ ~useRedirect[me]
                         /\ redirects[me] = 0
                         /\ exchanges[me] <= 1
  /\ cmd \in Listing => Ended("body")
  /\ Ended("body") => redirects[me] <= MaxRedirects

\* A call that returned a body has left one socket for each redirect.
LEMMA BodyLeft ==
  ASSUME HInv, Ended("body")
  PROVE  Cardinality(Owned(me)) = held[me] + redirects[me]
<1>1. Forgotten(me) = Owned(me)
  BY IdleForgotten, MeInConn DEF HInv, TypeOK, Phase, Ended
<1> QED
  BY <1>1, MeInConn DEF HInv, Counted, Ended

LEMMA InitSession == DevicesInit => Session
<1> SUFFICES ASSUME DevicesInit PROVE Session
  OBVIOUS
<1>1. Owned(me) = {}
  BY MeInConn, TcpAssumption DEF DevicesInit, Init, TcpInit, Owned
<1> QED
  BY <1>1, MeInConn, FS_EmptySet
  DEF DevicesInit, Init, Session, Ended, Listing, LoggedIn

\* A step of a request leaves alone what the session relies on.
LEMMA RequestFrame ==
  ASSUME HInv, HInv', Session, Step(me)
  PROVE  /\ pc[me] # "ready"
         /\ UNCHANGED <<held, useRedirect>>
         /\ ~useRedirect[me] => redirects'[me] = redirects[me]
         /\ ~useRedirect[me] /\ redirects[me] = 0 /\ exchanges[me] <= 1
              => exchanges'[me] <= 1
         /\ Ended("body")' => redirects'[me] <= MaxRedirects
<1> USE MeInConn, HttpAssumption
<1> DEFINE Goal ==
         /\ pc[me] # "ready"
         /\ UNCHANGED <<held, useRedirect>>
         /\ ~useRedirect[me] => redirects'[me] = redirects[me]
         /\ ~useRedirect[me] /\ redirects[me] = 0 /\ exchanges[me] <= 1
              => exchanges'[me] <= 1
         /\ Ended("body")' => redirects'[me] <= MaxRedirects
<1>t. RequestTypes /\ RequestTypes' /\ RedirectBudget
  BY DEF HInv, TypeOK
<1>1. CASE http_connect(me)
  BY <1>1, <1>t DEF http_connect, dataVars, GoTo, Return, Ended, RequestTypes
<1>2. CASE SendOk(me)
  BY <1>2, <1>t DEF SendOk, GoTo, Ended, RequestTypes, RedirectBudget
<1>3. CASE SendFails(me) \/ NoHeaders(me)
  BY <1>3, <1>t DEF SendFails, NoHeaders, Return, dataVars, Ended, RequestTypes
<1>4. ASSUME NEW r \in Response, Redirect(me, r) PROVE Goal
  <2>1. pc[me] = "head" /\ useRedirect[me] /\ UNCHANGED <<held, useRedirect>>
    BY <1>4 DEF Redirect, Redirected, ParseHeaders
  <2>2. ~Ended("body")'
    BY <1>4, <1>t DEF Redirect, GoTo, Return, Ended, RequestTypes
  <2> QED
    BY <2>1, <2>2
<1>5. ASSUME NEW r \in Response, FinalHeaders(me, r) PROVE Goal
  BY <1>5, <1>t DEF FinalHeaders, ParseHeaders, GoTo, Ended, RequestTypes
<1>6. CASE BodyOk(me)
  BY <1>6, <1>t DEF BodyOk, GoTo, Ended, RequestTypes
<1>7. CASE BodyFails(me)
  BY <1>7, <1>t DEF BodyFails, Return, Ended, RequestTypes
<1>8. CASE http_close(me)
  BY <1>8, <1>t DEF http_close, Return, dataVars, Ended, RequestTypes, RedirectBudget
<1>9. CASE HeadersCrash(me)
  BY <1>9, <1>t DEF HeadersCrash, Crash, GoTo, dataVars, Ended, RequestTypes
<1> QED
  BY <1>1, <1>2, <1>3, <1>4, <1>5, <1>6, <1>7, <1>8, <1>9 DEF Step

\* A call begins with what is open, no redirect and no exchange.
LEMMA CallFrame ==
  ASSUME HInv, NEW next, Call(next)
  PROVE  /\ held'[me] = Cardinality(Owned(me))
         /\ redirects'[me] = 0 /\ exchanges'[me] = 0
         /\ useRedirect' = useRedirect
         /\ cmd' = next
         /\ ~Ended("body")'
  BY MeInConn DEF Call, http_request, RedirectsAtCall, dataVars, Ended, HInv,
       TypeOK, RequestTypes

\* A step that is none of a call and none of a request.
LEMMA ElseFrame ==
  ASSUME UNCHANGED vars
  PROVE  /\ Cardinality(Owned(me))' = Cardinality(Owned(me))
         /\ UNCHANGED <<held, redirects, exchanges, useRedirect, pc, answer>>
  BY DEF vars, Owned, me

LEMMA StepSession ==
  HInv /\ HInv' /\ Session /\ [DevicesNext]_allVars => Session'
<1> SUFFICES ASSUME HInv, HInv', Session, [DevicesNext]_allVars
             PROVE  Session'
  OBVIOUS
<1> USE MeInConn, HttpAssumption DEF Listing, LoggedIn
<1>t. /\ held[me] \in Nat /\ redirects[me] \in Nat /\ exchanges[me] \in Nat
      /\ Cardinality(Owned(me)) \in Nat
  BY OwnedFinite DEF HInv, TypeOK, RequestTypes
<1>m. me' = me
  BY DEF me
<1>1. CASE Requesting
  BY <1>1, <1>t, RequestFrame DEF Requesting, deviceVars, config, Session, Ended
<1>2. CASE device_get_form
  BY <1>2, <1>t, CallFrame DEF device_get_form, Session
<1>3. CASE device_get_randomcode
  BY <1>3, <1>t, CallFrame, BodyLeft DEF device_get_randomcode, Session
<1>4. CASE device_login
  BY <1>4, <1>t, CallFrame DEF device_login, Session
<1>5. CASE Poll
  <2>1. Cardinality(Owned(me)) <= 2 * MaxRedirects /\ ~useRedirect[me]
    BY <1>5, <1>t, BodyLeft DEF Poll, Session
  <2> QED
    BY <1>5, <2>1, <1>t, CallFrame DEF Poll, Session
<1>6. CASE disable_redirect
  <2>1. Cardinality(Owned(me)) <= 2 * MaxRedirects /\ redirects[me] <= MaxRedirects
    BY <1>6, <1>t, BodyLeft DEF disable_redirect, Session
  <2>2. /\ Cardinality(Owned(me))' = Cardinality(Owned(me))
        /\ ~useRedirect'[me] /\ cmd' = "login"
        /\ UNCHANGED <<pc, answer, redirects>> /\ pc[me] = "ready"
    BY <1>6 DEF disable_redirect, http_set_redirect, tcpVars, requestVars, Owned,
         me, Ended, HInv, TypeOK, DataTypes
  <2> QED
    BY <2>1, <2>2 DEF Session, Ended
<1>7. CASE StartFails \/ LoginFails \/ PollCrashes \/ ParseCrashes
  <2>1. UNCHANGED vars /\ cmd' \in {"failed", "crashed"}
    BY <1>7 DEF StartFails, LoginFails, PollCrashes, ParseCrashes
  <2> QED
    BY <2>1, ElseFrame DEF Session, Ended
<1>8. CASE ParseRow \/ ParseEnds \/ devices_output
  <2>1. UNCHANGED vars /\ cmd \in Listing /\ cmd' \in Listing \cup {"crashed"}
    BY <1>8 DEF ParseRow, ParseEnds, devices_output
  <2> QED
    BY <2>1, ElseFrame DEF Session, Ended
<1>9. ASSUME NEW list, Answer(list) PROVE Session'
  <2>1. UNCHANGED vars /\ cmd = "poll" /\ Ended("body") /\ cmd' = "parse"
    BY <1>9 DEF Answer
  <2> QED
    BY <2>1, ElseFrame DEF Session, Ended
<1>10. CASE Over \/ UNCHANGED allVars
  <2>1. UNCHANGED vars /\ cmd' = cmd
    BY <1>10 DEF Over, allVars, deviceVars
  <2> QED
    BY <2>1, ElseFrame DEF Session, Ended
<1> QED
  BY <1>1, <1>2, <1>3, <1>4, <1>5, <1>6, <1>7, <1>8, <1>9, <1>10
  DEF DevicesNext, DevicesStep

\* At each step of cmd_devices: what its http_t may have open, and whether it
\* follows redirects.
THEOREM DevicesSession == DevicesSpec => [](HInv /\ Session)
<1>1. DevicesSpec => []HInv
  BY DevicesIsClient, HttpInvariant, PTL
<1> QED
  BY <1>1, InitSession, StepSession, PTL DEF DevicesSpec

\* A watch that runs for ever holds what the login's redirects left, and no
\* more.
THEOREM DevicesKeepSockets == DevicesSpec => []WatchKeepsSockets
<1>1. HInv /\ Session => WatchKeepsSockets
  <2> SUFFICES ASSUME HInv, Session, cmd \in Listing
               PROVE  Left(me) = 0 /\ Cardinality(Owned(me)) <= 2 * MaxRedirects
    BY DEF WatchKeepsSockets, Listing
  <2>1. /\ Cardinality(Owned(me)) = held[me] + redirects[me]
        /\ redirects[me] = 0 /\ held[me] <= 2 * MaxRedirects
    BY BodyLeft DEF Session, Listing, LoggedIn
  <2>2. held[me] \in Nat
    BY MeInConn DEF HInv, TypeOK, RequestTypes
  <2> QED
    BY <2>1, <2>2 DEF Left
<1> QED
  BY <1>1, DevicesSession, PTL

\* The form with the password goes out at most once.
THEOREM DevicesPasswordOnce == DevicesSpec => []PasswordSentOnce
<1>1. Session => PasswordSentOnce
  BY DEF Session, LoggedIn, PasswordSentOnce
<1> QED
  BY <1>1, DevicesSession, PTL

------------------------------------------------------------------------------
(* devices_parse *)

\* Where the parser is: behind row whole objects, which are in the first rows.
AtObject == 5 * row <= Len(content) /\ p = 5 * row + 1

RowOf(k) == \A f \in Field : \E j \in 1 .. Len(content) :
  ObjectOf(j) = k /\ content[j] = [is |-> f, value |-> devices[k][f]]

Parsed == /\ Len(content) \in Nat
          /\ \A j \in 1 .. Len(content) : IsToken(content[j])
          /\ p \in Nat /\ p > 0 /\ row \in 0 .. MaxDevices
          /\ DOMAIN devices = Row
          /\ cmd \in {"parse", "show"} /\ Regular => \A k \in 1 .. row : RowOf(k)
          /\ cmd = "parse" /\ Regular => AtObject
          /\ cmd = "show" /\ Regular =>
               /\ 5 * row <= Len(content)
               /\ row = MaxDevices \/ Len(content) < 5 * row + 5

LEMMA WidthIs == Width = 5
<1>1. Cardinality({"loginTime"}) = 1 /\ IsFiniteSet({"loginTime"})
  BY FS_Singleton
<1>2. {"loginTime"} \cup {"ip"} = {"loginTime", "ip"} /\ "ip" \notin {"loginTime"}
  OBVIOUS
<1>3. Cardinality({"loginTime", "ip"}) = 2 /\ IsFiniteSet({"loginTime", "ip"})
  BY <1>1, <1>2, FS_AddElement
<1>4. {"loginTime", "ip"} \cup {"mac"} = Field /\ "mac" \notin {"loginTime", "ip"}
  BY DEF Field
<1>5. Cardinality(Field) = 3
  BY <1>3, <1>4, FS_AddElement
<1> QED
  BY <1>5 DEF Width

\* Object r + 1 is what stands from 5r + 1 to 5r + 5.
LEMMA ObjectIs ==
  ASSUME NEW r \in Nat, NEW j \in Nat \ {0}
  PROVE  /\ ObjectOf(j) = r + 1 <=> j \in 5 * r + 1 .. 5 * r + 5
         /\ j \in 5 * r + 1 .. 5 * r + 5 =>
              (j % 5 = 1 <=> j = 5 * r + 1) /\ (j % 5 = 0 <=> j = 5 * r + 5)
  BY WidthIs DEF ObjectOf

\* Find finds the first one there is.
LEMMA FindIs ==
  ASSUME Len(content) \in Nat, NEW k \in Nat \ {0}, NEW what
  PROVE  \/ /\ Find(k, what) = 0
            /\ \A j \in k .. Len(content) : content[j].is # what
         \/ /\ Find(k, what) \in k .. Len(content)
            /\ content[Find(k, what)].is = what
            /\ \A j \in k .. Len(content) : content[j].is = what => Find(k, what) <= j
<1> DEFINE at == {j \in k .. Len(content) : content[j].is = what}
           z == CHOOSE j \in at : \A m \in at : j <= m
<1>1. CASE at = {}
  BY <1>1 DEF Find
<1>2. CASE at # {}
  <2>1. at \in SUBSET Nat
    OBVIOUS
  <2>2. \E j \in at : \A m \in at : j <= m
    <3> HIDE DEF at
    <3> QED
      BY <1>2, <2>1, LeastNumber
  <2>3. z \in at /\ \A m \in at : z <= m
    <3> HIDE DEF at
    <3> QED
      BY <2>2
  <2>4. Find(k, what) = z
    BY <1>2 DEF Find
  <2> HIDE DEF z
  <2> QED
    BY <2>3, <2>4
<1> QED
  BY <1>1, <1>2

\* A whole object has the three fields.
LEMMA WholeObject ==
  ASSUME Regular, \A j \in 1 .. Len(content) : IsToken(content[j]),
         Len(content) \in Nat, NEW r \in Nat, 5 * r + 5 <= Len(content)
  PROVE  \A f \in Field : \E j \in 5 * r + 1 .. 5 * r + 5 : content[j].is = f
<1> DEFINE j2 == 5 * r + 2
           j3 == 5 * r + 3
           j4 == 5 * r + 4
<1>1. j2 \in Nat \ {0} /\ j3 \in Nat \ {0} /\ j4 \in Nat \ {0}
  OBVIOUS
<1>2. /\ {j2, j3, j4} \subseteq 5 * r + 1 .. 5 * r + 5
      /\ {j2, j3, j4} \subseteq 1 .. Len(content)
      /\ 5 * r + 1 \notin {j2, j3, j4} /\ 5 * r + 5 \notin {j2, j3, j4}
      /\ j2 # j3 /\ j2 # j4 /\ j3 # j4
  OBVIOUS
<1> HIDE DEF j2, j3, j4
<1>3. ASSUME NEW j \in {j2, j3, j4}
      PROVE  ObjectOf(j) = r + 1 /\ content[j].is \in Field
  <2>1. ObjectOf(j) = r + 1 /\ j % 5 # 1 /\ j % 5 # 0
    BY <1>1, <1>2, ObjectIs
  <2>2. content[j].is # "{" /\ content[j].is # "}"
    BY <1>2, <2>1, WidthIs DEF Regular
  <2>3. IsToken(content[j])
    BY <1>2
  <2>4. PICK f \in Field : content[j] = [is |-> f, value |-> content[j].value]
    BY <2>2, <2>3 DEF IsToken
  <2>5. content[j].is = f
    BY <2>4
  <2> QED
    BY <2>1, <2>5
<1>4. /\ content[j2].is # content[j3].is /\ content[j2].is # content[j4].is
      /\ content[j3].is # content[j4].is
  BY <1>2, <1>3 DEF Regular
<1>5. /\ content[j2].is \in Field /\ content[j3].is \in Field
      /\ content[j4].is \in Field
  BY <1>3
<1>6. \A f \in Field : content[j2].is = f \/ content[j3].is = f \/ content[j4].is = f
  BY <1>4, <1>5 DEF Field
<1> QED
  BY <1>2, <1>6

\* At an object of a regular list: its own "{", its own fields if they are
\* found at all, and its own "}" unless it is cut.
LEMMA AtObjectFinds ==
  ASSUME Parsed, Regular, AtObject, step_in # 0
  PROVE  /\ step_in = p /\ p <= Len(content)
         /\ \A f \in Field : Found(f) # 0 =>
              /\ Found(f) \in p .. p + 4 /\ Found(f) <= Len(content)
              /\ content[Found(f)].is = f
         /\ \/ p + 4 <= Len(content) /\ Find(step_in, "}") = p + 4
            \/ Len(content) < p + 4 /\ Find(step_in, "}") = 0
<1>1. /\ Len(content) \in Nat /\ row \in Nat /\ p \in Nat /\ p > 0 /\ p = 5 * row + 1
      /\ p \in Nat \ {0}
      /\ \A j \in 1 .. Len(content) : IsToken(content[j])
  BY DevicesAssumption DEF Parsed, AtObject
<1>2. \A j \in p .. p + 4 : /\ j \in Nat \ {0}
                            /\ ObjectOf(j) = row + 1
                            /\ j % 5 = 1 <=> j = p
                            /\ j % 5 = 0 <=> j = p + 4
  <2> TAKE j \in p .. p + 4
  <2>1. j \in Nat \ {0} /\ j \in 5 * row + 1 .. 5 * row + 5 /\ 5 * row + 5 = p + 4
    BY <1>1
  <2> QED
    BY <1>1, <2>1, ObjectIs
<1>3. step_in = p /\ p <= Len(content)
  <2>0. step_in \in p .. Len(content)
    BY <1>1, FindIs DEF step_in
  <2>1. \A j \in p .. Len(content) : content[j].is = "{" => step_in <= j
    BY <1>1, FindIs DEF step_in
  <2>n. Len(content) \in Nat /\ p \in Nat /\ p > 0
    BY <1>1
  <2>2. p \in p .. Len(content) /\ p \in p .. p + 4 /\ p \in 1 .. Len(content)
    BY <2>n, <2>0
  <2>3. content[p].is = "{"
    BY <1>2, <2>2, WidthIs DEF Regular
  <2>4. step_in <= p
    BY <2>1, <2>2, <2>3
  <2> QED
    BY <2>n, <2>0, <2>4
<1>4. ASSUME NEW f \in Field, Found(f) # 0
      PROVE  /\ Found(f) \in p .. p + 4 /\ Found(f) <= Len(content)
             /\ content[Found(f)].is = f
  <2>1. /\ Found(f) \in p .. Len(content) /\ content[Found(f)].is = f
        /\ \A j \in p .. Len(content) : content[j].is = f => Found(f) <= j
    BY <1>1, <1>3, <1>4, FindIs DEF Found
  <2>2. CASE 5 * row + 5 <= Len(content)
    <3>1. PICK j \in 5 * row + 1 .. 5 * row + 5 : content[j].is = f
      BY <1>1, <2>2, WholeObject
    <3>2. j \in p .. p + 4 /\ j \in p .. Len(content)
      BY <1>1, <2>2, <3>1
    <3>3. Found(f) <= j
      BY <2>1, <3>1, <3>2
    <3> QED
      BY <1>1, <2>1, <3>2, <3>3
  <2>3. CASE Len(content) < 5 * row + 5
    BY <1>1, <2>1, <2>3
  <2> QED
    BY <1>1, <2>2, <2>3
<1>5. \/ p + 4 <= Len(content) /\ Find(p, "}") = p + 4
      \/ Len(content) < p + 4 /\ Find(p, "}") = 0
  <2>0. PICK out : out = Find(p, "}")
    OBVIOUS
  <2>n. Len(content) \in Nat /\ p \in Nat /\ p > 0
    BY <1>1
  <2>f. \/ /\ out = 0
           /\ \A j \in p .. Len(content) : content[j].is # "}"
        \/ /\ out \in p .. Len(content) /\ content[out].is = "}"
           /\ \A j \in p .. Len(content) : content[j].is = "}" => out <= j
    BY <1>1, <2>0, FindIs
  <2>1. \A j \in p .. Len(content) : j \in p .. p + 4 => (content[j].is = "}" <=> j = p + 4)
    <3> TAKE j \in p .. Len(content)
    <3>1. j \in 1 .. Len(content)
      BY <1>1
    <3> QED
      BY <1>2, <3>1, WidthIs DEF Regular
  <2>2. CASE /\ out = 0
             /\ \A j \in p .. Len(content) : content[j].is # "}"
    <3>1. p + 4 \in p .. p + 4 /\ (p + 4 <= Len(content) => p + 4 \in p .. Len(content))
      BY <2>n
    <3>2. ~ (p + 4 <= Len(content))
      BY <2>1, <2>2, <3>1
    <3>3. Len(content) < p + 4
      BY <2>n, <3>2
    <3> QED
      BY <2>0, <2>2, <3>3
  <2>3. CASE /\ out \in p .. Len(content) /\ content[out].is = "}"
             /\ \A j \in p .. Len(content) : content[j].is = "}" => out <= j
    <3>1. out \in p .. Len(content)
      BY <2>3
    <3>2. out \in p .. p + 4 => out = p + 4
      BY <2>1, <2>3
    <3>3. CASE p + 4 <= Len(content)
      <4>1. p + 4 \in p .. p + 4 /\ p + 4 \in p .. Len(content)
        BY <2>n, <3>3
      <4>2. out <= p + 4
        BY <2>1, <2>3, <4>1
      <4>3. out \in p .. p + 4
        BY <2>n, <3>1, <4>2
      <4> QED
        BY <2>0, <3>2, <3>3, <4>3
    <3>4. CASE Len(content) < p + 4
      <4>1. out \in p .. p + 4 /\ out # p + 4
        BY <2>n, <3>1, <3>4
      <4> QED
        BY <3>2, <4>1
    <3>5. p + 4 <= Len(content) \/ Len(content) < p + 4
      BY <2>n
    <3> QED
      BY <3>3, <3>4, <3>5
  <2> QED
    BY <2>0, <2>f, <2>2, <2>3
<1> QED
  BY <1>3, <1>4, <1>5

LEMMA InitParsed == DevicesInit => Parsed
  BY DevicesAssumption DEF DevicesInit, Parsed, Row

\* One object is parsed into the next row.
LEMMA ParseRowParsed == ASSUME Parsed, ParseRow PROVE Parsed'
<1>0. /\ cmd = "parse" /\ row < MaxDevices /\ step_in # 0
      /\ content' = content
      /\ \A f \in Field : Found(f) # 0
      /\ devices' = [devices EXCEPT ![row + 1] = [f \in Field |-> Scanned(f)]]
  BY DEF ParseRow
<1>1. /\ Len(content) \in Nat /\ row \in Nat /\ p \in Nat /\ p > 0
      /\ MaxDevices \in Nat
  BY DevicesAssumption DEF Parsed
<1>a. (\A j \in 1 .. Len(content) : IsToken(content[j])) /\ DOMAIN devices = Row
  BY DEF Parsed
<1>2. PICK out : out = Find(step_in, "}")
  OBVIOUS
<1>3. out \in Nat
  <2>0. p \in Nat \ {0}
    BY <1>1
  <2>1. step_in \in p .. Len(content)
    BY <1>0, <1>1, <2>0, FindIs DEF step_in
  <2>2. step_in \in Nat \ {0}
    BY <1>1, <2>1
  <2>3. out = 0 \/ out \in step_in .. Len(content)
    BY <1>1, <1>2, <2>2, FindIs
  <2> QED
    BY <1>1, <2>2, <2>3
<1>4. \/ out = 0 /\ row' = row /\ cmd' = "show" /\ p' = p
      \/ out # 0 /\ row' = row + 1 /\ cmd' = "parse" /\ p' = out + 1
  BY <1>0, <1>2 DEF ParseRow, RowsAfter
<1>5. row + 1 \in Row /\ DOMAIN devices' = Row
  BY <1>0, <1>1, <1>a DEF Row
<1>6. p' \in Nat /\ p' > 0 /\ row' \in 0 .. MaxDevices
  <2>1. CASE out = 0
    BY <1>0, <1>1, <1>4, <2>1
  <2>2. CASE out # 0
    BY <1>0, <1>1, <1>3, <1>4, <2>2
  <2> QED
    BY <2>1, <2>2
<1>7. Regular' <=> Regular
  BY <1>0 DEF Regular, ObjectOf, Width, Field
<1>8. ASSUME Regular
      PROVE  /\ \A k \in 1 .. row' : RowOf(k)'
             /\ cmd' = "parse" => AtObject'
             /\ cmd' = "show" => /\ 5 * row' <= Len(content)
                                /\ Len(content) < 5 * row' + 5
  <2>1. AtObject /\ \A k \in 1 .. row : RowOf(k)
    BY <1>0, <1>8 DEF Parsed
  <2>2. /\ step_in = p /\ p <= Len(content)
        /\ \A f \in Field : /\ Found(f) \in p .. p + 4 /\ Found(f) <= Len(content)
                            /\ content[Found(f)].is = f
    BY <1>0, <1>8, <2>1, AtObjectFinds
  <2>3. \/ p + 4 <= Len(content) /\ out = p + 4
        \/ Len(content) < p + 4 /\ out = 0
    BY <1>0, <1>2, <1>8, <2>1, AtObjectFinds
  <2>4. p = 5 * row + 1 /\ 5 * row <= Len(content)
    BY <2>1 DEF AtObject
  <2>5. \A k \in 1 .. row : RowOf(k)'
    <3> TAKE k \in 1 .. row
    <3>1. k # row + 1
      BY <1>1
    <3>2. devices'[k] = devices[k]
      BY <1>0, <3>1
    <3> QED
      BY <1>0, <2>1, <3>2 DEF RowOf
  <2>6. ASSUME NEW k, k = row + 1 PROVE RowOf(k)'
    <3> SUFFICES ASSUME NEW f \in Field
                 PROVE  \E j \in 1 .. Len(content) :
                          /\ ObjectOf(j) = k
                          /\ content[j] = [is |-> f, value |-> devices'[k][f]]
      BY <1>0 DEF RowOf
    <3>1. PICK j : j = Found(f)
      OBVIOUS
    <3>2. j \in p .. p + 4 /\ j <= Len(content)
      BY <2>2, <3>1
    <3>3. content[j].is = f
      BY <2>2, <3>1
    <3>4. j \in 1 .. Len(content) /\ j \in Nat \ {0}
      BY <1>1, <3>2
    <3>5. ObjectOf(j) = row + 1
      <4>1. j \in 5 * row + 1 .. 5 * row + 5
        BY <1>1, <2>4, <3>2
      <4> QED
        BY <1>1, <3>4, <4>1, ObjectIs
    <3>6. content[j].value # Empty
      BY <1>8, <3>3, <3>4 DEF Regular
    <3>7. devices'[row + 1][f] = content[j].value
      BY <1>0, <1>5, <1>a, <3>1, <3>6 DEF Scanned
    <3>8. content[j] = [is |-> f, value |-> content[j].value]
      <4>1. content[j].is \notin {"{", "}"}
        BY <3>3 DEF Field
      <4>2. PICK g \in Field : content[j] = [is |-> g, value |-> content[j].value]
        BY <1>a, <3>4, <4>1 DEF IsToken
      <4>3. g = f
        BY <3>3, <4>2
      <4> QED
        BY <4>2, <4>3
    <3> QED
      BY <2>6, <3>4, <3>5, <3>7, <3>8
  <2>7. CASE out = 0
    <3>1. row' = row /\ cmd' = "show" /\ Len(content) < p + 4
      BY <1>1, <1>4, <2>3, <2>7
    <3>2. 5 * row' <= Len(content) /\ Len(content) < 5 * row' + 5
      BY <1>1, <2>4, <3>1
    <3> QED
      BY <2>5, <3>1, <3>2
  <2>8. CASE out # 0
    <3>1. row' = row + 1 /\ cmd' = "parse" /\ p + 4 <= Len(content) /\ p' = (p + 4) + 1
      BY <1>4, <2>3, <2>8
    <3>2. 5 * row' <= Len(content) /\ p' = 5 * row' + 1
      BY <1>1, <2>4, <3>1
    <3>3. \A k \in 1 .. row' : k \in 1 .. row \/ k = row + 1
      BY <1>1, <3>1
    <3> QED
      BY <1>0, <2>5, <2>6, <3>1, <3>2, <3>3 DEF AtObject
  <2> QED
    BY <2>7, <2>8
<1>9. Len(content') \in Nat /\ \A j \in 1 .. Len(content') : IsToken(content'[j])
  BY <1>0, <1>1, <1>a
<1> QED
  BY <1>0, <1>5, <1>6, <1>7, <1>8, <1>9 DEF Parsed

\* A step of cmd_devices keeps what the parser relies on.
LEMMA StepParsed == Parsed /\ [DevicesNext]_allVars => Parsed'
<1> SUFFICES ASSUME Parsed, [DevicesNext]_allVars PROVE Parsed'
  OBVIOUS
<1>t. Len(content) \in Nat /\ row \in Nat /\ p \in Nat /\ p > 0 /\ MaxDevices \in Nat
  BY DevicesAssumption DEF Parsed
<1>1. ASSUME UNCHANGED parseVars, cmd' = cmd \/ cmd' \notin {"parse", "show"}
      PROVE  Parsed'
  <2>1. Regular' <=> Regular
    BY <1>1 DEF parseVars, Regular, ObjectOf, Width, Field
  <2>2. \A k : RowOf(k)' <=> RowOf(k)
    BY <1>1 DEF parseVars, RowOf
  <2> QED
    BY <1>1, <2>1, <2>2 DEF Parsed, parseVars, AtObject
<1>2. CASE Requesting \/ Over \/ UNCHANGED allVars
  BY <1>1, <1>2 DEF Requesting, Over, allVars, deviceVars
<1>3. CASE \/ StartFails \/ device_get_form \/ device_get_randomcode
           \/ disable_redirect \/ device_login \/ LoginFails
           \/ Poll \/ PollCrashes \/ ParseCrashes
  BY <1>1, <1>3
  DEF StartFails, device_get_form, device_get_randomcode, disable_redirect,
      device_login, LoginFails, Poll, PollCrashes, ParseCrashes, Call
<1>4. ASSUME NEW list \in Lists, Answer(list) PROVE Parsed'
  <2>1. /\ content' = list /\ p' = 1 /\ row' = 0 /\ devices' = devices
        /\ cmd' = "parse"
    BY <1>4 DEF Answer
  <2>2. Len(list) \in Nat /\ \A j \in 1 .. Len(list) : IsToken(list[j])
    BY ListsAssumption
  <2>3. AtObject' /\ 1 .. row' = {}
    BY <2>1, <2>2 DEF AtObject
  <2> QED
    BY <1>t, <2>1, <2>2, <2>3 DEF Parsed
<1>5. CASE ParseRow
  BY <1>5, ParseRowParsed
<1>6. CASE ParseEnds
  <2>1. /\ cmd = "parse" /\ cmd' = "show" /\ UNCHANGED <<content, p, row, devices>>
        /\ row = MaxDevices \/ step_in = 0
    BY <1>6 DEF ParseEnds, parseVars
  <2>2. Regular' <=> Regular
    BY <2>1 DEF Regular, ObjectOf, Width, Field
  <2>3. \A k : RowOf(k)' <=> RowOf(k)
    BY <2>1 DEF RowOf
  <2>4. ASSUME Regular
        PROVE  /\ 5 * row <= Len(content)
               /\ row = MaxDevices \/ Len(content) < 5 * row + 5
    <3>1. p = 5 * row + 1 /\ 5 * row <= Len(content)
      BY <2>1, <2>4 DEF Parsed, AtObject
    <3>2. CASE row # MaxDevices
      <4>1. step_in = 0
        BY <2>1, <3>2
      <4>2. \A j \in p .. Len(content) : content[j].is # "{"
        <5>1. p \in Nat \ {0}
          BY <1>t
        <5>2. PICK z : z = Find(p, "{")
          OBVIOUS
        <5>3. z = 0
          BY <4>1, <5>2 DEF step_in
        <5>4. z \notin p .. Len(content)
          BY <1>t, <5>3
        <5> QED
          BY <1>t, <5>1, <5>2, <5>4, FindIs
      <4>3. ASSUME p \in p .. Len(content) PROVE FALSE
        <5>1. p \in Nat \ {0} /\ p \in 5 * row + 1 .. 5 * row + 5
          BY <1>t, <3>1
        <5>2. p % 5 = 1
          BY <1>t, <3>1, <5>1, ObjectIs
        <5>3. p \in 1 .. Len(content)
          BY <1>t, <4>3
        <5>4. content[p].is = "{"
          BY <2>4, <5>2, <5>3, WidthIs DEF Regular
        <5> QED
          BY <4>2, <4>3, <5>4
      <4>4. Len(content) < p
        BY <1>t, <4>3
      <4> QED
        BY <1>t, <3>1, <4>4
    <3> QED
      BY <3>1, <3>2
  <2> QED
    BY <2>1, <2>2, <2>3, <2>4 DEF Parsed
<1>7. CASE devices_output
  <2>1. /\ content' = << >> /\ p' = 1 /\ row' = 0 /\ devices' = devices
        /\ cmd' \in {"crashed", "sleep", "done"}
    BY <1>7 DEF devices_output
  <2> QED
    BY <1>t, <2>1 DEF Parsed
<1> QED
  BY <1>2, <1>3, <1>4, <1>5, <1>6, <1>7 DEF DevicesNext, DevicesStep

\* devices_parse never leaves the array, and in a list of whole objects stands
\* before one, with those before it in their rows.
THEOREM DevicesParsed == DevicesSpec => []Parsed
  BY InitParsed, StepParsed, PTL DEF DevicesSpec

\* The rows shown for a list of whole objects are its objects, as many as
\* there is room for, whatever the array held before.
THEOREM DevicesRows == DevicesSpec => []RowsAreObjects
<1>1. Parsed => RowsAreObjects
  <2> SUFFICES ASSUME Parsed, cmd = "show", Regular
               PROVE  LET whole == Len(content) \div Width IN
                        /\ row = IF whole < MaxDevices THEN whole ELSE MaxDevices
                        /\ \A k \in 1 .. row : RowOf(k)
    BY DEF RowsAreObjects, RowOf
  <2>1. /\ Len(content) \in Nat /\ row \in 0 .. MaxDevices /\ MaxDevices \in Nat
        /\ 5 * row <= Len(content)
        /\ row = MaxDevices \/ Len(content) < 5 * row + 5
    BY DevicesAssumption DEF Parsed
  <2>0. \A k \in 1 .. row : RowOf(k)
    BY DEF Parsed
  <2>2. row = IF Len(content) \div 5 < MaxDevices THEN Len(content) \div 5 ELSE MaxDevices
    <3>1. PICK n \in Nat, r \in Nat, m \in Nat :
            n = Len(content) /\ r = row /\ m = MaxDevices
      BY <2>1
    <3>2. r <= m /\ 5 * r <= n /\ (r = m \/ n < 5 * r + 5)
      BY <2>1, <3>1
    <3>3. r = IF n \div 5 < m THEN n \div 5 ELSE m
      BY <3>2
    <3> QED
      BY <3>1, <3>3
  <2> QED
    BY <2>0, <2>2, WidthIs
<1> QED
  BY <1>1, DevicesParsed, PTL
=============================================================================
