------------------------- MODULE CmdSpeedtestProofs --------------------------
(*****************************************************************************)
(* Proofs about Speedtest, for any number of threads, any file size and      *)
(* any finite set of descriptors, with or without memory to spare, and       *)
(* about CmdSpeedtest, where the pings come first and the threads wait for   *)
(* the log.                                                                  *)
(*                                                                           *)
(* The invariant of a round adds to the properties what they rest on: where  *)
(* a thread's connection and descriptor are at each point of the thread      *)
(* (InThread), and which threads are known to have ended at each point of    *)
(* the main thread, garbage handles included (Waited).  While the main       *)
(* thread is in the pings their one connection has the invariant of Tcp and  *)
(* nothing of a round is there (PingInv).  The log rests on who is inside    *)
(* print_log (LogInv): nobody but the holder of the mutex, and of the        *)
(* threads only one that has not got to its http_init (LogsFirst).           *)
(*                                                                           *)
(* What ForkJoin promises rests on the sizes of the parts (Parts), on how    *)
(* many blocks of its part a thread has made that has not failed (Tally),    *)
(* and on what a sum over the threads is: that it grows by what one thread   *)
(* adds, and that the parts make up the file (SumOfAdds, SumOfParts).        *)
(*****************************************************************************)
EXTENDS CmdSpeedtest, TcpProofs, FiniteSetTheorems, SequenceTheorems

------------------------------------------------------------------------------
(* a round of threads *)

\* A thread connects only between its http_init and its first transfer, and
\* the descriptor of one without a connection is INVALID_SOCKET.
InThread == \A t \in Conn :
  thread[t] \in {"connect", "request", "transfer", "close"} =>
    /\ stage[t] # "up" => fd[t] = NoFd
    /\ stage[t] = "connect" => thread[t] = "connect"
    /\ stage[t] = "up" => thread[t] # "connect"

\* What the main thread knows: the threads not yet created, and those it has
\* waited for.  A handle that is garbage belongs to no thread.
Waited ==
  /\ intervals = IF main = "idle" THEN "none" ELSE "there"
  /\ \A t \in Conn :
       /\ thread[t] \in Live => t \in args /\ main \in {"fork", "join", "crashed"}
       /\ main = "fork" /\ t >= i => thread[t] = "none"
       /\ main = "join" /\ t < i => thread[t] \notin Live
       /\ main \in {"fork", "join"} /\ t \notin handles => thread[t] = "none"
       /\ t \in args => thread[t] \in Live \cup {"none"}
       /\ t \in args /\ ~Scarce => thread[t] \in Live

SInv == TypeOK /\ OwnSocket /\ NoneLost /\ InThread /\ Waited

\* base_size with the remainder is a part of the file.
LEMMA PartRange == ASSUME NEW t \in Conn PROVE Part(t) \in 0..FileSize
<1> DEFINE q == FileSize \div ThreadCount
           r == FileSize % ThreadCount
<1>1. q \in Nat /\ r \in 0..ThreadCount-1 /\ FileSize = ThreadCount * q + r
  BY SpeedtestAssumption
<1>2. ThreadCount * q >= q
  BY <1>1, SpeedtestAssumption
<1> HIDE DEF q, r
<1>3. q + r \in 0..FileSize /\ q \in 0..FileSize
  BY <1>1, <1>2, SpeedtestAssumption
<1> QED
  BY <1>3 DEF Part, q, r

\* The number of blocks of a part, and what an int makes of it.
LEMMA BlocksNat == \A mb \in Nat : Blocks(mb) \in Nat /\ ToInt(Blocks(mb)) \in Int
<1> TAKE mb \in Nat
<1>1. Blocks(mb) \in Nat
  BY SpeedtestAssumption DEF Blocks
<1> DEFINE n == Blocks(mb)
<1> HIDE DEF n
<1>2. n % IntW \in Int
  BY <1>1, SpeedtestAssumption DEF n
<1> QED
  BY <1>1, <1>2, SpeedtestAssumption DEF ToInt, n

\* The invariant holds when the program starts.
LEMMA InitSInv == Init => SInv
  BY TcpAssumption, SpeedtestAssumption
  DEF Init, TcpInit, SInv, TypeOK, TcpTypeOK, OwnSocket, NoneLost, InThread,
      Waited, Stage, Live

\* Steps of the main thread leave the connections alone.
LEMMA MainTypes == SInv /\ Main => TypeOK' /\ OwnSocket' /\ NoneLost' /\ InThread'
<1> SUFFICES ASSUME SInv, Main
             PROVE  TypeOK' /\ OwnSocket' /\ NoneLost' /\ InThread'
  OBVIOUS
<1>1. UNCHANGED tcpVars
  BY DEF Main, Begin, BeginFails, Fork, ForkFails, ForkCrashes, Join,
         JoinGarbage, FreeArrays
<1>2. TcpTypeOK' /\ OwnSocket' /\ NoneLost'
  BY <1>1 DEF SInv, TypeOK, TcpTypeOK, OwnSocket, NoneLost, Current, tcpVars
<1>3. ASSUME NEW last \in {ThreadCount - 1}, NEW next,
             i \in Conn, Advance(last, next)
      PROVE  i' \in Conn
  BY <1>3, SpeedtestAssumption DEF Advance
<1>4. TypeOK'
  <2> USE SpeedtestAssumption DEF SInv, TypeOK, Live, tcpVars, threadVars
  <2>1. CASE Begin
    BY <1>1, <1>2, <2>1 DEF Begin, Waited
  <2>2. CASE BeginFails
    BY <1>1, <1>2, <2>2 DEF BeginFails
  <2>3. CASE Fork
    <3>1. i' \in Conn /\ main' \in {"fork", "join"}
      BY <1>3, <2>3 DEF Fork, Advance
    <3>2. size' \in [Conn -> 0..FileSize]
      BY <2>3, PartRange DEF Fork
    <3>3. /\ thread' \in [Conn -> Live \cup {"none", "ended", "joined"}]
          /\ \A t \in Conn : thread'[t] # thread[t] => thread[t] = "none"
      BY <2>3 DEF Fork, Waited
    <3>4. \A t \in Conn : stage'[t] # "idle" =>
            thread'[t] \in {"connect", "request", "transfer", "close"}
      BY <1>1, <3>3
    <3> QED
      BY <1>1, <1>2, <2>3, <3>1, <3>2, <3>3, <3>4 DEF Fork
  <2>4. CASE ForkFails
    <3>1. i' \in Conn /\ main' \in {"fork", "join"}
      BY <1>3, <2>4 DEF ForkFails, Advance
    <3>2. size' \in [Conn -> 0..FileSize] /\ moved' \in [Conn -> Int]
      BY <2>4, PartRange DEF ForkFails
    <3> QED
      BY <1>1, <1>2, <2>4, <3>1, <3>2 DEF ForkFails
  <2>5. CASE ForkCrashes
    BY <1>1, <1>2, <2>5 DEF ForkCrashes
  <2>6. CASE Join
    BY <1>1, <1>2, <1>3, <2>6 DEF Join, Advance, LastToJoin
  <2>7. CASE JoinGarbage
    BY <1>1, <1>2, <1>3, <2>7 DEF JoinGarbage, Advance, LastToJoin
  <2>8. CASE FreeArrays
    BY <1>1, <1>2, <2>8 DEF FreeArrays
  <2> QED
    BY <2>1, <2>2, <2>3, <2>4, <2>5, <2>6, <2>7, <2>8 DEF Main
<1>5. InThread'
  BY <1>1
  DEF InThread, SInv, TypeOK, Main, Begin, BeginFails, Fork, ForkFails,
      ForkCrashes, Join, JoinGarbage, FreeArrays, tcpVars, threadVars
<1> QED
  BY <1>2, <1>4, <1>5

\* Steps of the main thread keep what it knows.
LEMMA MainWaited == SInv /\ Main => Waited'
<1> SUFFICES ASSUME SInv, Main PROVE Waited'
  OBVIOUS
<1> USE SpeedtestAssumption DEF SInv, TypeOK, Waited, Live
<1>1. CASE Begin
  BY <1>1 DEF Begin
<1>2. CASE BeginFails
  BY <1>2 DEF BeginFails, threadVars
<1>3. CASE Fork
  BY <1>3 DEF Fork, Advance
<1>4. CASE ForkFails
  BY <1>4 DEF ForkFails, Advance
<1>5. CASE ForkCrashes
  BY <1>5 DEF ForkCrashes, threadVars
<1>6. CASE Join
  <2>1. PICK t \in Conn :
          /\ Joinable(i) => t = i
          /\ thread[t] = "ended"
          /\ thread' = [thread EXCEPT ![t] = "joined"]
    BY <1>6 DEF Join
  <2>2. \A u \in Conn : thread'[u] \in Live <=> thread[u] \in Live
    BY <2>1
  <2>3. \A u \in Conn : thread[u] = "none" => thread'[u] = "none"
    BY <2>1
  <2>4. thread[i] \notin Live
    BY <2>1, <1>6 DEF Join, Joinable
  <2>5. /\ main = "join" /\ UNCHANGED <<intervals, handles, args>>
        /\ \/ i = ThreadCount - 1 /\ main' = "free" /\ i' = 0
           \/ i' = i + 1 /\ main' = "join"
    BY <1>6 DEF Join, Advance, LastToJoin
  <2>6. i' \in Int /\ \A u \in Conn : u < i' => i' = 0 \/ u < i \/ u = i
    BY <2>5
  <2> HIDE DEF Live
  <2>7. main' = "join" => \A u \in Conn : u < i' => thread'[u] \notin Live
    BY <2>2, <2>4, <2>5, <2>6
  <2>8. main' = "free" => \A u \in Conn : thread'[u] \notin Live
    BY <2>2, <2>4, <2>5
  <2> QED
    BY <2>2, <2>3, <2>5, <2>7, <2>8
<1>7. CASE JoinGarbage
  <2>1. /\ main = "join" /\ UNCHANGED <<intervals, handles, args, thread>>
        /\ \/ i = ThreadCount - 1 /\ main' = "free" /\ i' = 0
           \/ i' = i + 1 /\ main' = "join"
           \/ main' = "crashed"
        /\ thread[i] \notin Live
    BY <1>7 DEF JoinGarbage, Joinable, Advance, LastToJoin, threadVars
  <2>2. \A u \in Conn : u < i' /\ i' = i + 1 => u < i \/ u = i
    OBVIOUS
  <2>3. i = ThreadCount - 1 => \A u \in Conn : u < i \/ u = i
    OBVIOUS
  <2> HIDE DEF Live
  <2>4. \A u \in Conn : (main' = "join" /\ u < i') \/ main' = "free" =>
          thread[u] \notin Live
    BY <2>1, <2>2, <2>3
  <2> QED
    BY <2>1, <2>4
<1>8. CASE FreeArrays
  BY <1>8 DEF FreeArrays, threadVars
<1> QED
  BY <1>1, <1>2, <1>3, <1>4, <1>5, <1>6, <1>7, <1>8 DEF Main

\* Steps of a thread keep the connections on sockets of their own.
LEMMA ThreadConnections ==
  ASSUME SInv, NEW t \in Conn, Thread(t)
  PROVE  TcpTypeOK' /\ OwnSocket' /\ NoneLost' /\ InThread'
<1> DEFINE Goal == TcpTypeOK /\ OwnSocket /\ NoneLost /\ InThread
<1>t. /\ TcpTypeOK
      /\ thread \in [Conn -> Live \cup {"none", "ended", "joined"}]
      /\ \A c \in Conn :
           stage[c] # "idle" => thread[c] \in {"connect", "request", "transfer", "close"}
  BY DEF SInv, TypeOK
<1> USE <1>t, TcpAssumption, SpeedtestAssumption
<1>1. CASE InitOk(t)
  BY <1>1 DEF InitOk, At, GoTo, FreshFd, SInv, TcpTypeOK, OwnSocket,
              NoneLost, Current, InThread, Stage, Live
<1>2. CASE http_connect(t)
  <2>1. Connecting(t) /\ thread[t] = "connect"
    BY <1>2 DEF http_connect, At
  <2>2. TcpTypeOK' /\ OwnSocket'
    BY <2>1, ConnectingTypes, ConnectingOwnSocket DEF SInv
  <2>3. stage[t] \in {"idle", "connect"}
    BY <2>1 DEF SInv, TcpTypeOK, InThread, Stage
  <2>4. NoneLost' /\ InThread'
    <3> USE <1>2, <2>1, <2>2, <2>3
        DEF SInv, TcpTypeOK, NoneLost, InThread, Current, Stage, Live,
            http_connect, GoTo
    <3>1. CASE Unresolved(t) \/ SocketFails(t)
      BY <3>1 DEF Unresolved, SocketFails, tcpVars
    <3>2. ASSUME NEW f \in Fd, ConnectRefused(t, f)
          PROVE  NoneLost' /\ InThread'
      <4>1. owner' = owner /\ UNCHANGED <<fd, ssl, sock, stage>>
        BY <3>2 DEF ConnectRefused, Closed, Free
      <4>2. NoneLost'
        BY <4>1
      <4>3. InThread'
        BY <4>1
      <4> QED
        BY <4>2, <4>3
    <3>3. ASSUME NEW f \in Fd, ConnectStarts(t, f)
          PROVE  NoneLost' /\ InThread'
      BY <3>3 DEF ConnectStarts, Free
    <3>4. ASSUME NEW f \in Fd, ConnectedAtOnce(t, f)
          PROVE  NoneLost' /\ InThread'
      BY <3>4 DEF ConnectedAtOnce, Connected, Free
    <3>5. CASE SelectReady(t)
      BY <3>5 DEF SelectReady, Connected, OwnSocket
    <3>6. CASE SelectFails(t)
      <4>1. /\ owner' = Closed(sock[t])
            /\ sock' = [sock EXCEPT ![t] = NoFd]
            /\ stage' = [stage EXCEPT ![t] = "idle"]
            /\ UNCHANGED <<fd, ssl>>
        BY <3>6 DEF SelectFails
      <4>2. NoneLost'
        BY <4>1 DEF Closed
      <4>3. InThread'
        BY <4>1
      <4> QED
        BY <4>2, <4>3
    <3> QED
      BY <3>1, <3>2, <3>3, <3>4, <3>5, <3>6
      DEF Connecting, TlsStarts, TlsFails, HandshakeDone, HandshakeWants,
          HandshakeReady, HandshakeFails
  <2> QED
    BY <2>2, <2>4
<1>3. CASE http_close(t)
  <2>1. /\ thread[t] = "close" /\ tcp_close(t)
        /\ thread' = [thread EXCEPT ![t] = "write"]
    BY <1>3 DEF http_close, At, GoTo
  <2>2. stage[t] \in {"idle", "up"}
    BY <2>1 DEF SInv, TcpTypeOK, InThread, Stage
  <2>3. fd[t] \in Fd => stage[t] = "up" /\ owner[fd[t]] = t
    BY <2>1, <2>2 DEF SInv, InThread, OwnSocket, Current, TcpTypeOK
  <2>4. TcpTypeOK'
    BY <2>1, <2>2 DEF tcp_close, Closed, SInv, TcpTypeOK, Stage
  <2>5. OwnSocket'
    BY <2>1, <2>3 DEF tcp_close, Closed, SInv, TcpTypeOK, OwnSocket, Current
  <2>6. NoneLost'
    BY <2>1, <2>2, <2>3
    DEF tcp_close, Closed, SInv, TcpTypeOK, NoneLost, Current
  <2>7. InThread'
    BY <2>1 DEF tcp_close, SInv, TcpTypeOK, InThread, Live
  <2> QED
    BY <2>4, <2>5, <2>6, <2>7
<1>4. CASE \/ InitFails(t) \/ Request(t) \/ Transfer(t) \/ TransferDone(t)
           \/ WriteInterval(t) \/ FreeArg(t)
  <2>1. UNCHANGED tcpVars
    BY <1>4 DEF InitFails, Request, Transfer, TransferDone, WriteInterval, FreeArg
  <2>2. TcpTypeOK' /\ OwnSocket' /\ NoneLost'
    BY <2>1 DEF SInv, TcpTypeOK, OwnSocket, NoneLost, Current, tcpVars
  <2>3. InThread'
    BY <1>4, <2>1
    DEF InitFails, Request, Transfer, TransferDone, WriteInterval, FreeArg,
        At, GoTo, SInv, InThread, tcpVars, Live
  <2> QED
    BY <2>2, <2>3
<1> QED
  BY <1>1, <1>2, <1>3, <1>4 DEF Thread

\* Steps of a thread keep the types.
LEMMA ThreadTypes ==
  ASSUME SInv, NEW t \in Conn, Thread(t)
  PROVE  TypeOK'
<1>1. TcpTypeOK'
  BY ThreadConnections
<1> USE SpeedtestAssumption DEF SInv, TypeOK, Live, At, GoTo, mainVars, tcpVars
<1>2. CASE InitOk(t)
  BY <1>1, <1>2 DEF InitOk
<1>3. CASE http_connect(t)
  <2>1. \A u \in Conn \ {t} : stage'[u] = stage[u]
    BY <1>3
    DEF http_connect, TcpTypeOK, Connecting, Unresolved, SocketFails,
        ConnectRefused, ConnectStarts, ConnectedAtOnce, Connected,
        SelectReady, SelectFails, TlsStarts, TlsFails, HandshakeDone, HandshakeWants, HandshakeReady,
        HandshakeFails, GiveUp
  <2> QED
    BY <1>1, <1>3, <2>1 DEF http_connect
<1>4. CASE http_close(t)
  <2>1. /\ UNCHANGED <<main, i, rounds, intervals, handles, args, size, left, moved>>
        /\ thread' = [thread EXCEPT ![t] = "write"]
        /\ stage' = [stage EXCEPT ![t] = "idle"]
    BY <1>4 DEF http_close, tcp_close
  <2>2. \A u \in Conn : stage'[u] # "idle" =>
          thread'[u] \in {"connect", "request", "transfer", "close"}
    BY <2>1 DEF TcpTypeOK
  <2> QED
    BY <1>1, <2>1, <2>2
<1>5. CASE InitFails(t)
  <2>1. thread' \in [Conn -> Live \cup {"none", "ended", "joined"}] /\ moved' \in [Conn -> Int]
    BY <1>5 DEF InitFails
  <2>2. stage[t] = "idle" /\ UNCHANGED stage
    BY <1>5 DEF InitFails
  <2>3. \A u \in Conn : stage'[u] # "idle" =>
          thread'[u] \in {"connect", "request", "transfer", "close"}
    BY <1>5, <2>2 DEF InitFails
  <2> QED
    BY <1>1, <1>5, <2>1, <2>3 DEF InitFails
<1>6. CASE Request(t)
  <2>1. size[t] \in Nat
    OBVIOUS
  <2>2. PICK total \in Int : total = ToInt(Blocks(size[t]))
    BY <2>1, BlocksNat
  <2>3. /\ left' = [left EXCEPT ![t] = IF total > 0 THEN total ELSE 0]
        /\ moved' = [moved EXCEPT ![t] = IF total = Blocks(size[t]) THEN @ ELSE -1]
    BY <1>6, <2>2 DEF Request
  <2>4. left' \in [Conn -> Nat] /\ moved' \in [Conn -> Int]
    BY <2>2, <2>3
  <2> QED
    BY <1>1, <1>6, <2>4 DEF Request
<1>7. CASE Transfer(t)
  <2>a. PICK x \in Nat, y \in Int : x = left[t] /\ y = moved[t]
    OBVIOUS
  <2>b. x > 0
    BY <1>7, <2>a DEF Transfer
  <2>c. PICK l \in Nat, m \in Int : l = x - 1 /\ m = y + 1
    <3>1. x - 1 \in Nat /\ y + 1 \in Int
      BY <2>b
    <3> QED
      BY <3>1
  <2>0. l = left[t] - 1 /\ m = moved[t] + 1
    BY <2>a, <2>c
  <2>1. /\ left' = [left EXCEPT ![t] = l]
        /\ \/ moved' = [moved EXCEPT ![t] = m]
           \/ moved' = [moved EXCEPT ![t] = -1]
    BY <1>7, <2>0 DEF Transfer
  <2>2. left' \in [Conn -> Nat] /\ moved' \in [Conn -> Int]
    BY <2>1, -1 \in Int
  <2> QED
    BY <1>1, <1>7, <2>2 DEF Transfer
<1>8. CASE TransferDone(t)
  BY <1>1, <1>8, ThreadConnections DEF TransferDone
<1>9. CASE WriteInterval(t)
  BY <1>1, <1>9 DEF WriteInterval
<1>10. CASE FreeArg(t)
  BY <1>1, <1>10 DEF FreeArg
<1> QED
  BY <1>2, <1>3, <1>4, <1>5, <1>6, <1>7, <1>8, <1>9, <1>10 DEF Thread

\* Steps of a thread keep what the main thread knows: a thread stays alive
\* until it has freed its argument, and no other thread comes to life.
LEMMA ThreadWaited ==
  ASSUME SInv, NEW t \in Conn, Thread(t)
  PROVE  Waited'
<1>1. UNCHANGED mainVars
  BY DEF Thread, InitOk, InitFails, http_connect, Request, Transfer,
         TransferDone, http_close, WriteInterval, FreeArg
<1>2. /\ \A u \in Conn : thread[u] \notin Live => thread'[u] = thread[u]
      /\ args' \subseteq args
      /\ \A u \in Conn : thread[u] \in Live /\ u \in args =>
           (thread'[u] \in Live <=> u \in args')
  <2> USE DEF SInv, TypeOK, At, GoTo, Live
  <2>1. CASE FreeArg(t)
    BY <2>1 DEF FreeArg
  <2>2. CASE InitOk(t) \/ InitFails(t) \/ http_connect(t)
    BY <2>2 DEF InitOk, InitFails, http_connect
  <2>3. CASE Request(t) \/ Transfer(t) \/ TransferDone(t)
    BY <2>3 DEF Request, Transfer, TransferDone
  <2>4. CASE http_close(t) \/ WriteInterval(t)
    BY <2>4 DEF http_close, WriteInterval
  <2> QED
    BY <2>1, <2>2, <2>3, <2>4 DEF Thread
<1>3. "none" \notin Live
  BY DEF Live
<1>4. SUFFICES ASSUME NEW u \in Conn
      PROVE  /\ thread'[u] \in Live => u \in args' /\ main \in {"fork", "join", "crashed"}
             /\ main = "fork" /\ u >= i => thread'[u] = "none"
             /\ main = "join" /\ u < i => thread'[u] \notin Live
             /\ main \in {"fork", "join"} /\ u \notin handles => thread'[u] = "none"
             /\ u \in args' => thread'[u] \in Live \cup {"none"}
             /\ u \in args' /\ ~Scarce => thread'[u] \in Live
  BY <1>1 DEF Waited, SInv, mainVars
<1>5. thread[u] \in Live => u \in args
  BY DEF SInv, Waited
<1>6. CASE thread[u] \in Live
  BY <1>2, <1>3, <1>5, <1>6 DEF SInv, Waited
<1>7. CASE thread[u] \notin Live
  BY <1>2, <1>3, <1>7 DEF SInv, Waited
<1> QED
  BY <1>6, <1>7

\* Every step keeps the invariant.
LEMMA StepSInv == SInv /\ [Next]_vars => SInv'
<1> SUFFICES ASSUME SInv, [Next]_vars PROVE SInv'
  OBVIOUS
<1>1. CASE Main
  BY <1>1, MainTypes, MainWaited DEF SInv
<1>2. ASSUME NEW t \in Conn, Thread(t) PROVE SInv'
  BY <1>2, ThreadConnections, ThreadTypes, ThreadWaited DEF SInv
<1>3. CASE UNCHANGED vars
  BY <1>3 DEF vars, SInv, TypeOK, TcpTypeOK, OwnSocket, NoneLost, Current,
              InThread, Waited
<1> QED
  BY <1>1, <1>2, <1>3 DEF Next, Done

\* The whole invariant holds in every reachable state.
THEOREM SpeedtestInvariant == Spec => []SInv
  BY InitSInv, StepSInv, PTL DEF Spec

\* Type correctness.
THEOREM SpeedtestTypes == Spec => []TypeOK
  BY SpeedtestInvariant, PTL DEF SInv

\* No thread ever works on, or closes, a socket of another thread.
THEOREM SpeedtestOwnSocket == Spec => []TransferOnOwnSocket
<1>1. SInv => TransferOnOwnSocket
  BY TcpAssumption
  DEF SInv, TypeOK, TcpTypeOK, OwnSocket, Current, InThread, TransferOnOwnSocket
<1> QED
  BY SpeedtestInvariant, <1>1, PTL

\* No thread writes a result or reads an argument that has been freed.
THEOREM SpeedtestResultsWritable == Spec => []ResultsWritable
<1>1. SInv => ResultsWritable
  BY DEF SInv, Waited, ResultsWritable
<1> QED
  BY SpeedtestInvariant, <1>1, PTL

\* Nothing of a round survives it but the arguments of threads that could not
\* be created.
THEOREM SpeedtestLeavesNothing == Spec => []RoundLeavesNothing
<1>1. SInv => RoundLeavesNothing
  BY TcpAssumption
  DEF SInv, TypeOK, TcpTypeOK, NoneLost, Waited, RoundLeavesNothing, Live
<1> QED
  BY SpeedtestInvariant, <1>1, PTL

------------------------------------------------------------------------------
(* the command *)

\* A ping's connection belongs to the connect, the read or the close of one
\* call of http_ping_once, and its descriptor is as new without one.
PingInv ==
  /\ IInv
  /\ i = 0 /\ rounds \in 0..MaxRounds
  /\ intervals = "none" /\ handles = {} /\ args = {}
  /\ size = [t \in Conn |-> 0]
  /\ thread = [t \in Conn |-> "none"]
  /\ left = [t \in Conn |-> 0]
  /\ moved = [t \in Conn |-> 0]
  /\ pc \in {"init", "connect", "read", "close", "stat", "done"}
  /\ \A c \in Conn : stage[c] # "idle" => c = P!me
  /\ stage[P!me] = "connect" => pc = "connect"
  /\ stage[P!me] = "up" => pc \in {"read", "close"}
  /\ pc \in {"connect", "read", "close"} /\ stage[P!me] # "up" => fd[P!me] = NoFd

Inside == {"time", "level", "message", "unlock"}

\* Who is inside print_log has the mutex, and what the file has got of a line
\* is what its holder has written.
LogInv ==
  /\ mutex \in Writer \cup {Nobody}
  /\ at \in [Writer -> Inside \cup {"call", "back"}]
  /\ \A w \in Writer : at[w] \in Inside => mutex = w
  /\ mutex \in Writer /\ at[mutex] = "level" => line = <<<<mutex, "time">>>>
  /\ mutex \in Writer /\ at[mutex] = "message" =>
       line = <<<<mutex, "time">>, <<mutex, "level">>>>
  /\ ~ (mutex \in Writer /\ at[mutex] \in {"level", "message"}) => line = << >>

\* A thread writes its line before anything else.
LogsFirst == \A t \in Conn : at[t] \in Inside => thread[t] = "init"

CInv == /\ main = "ping" => PingInv
        /\ main # "ping" => SInv
        /\ LogInv
        /\ LogsFirst

------------------------------------------------------------------------------

\* The connection of the pings is one of the connections.
LEMMA MeInConn == P!me \in Conn
<1>1. 0 \in Conn
  BY SpeedtestAssumption
<1> QED
  BY <1>1 DEF P!me

\* One or two rounds remain to be made.
LEMMA RoundsToMake == speedtest_get_config => rounds \in 0..MaxRounds
<1> SUFFICES ASSUME NEW options \in SUBSET (Transfers \cup {"ping"}),
                    NEW asked, asked \in SUBSET Transfers,
                    rounds = MaxRounds - Cardinality(asked)
             PROVE  rounds \in 0..MaxRounds
  BY DEF speedtest_get_config
<1>1. Cardinality({}) = 0
  BY FS_EmptySet
<1>2. Cardinality({"download"}) = 1 /\ Cardinality({"upload"}) = 1
  BY FS_Singleton
<1>3. Cardinality({"download", "upload"}) = 2
  <2>1. IsFiniteSet({"download"}) /\ "upload" \notin {"download"}
    BY FS_Singleton
  <2>2. {"download"} \cup {"upload"} = {"download", "upload"}
    OBVIOUS
  <2>3. Cardinality({"download"} \cup {"upload"}) = Cardinality({"download"}) + 1
    BY <2>1, FS_AddElement
  <2> QED
    BY <1>2, <2>2, <2>3
<1>4. \/ asked = {} \/ asked = {"download"} \/ asked = {"upload"}
      \/ asked = {"download", "upload"}
  BY DEF Transfers
<1>5. MaxRounds = 2
  BY CmdAssumption
<1>6. Cardinality(asked) \in 0..2
  BY <1>1, <1>2, <1>3, <1>4
<1> QED
  BY <1>5, <1>6

\* The invariant holds when the command starts.
LEMMA InitCInv == CmdInit => CInv
<1> SUFFICES ASSUME CmdInit PROVE CInv
  OBVIOUS
<1>1. main \in {"ping", "idle"} /\ rounds \in 0..MaxRounds
  BY RoundsToMake DEF CmdInit, speedtest_get_config
<1>2. IInv
  BY InitIInv DEF CmdInit
<1>3. main = "ping" => PingInv
  BY <1>1, <1>2, MeInConn DEF CmdInit, TcpInit, PingInv, P!Fresh
<1>4. main # "ping" => SInv
  BY <1>1, <1>2, TcpAssumption, SpeedtestAssumption
  DEF CmdInit, TcpInit, IInv, SInv, TypeOK, InThread, Waited, Live
<1>5. LogInv /\ LogsFirst
  BY CmdAssumption DEF CmdInit, LogInit, LogInv, LogsFirst, Inside
<1> QED
  BY <1>3, <1>4, <1>5 DEF CInv

------------------------------------------------------------------------------
(* the pings *)

\* http_connect is the same for the pings.
LEMMA PingConnecting == ASSUME P!Connecting(P!me) PROVE Connecting(P!me)
  BY DEF P!Connecting, P!Unresolved, P!SocketFails, P!ConnectRefused,
         P!ConnectStarts, P!ConnectedAtOnce, P!Connected, P!SelectReady,
         P!SelectFails, P!TlsStarts, P!TlsFails, P!HandshakeDone,
         P!HandshakeWants, P!HandshakeReady, P!HandshakeFails, P!GiveUp,
         P!Closed, P!Free, P!tcpVars,
         Connecting, Unresolved, SocketFails, ConnectRefused,
         ConnectStarts, ConnectedAtOnce, Connected, SelectReady,
         SelectFails, TlsStarts, TlsFails, HandshakeDone,
         HandshakeWants, HandshakeReady, HandshakeFails, GiveUp,
         Closed, Free, tcpVars

\* A step of http_connect is one of its connection alone, which gets a
\* descriptor when it is up and not before.
LEMMA ConnectingAlone ==
  ASSUME TcpTypeOK, NEW c \in Conn, Connecting(c), stage[c] \in {"idle", "connect"}
  PROVE  /\ \A d \in Conn \ {c} : stage'[d] = stage[d]
         /\ stage'[c] \in {"idle", "connect", "up"}
         /\ stage'[c] # "up" => fd'[c] = fd[c]
  BY SpeedtestAssumption
  DEF TcpTypeOK, Connecting, Unresolved, SocketFails, ConnectRefused,
      ConnectStarts, ConnectedAtOnce, Connected, SelectReady, SelectFails,
      TlsStarts, TlsFails, HandshakeDone, HandshakeWants, HandshakeReady,
      HandshakeFails, tcpVars

\* A step of the pings keeps their invariant.
LEMMA PingKeeps ==
  ASSUME PingInv, P!do_ping_test, UNCHANGED <<mainVars, threadVars>>
  PROVE  PingInv'
<1> DEFINE me == P!me
<1>1. me \in Conn
  BY MeInConn
<1> HIDE DEF me
<1>2. /\ IInv'
      /\ pc' \in {"init", "connect", "read", "close", "stat", "done"}
      /\ \A c \in Conn : stage'[c] # "idle" => c = me
      /\ stage'[me] = "connect" => pc' = "connect"
      /\ stage'[me] = "up" => pc' \in {"read", "close"}
      /\ pc' \in {"connect", "read", "close"} /\ stage'[me] # "up" => fd'[me] = NoFd
  <2>0. /\ stage[me] \in {"idle", "connect", "up"}
        /\ stage[me] # "idle" => pc \in {"connect", "read", "close"}
        /\ stage[me] = "connect" => pc = "connect"
        /\ stage[me] = "up" => pc \in {"read", "close"}
        /\ pc \in {"connect", "read", "close"} /\ stage[me] # "up" => fd[me] = NoFd
        /\ \A c \in Conn : stage[c] # "idle" => c = me
    BY <1>1, SpeedtestAssumption DEF me, PingInv, IInv, TcpTypeOK, Stage
  <2>1. CASE P!InitOk
    <3>1. /\ pc = "init" /\ pc' = "connect"
          /\ fd' = [fd EXCEPT ![me] = NoFd]
          /\ ssl' = [ssl EXCEPT ![me] = NoFd]
          /\ UNCHANGED <<owner, mode, sock, stage>>
      BY <2>1 DEF P!InitOk, me
    <3>2. stage[me] = "idle"
      BY <2>0, <3>1
    <3>3. IInv'
      BY <1>1, <3>1, <3>2, TcpAssumption
      DEF PingInv, IInv, TcpTypeOK, OwnSocket, NoneLost, SslFollowsSocket,
          BlockingInUse, Current, Stage
    <3> QED
      BY <1>1, <2>0, <3>1, <3>2, <3>3 DEF PingInv, IInv, TcpTypeOK
  <2>2. CASE P!Connect \/ P!ConnectOk \/ P!ConnectFails
    <3>1. /\ pc = "connect" /\ Connecting(me)
          /\ \/ pc' = "connect" /\ stage'[me] \notin {"up", "idle"}
             \/ pc' = "read" /\ stage'[me] = "up"
             \/ pc' = "close" /\ stage'[me] = "idle"
      BY <2>2, PingConnecting DEF P!Connect, P!ConnectOk, P!ConnectFails, me
    <3>2. IInv'
      BY <1>1, <3>1, ConnectingTypes, ConnectingOwnSocket, ConnectingKeeps
      DEF PingInv, IInv
    <3>3. /\ \A d \in Conn \ {me} : stage'[d] = stage[d]
          /\ stage'[me] \in {"idle", "connect", "up"}
          /\ stage'[me] # "up" => fd'[me] = fd[me]
      BY <1>1, <2>0, <3>1, ConnectingAlone DEF PingInv, IInv
    <3> QED
      BY <2>0, <3>1, <3>2, <3>3
  <2>3. CASE P!http_close
    <3>1. /\ pc = "close" /\ pc' = "stat"
          /\ ssl' = [ssl EXCEPT ![me] = NoFd]
          /\ owner' = Closed(fd[me])
          /\ stage' = [stage EXCEPT ![me] = "idle"]
          /\ UNCHANGED <<mode, fd, sock>>
      BY <2>3 DEF P!http_close, P!tcp_close, P!Closed, Closed, me
    <3>2. (stage[me] = "idle" /\ fd[me] = NoFd) \/ stage[me] = "up"
      BY <2>0, <3>1
    <3>3. IInv'
      BY <1>1, <3>1, <3>2, TcpAssumption
      DEF PingInv, Closed, IInv, TcpTypeOK, OwnSocket, NoneLost,
          SslFollowsSocket, BlockingInUse, Current, Stage
    <3> QED
      BY <1>1, <2>0, <3>1, <3>3 DEF PingInv, IInv, TcpTypeOK
  <2>4. CASE \/ P!InitFails \/ (\E r \in Rtts : P!ReadOk(r)) \/ P!ReadFails
             \/ P!Again \/ P!Record
    <3>1. /\ UNCHANGED tcpVars
          /\ \/ pc \in {"init", "stat"} /\ pc' \in {"init", "stat", "done"}
             \/ pc = "read" /\ pc' = "close"
      BY <2>4 DEF P!InitFails, P!ReadOk, P!ReadFails, P!Again, P!Record,
                  P!tcpVars, tcpVars
    <3>2. IInv'
      BY <3>1 DEF PingInv, tcpVars, IInv, TcpTypeOK, OwnSocket, NoneLost,
                  SslFollowsSocket, BlockingInUse, Current
    <3> QED
      BY <2>0, <3>1, <3>2 DEF tcpVars
  <2> QED
    BY <2>1, <2>2, <2>3, <2>4 DEF P!do_ping_test, P!http_ping_once
<1> QED
  BY <1>2 DEF PingInv, mainVars, threadVars, me

\* What the pings leave is a state to begin a round in.
LEMMA PingLeaves == ASSUME PingInv, ReportPings PROVE SInv'
<1> DEFINE me == P!me
<1>1. me \in Conn
  BY MeInConn
<1>2. /\ pc = "done" /\ main' = "idle"
      /\ fd' = [fd EXCEPT ![me] = NoFd]
      /\ UNCHANGED <<owner, mode, ssl, sock, stage, i, rounds, intervals, handles,
                     args, size, thread, left, moved>>
  BY DEF ReportPings, threadVars
<1> HIDE DEF me
<1>3. \A c \in Conn : stage[c] = "idle"
  BY <1>1, <1>2, SpeedtestAssumption DEF PingInv, IInv, TcpTypeOK, Stage, me
<1>4. TcpTypeOK' /\ OwnSocket' /\ NoneLost'
  BY <1>1, <1>2, <1>3, TcpAssumption
  DEF PingInv, IInv, TcpTypeOK, OwnSocket, NoneLost, Current
<1>5. TypeOK'
  BY <1>2, <1>3, <1>4, SpeedtestAssumption DEF PingInv, TypeOK
<1>6. InThread' /\ Waited'
  BY <1>2, SpeedtestAssumption DEF PingInv, InThread, Waited, Live
<1> QED
  BY <1>4, <1>5, <1>6 DEF SInv

------------------------------------------------------------------------------
(* the log *)

\* What Append makes of a sequence of one.
LEMMA AppendToOne ==
  ASSUME NEW a, NEW b
  PROVE  Append(<<a>>, b) = <<a, b>>
<1> DEFINE S == {a, b}
           s == Append(<<a>>, b)
           t == <<a, b>>
<1>1. s \in Seq(S) /\ Len(s) = 2 /\ s[1] = a /\ s[2] = b
  OBVIOUS
<1>2. t \in Seq(S) /\ Len(t) = 2 /\ t[1] = a /\ t[2] = b
  OBVIOUS
<1> HIDE DEF s, t
<1>3. \A k \in 1 .. Len(s) : s[k] = t[k]
  BY <1>1, <1>2
<1>4. s = t
  BY <1>1, <1>2, <1>3, SeqEqual
<1> QED
  BY <1>4 DEF s, t

\* A step of print_log keeps who is inside it, and the line.
LEMMA LogKeeps ==
  ASSUME LogInv, NEW w \in Writer, print_log(w)
  PROVE  LogInv'
<1> USE CmdAssumption DEF LogInv, Inside
<1>1. CASE Enter(w)
  BY <1>1 DEF Enter, Lockable
<1>2. CASE Write(w)
  <2>1. /\ mutex = w /\ at[w] \in {"time", "level", "message"}
        /\ UNCHANGED mutex
        /\ at' = [at EXCEPT ![w] = After[@]]
    BY <1>2 DEF Write, After
  <2>2. CASE at[w] = "time"
    BY <1>2, <2>1, <2>2 DEF Write, After
  <2>3. CASE at[w] = "level"
    <3>1. line = <<<<w, "time">>>> /\ at'[w] = "message"
      BY <2>1, <2>3 DEF After
    <3>2. line' = Append(line, <<w, "level">>)
      BY <1>2, <2>3 DEF Write
    <3>3. Append(<<<<w, "time">>>>, <<w, "level">>) = <<<<w, "time">>, <<w, "level">>>>
      BY AppendToOne
    <3>4. line' = <<<<w, "time">>, <<w, "level">>>>
      BY <3>1, <3>2, <3>3
    <3> QED
      BY <2>1, <2>3, <3>1, <3>4
  <2>4. CASE at[w] = "message"
    <3>1. line = <<<<w, "time">>, <<w, "level">>>>
      BY <2>1, <2>4
    <3>2. \A k \in DOMAIN line : line[k][1] = w
      BY <3>1
    <3>3. line' = << >> /\ at'[w] = "unlock"
      BY <1>2, <2>4, <3>2 DEF Write, After
    <3> QED
      BY <2>1, <2>4, <3>3
  <2> QED
    BY <2>1, <2>2, <2>3, <2>4
<1>3. CASE Unlock(w)
  BY <1>3 DEF Unlock
<1> QED
  BY <1>1, <1>2, <1>3 DEF print_log

\* A step of print_log is one of its caller alone.
LEMMA LogAlone ==
  ASSUME LogInv, NEW w \in Writer, print_log(w)
  PROVE  \A v \in Writer \ {w} : at'[v] = at[v]
  BY DEF LogInv, print_log, Enter, Write, Unlock

------------------------------------------------------------------------------

\* Every step keeps the invariant.
LEMMA StepCInv == CInv /\ [CmdNext]_cmdVars => CInv'
<1> SUFFICES ASSUME CInv, [CmdNext]_cmdVars PROVE CInv'
  OBVIOUS
<1>0. /\ Conn \subseteq Writer /\ MainThread \in Writer /\ MainThread \notin Conn
      /\ LogInv /\ LogsFirst
  BY CmdAssumption DEF CInv
<1>1. CASE Ping
  <2>1. /\ main = "ping" /\ P!do_ping_test
        /\ UNCHANGED <<mainVars, threadVars, logVars>>
    BY <1>1 DEF Ping
  <2>2. main' = "ping" /\ PingInv'
    BY <2>1, PingKeeps DEF CInv, mainVars
  <2>3. LogInv' /\ LogsFirst'
    BY <1>0, <2>1 DEF LogInv, LogsFirst, logVars, threadVars
  <2> QED
    BY <2>2, <2>3 DEF CInv
<1>2. CASE LogPings
  <2>1. main = "ping" /\ print_log(MainThread) /\ UNCHANGED <<vars, pingVars>>
    BY <1>2 DEF LogPings
  <2>2. main' = "ping" /\ PingInv'
    BY <2>1
    DEF CInv, PingInv, vars, pingVars, IInv, TcpTypeOK, OwnSocket, NoneLost,
        SslFollowsSocket, BlockingInUse, Current
  <2>3. LogInv' /\ LogsFirst'
    BY <1>0, <2>1, LogKeeps, LogAlone DEF LogsFirst, vars
  <2> QED
    BY <2>2, <2>3 DEF CInv
<1>3. CASE ReportPings
  <2>1. /\ main = "ping" /\ main' = "idle" /\ at[MainThread] = "back"
        /\ at' = [at EXCEPT ![MainThread] = "call"]
        /\ UNCHANGED <<mutex, line, thread>>
    BY <1>3 DEF ReportPings, threadVars
  <2>2. SInv'
    BY <1>3, <2>1, PingLeaves DEF CInv
  <2>3. LogInv'
    BY <1>0, <2>1 DEF LogInv, Inside
  <2>4. LogsFirst'
    BY <1>0, <2>1 DEF LogInv, LogsFirst
  <2> QED
    BY <2>1, <2>2, <2>3, <2>4 DEF CInv
<1>4. CASE BeginRound
  <2>1. main = "idle" /\ main' \in {"idle", "fork"} /\ Main /\ UNCHANGED logVars
    BY <1>4 DEF BeginRound, Begin, BeginFails, Main
  <2>2. SInv'
    BY <2>1, MainTypes, MainWaited DEF CInv, SInv
  <2>3. \A t \in Conn : at[t] \notin Inside
    BY <2>1 DEF CInv, SInv, Waited, Live, LogsFirst
  <2>4. LogInv' /\ LogsFirst'
    BY <1>0, <2>1, <2>3 DEF LogInv, LogsFirst, logVars
  <2> QED
    BY <2>1, <2>2, <2>4 DEF CInv
<1>5. CASE ForkThread
  <2>1. /\ main = "fork" /\ main' \in {"fork", "join"} /\ Main
        /\ at' = [at EXCEPT ![i] = "call"]
        /\ UNCHANGED <<mutex, line>>
    BY <1>5 DEF ForkThread, Fork, ForkFails, Advance, Main
  <2>2. SInv'
    BY <2>1, MainTypes, MainWaited DEF CInv, SInv
  <2>3. i \in Conn /\ thread[i] = "none"
    BY <2>1, SpeedtestAssumption DEF CInv, SInv, TypeOK, Waited
  <2>4. at[i] \notin Inside
    BY <2>3 DEF CInv, LogsFirst
  <2>5. LogInv'
    BY <1>0, <2>1, <2>3, <2>4 DEF LogInv, Inside
  <2>6. \A t \in Conn \ {i} : thread'[t] = thread[t]
    BY <1>5 DEF ForkThread, Fork, ForkFails, CInv, SInv, TypeOK
  <2>7. LogsFirst'
    BY <1>0, <2>1, <2>3, <2>6 DEF LogInv, LogsFirst, Inside
  <2> QED
    BY <2>1, <2>2, <2>5, <2>7 DEF CInv
<1>6. CASE GoOn
  <2>1. main # "ping" /\ main' # "ping" /\ Main /\ UNCHANGED logVars
    BY <1>6 DEF GoOn, ForkCrashes, Join, JoinGarbage, FreeArrays, Advance, Main
  <2>2. SInv'
    BY <2>1, MainTypes, MainWaited DEF CInv, SInv
  <2>3. \A t \in Conn : thread[t] = "init" => thread'[t] = "init"
    BY <1>6 DEF GoOn, ForkCrashes, Join, JoinGarbage, FreeArrays, threadVars,
                CInv, SInv, TypeOK
  <2>4. LogInv' /\ LogsFirst'
    BY <1>0, <2>1, <2>3 DEF LogInv, LogsFirst, logVars
  <2> QED
    BY <2>1, <2>2, <2>4 DEF CInv
<1>7. ASSUME NEW t \in Conn, LogThread(t) PROVE CInv'
  <2>1. thread[t] = "init" /\ print_log(t) /\ UNCHANGED <<vars, pingVars>>
    BY <1>7 DEF LogThread, At
  <2>2. main # "ping" /\ main' # "ping"
    BY <2>1, <1>7 DEF CInv, PingInv, vars
  <2>3. SInv'
    BY <2>1, <2>2
    DEF CInv, vars, SInv, TypeOK, TcpTypeOK, OwnSocket, NoneLost, Current,
        InThread, Waited
  <2>4. LogInv' /\ LogsFirst'
    BY <1>0, <2>1, LogKeeps, LogAlone DEF LogsFirst, vars
  <2> QED
    BY <2>2, <2>3, <2>4 DEF CInv
<1>8. ASSUME NEW t \in Conn, at[t] = "back", Thread(t),
             UNCHANGED <<logVars, pingVars>>
      PROVE  CInv'
  <2>1. /\ UNCHANGED main
        /\ \A u \in Conn \ {t} : thread'[u] = thread[u]
        /\ thread[t] # "none"
    <3>1. main # "ping" => thread \in [Conn -> Live \cup {"none", "ended", "joined"}]
      BY DEF CInv, SInv, TypeOK
    <3>2. main = "ping" => thread = [u \in Conn |-> "none"]
      BY DEF CInv, PingInv
    <3> QED
      BY <1>8, <3>1, <3>2
      DEF Thread, InitOk, InitFails, http_connect, Request, Transfer,
          TransferDone, http_close, WriteInterval, FreeArg, mainVars, At, GoTo
  <2>2. main # "ping"
    BY <2>1 DEF CInv, PingInv
  <2>3. SInv'
    BY <1>8, <2>2, ThreadConnections, ThreadTypes, ThreadWaited DEF CInv, SInv
  <2>4. LogInv' /\ LogsFirst'
    BY <1>0, <1>8, <2>1 DEF LogInv, LogsFirst, logVars, Inside
  <2> QED
    BY <2>1, <2>2, <2>3, <2>4 DEF CInv
<1>9. CASE UNCHANGED cmdVars
  <2>1. UNCHANGED <<vars, logVars, pingVars>>
    BY <1>9 DEF cmdVars
  <2>2. main' = main /\ (main = "ping" => PingInv')
    BY <2>1
    DEF CInv, PingInv, vars, pingVars, IInv, TcpTypeOK, OwnSocket, NoneLost,
        SslFollowsSocket, BlockingInUse, Current
  <2>3. main # "ping" => SInv'
    BY <2>1
    DEF CInv, vars, SInv, TypeOK, TcpTypeOK, OwnSocket, NoneLost, Current,
        InThread, Waited
  <2>4. LogInv' /\ LogsFirst'
    BY <1>0, <2>1 DEF LogInv, LogsFirst, logVars, vars
  <2> QED
    BY <2>2, <2>3, <2>4 DEF CInv
<1> QED
  BY <1>1, <1>2, <1>3, <1>4, <1>5, <1>6, <1>7, <1>8, <1>9
  DEF CmdNext, CmdMain, CmdThread

\* The whole invariant holds in every reachable state.
THEOREM CmdInvariant == CmdSpec => []CInv
  BY InitCInv, StepCInv, PTL DEF CmdSpec

\* No thread ever works on, or closes, a socket of another thread or one that
\* the pings have left open.
THEOREM CmdOwnSocket == CmdSpec => []TransferOnOwnSocket
<1>1. CInv => TransferOnOwnSocket
  BY TcpAssumption
  DEF CInv, PingInv, SInv, TypeOK, TcpTypeOK, OwnSocket, Current, InThread,
      TransferOnOwnSocket
<1> QED
  BY CmdInvariant, <1>1, PTL

\* No thread writes a result or reads an argument that has been freed.
THEOREM CmdResultsWritable == CmdSpec => []ResultsWritable
<1>1. CInv => ResultsWritable
  BY DEF CInv, PingInv, SInv, Waited, ResultsWritable, Live
<1> QED
  BY CmdInvariant, <1>1, PTL

\* The pings leave no socket to the first round, nor a round to the next.
THEOREM CmdLeavesNothing == CmdSpec => []RoundLeavesNothing
<1>1. CInv => RoundLeavesNothing
  BY TcpAssumption
  DEF CInv, SInv, TypeOK, TcpTypeOK, NoneLost, Waited, RoundLeavesNothing, Live
<1> QED
  BY CmdInvariant, <1>1, PTL

\* The lines of the log are whole, whichever threads write them.
THEOREM CmdLinesWhole == CmdSpec => []LinesWhole
<1>1. CInv => LinesWhole
  <2> SUFFICES ASSUME LogInv PROVE LinesWhole
    BY DEF CInv
  <2>1. CASE mutex \in Writer /\ at[mutex] \in {"level", "message"}
    BY <2>1 DEF LogInv, LinesWhole
  <2>2. CASE ~ (mutex \in Writer /\ at[mutex] \in {"level", "message"})
    BY <2>2 DEF LogInv, LinesWhole, Inside
  <2> QED
    BY <2>1, <2>2
<1> QED
  BY CmdInvariant, <1>1, PTL

------------------------------------------------------------------------------
(* the times of the pings *)

Dist(s, j) == Scale * P!Distance(s[j], s[j - 1])

\* m is the least of the times from the second on, of n that were counted.
IsBest(m, s, n) ==
  /\ n < 2 => m = 0
  /\ n >= 2 => (\E j \in 2..n : m = s[j]) /\ (\A j \in 2..n : m <= s[j])

\* g lies between the least distance, that of place a, and the largest, of b.
IsBetween(g, s, n) ==
  n >= 3 => \E a, b \in 3..n :
              /\ \A j \in 3..n : Dist(s, a) <= Dist(s, j) /\ Dist(s, j) <= Dist(s, b)
              /\ Dist(s, a) <= g /\ g <= Dist(s, b)

Answers ==
  /\ pc = "done" => ping = Count
  /\ rtt \in Int /\ ping \in Nat /\ prev \in Nat /\ min \in Nat /\ jitter \in Nat
  /\ samples \in Seq(Nat) /\ Len(samples) = ping
  /\ ping >= 1 => prev = samples[ping]
  /\ IsBest(min, samples, ping)
  /\ IsBetween(jitter, samples, ping)

\* The moving average of a and b lies between them.
LEMMA AverageBetween ==
  ASSUME NEW g \in Nat, NEW d \in Nat
  PROVE  /\ d > g => (g * 3 + d * 7) \div 10 \in g..d
         /\ ~(d > g) => (g * 8 + d * 2) \div 10 \in d..g
  OBVIOUS

LEMMA DistanceIs ==
  ASSUME NEW a \in Nat, NEW b \in Nat
  PROVE  Scale * P!Distance(a, b) \in Nat
<1>1. P!Distance(a, b) \in Nat
  BY DEF P!Distance
<1>2. Scale \in Nat
  BY CmdAssumption
<1> QED
  BY <1>1, <1>2

\* One time more, of the place n + 1.
LEMMA OneMoreTime ==
  ASSUME NEW s \in Seq(Nat), NEW n \in Nat, Len(s) = n, NEW t \in Nat
  PROVE  /\ Append(s, t) \in Seq(Nat) /\ Len(Append(s, t)) = n + 1
         /\ Append(s, t)[n + 1] = t
         /\ \A j \in 1..n : Append(s, t)[j] = s[j]
  OBVIOUS

LEMMA BestOfMore ==
  ASSUME NEW s \in Seq(Nat), NEW n \in Nat \ {0}, Len(s) = n, NEW t \in Nat,
         NEW m \in Nat, IsBest(m, s, n)
  PROVE  IsBest(IF n = 1 \/ t < m THEN t ELSE m, Append(s, t), n + 1)
<1> DEFINE u == Append(s, t)
           l == IF n = 1 \/ t < m THEN t ELSE m
<1>1. u[n + 1] = t /\ \A j \in 1..n : u[j] = s[j]
  BY OneMoreTime
<1> HIDE DEF u
<1>2. \E j \in 2..n+1 : l = u[j]
  <2>1. CASE n = 1 \/ t < m
    <3>1. n + 1 \in 2..n+1 /\ l = u[n + 1]
      BY <1>1, <2>1
    <3> QED
      BY <3>1
  <2>2. CASE ~(n = 1 \/ t < m)
    <3>1. PICK j \in 2..n : m = s[j]
      BY <2>2 DEF IsBest
    <3>2. j \in 2..n+1 /\ j \in 1..n
      OBVIOUS
    <3> QED
      BY <1>1, <2>2, <3>1, <3>2
  <2> QED
    BY <2>1, <2>2
<1>3. ASSUME NEW j \in 2..n+1 PROVE l <= u[j]
  <2>1. CASE j = n + 1
    BY <1>1, <2>1
  <2>2. CASE j # n + 1
    <3>1. j \in 2..n /\ j \in 1..n /\ n >= 2 /\ n # 1
      BY <2>2
    <3>2. m <= s[j] /\ u[j] = s[j] /\ s[j] \in Nat
      BY <1>1, <3>1 DEF IsBest
    <3> QED
      BY <3>1, <3>2
  <2> QED
    BY <2>1, <2>2
<1>4. ~(n + 1 < 2)
  OBVIOUS
<1> HIDE DEF l
<1>5. IsBest(l, u, n + 1)
  BY <1>2, <1>3, <1>4 DEF IsBest
<1> QED
  BY <1>5 DEF l, u

LEMMA BetweenMore ==
  ASSUME NEW s \in Seq(Nat), NEW n \in Nat, Len(s) = n, NEW t \in Nat, n >= 2,
         NEW g \in Nat, IsBetween(g, s, n), NEW h \in Nat,
         NEW d, d = Scale * P!Distance(t, s[n]),
         n = 2 => h = d,
         n # 2 => (d > g => h \in g..d) /\ (~(d > g) => h \in d..g)
  PROVE  IsBetween(h, Append(s, t), n + 1)
<1> DEFINE u == Append(s, t)
<1>1. u \in Seq(Nat) /\ Len(u) = n + 1 /\ u[n + 1] = t /\ \A j \in 1..n : u[j] = s[j]
  BY OneMoreTime
<1>2. \A j \in 1..n : s[j] \in Nat
  OBVIOUS
<1> HIDE DEF u
<1>3. d \in Nat
  <2>1. n \in 1..n
    OBVIOUS
  <2> QED
    BY <1>2, <2>1, DistanceIs
<1>4. Dist(u, n + 1) = d
  <2>1. (n + 1) - 1 = n /\ n \in 1..n
    OBVIOUS
  <2> QED
    BY <1>1, <2>1 DEF Dist
<1>5. ASSUME NEW j \in 3..n PROVE Dist(u, j) = Dist(s, j) /\ Dist(s, j) \in Nat
  <2>1. j \in 1..n /\ j - 1 \in 1..n
    OBVIOUS
  <2> QED
    BY <1>1, <1>2, <2>1, DistanceIs DEF Dist
<1>6. CASE n = 2
  <2>1. 3..n+1 = {3} /\ n + 1 = 3
    BY <1>6
  <2>2. Dist(u, 3) = d /\ h = d
    BY <1>4, <1>6
  <2> QED
    BY <1>3, <2>1, <2>2 DEF IsBetween, u
<1>7. CASE n # 2
  <2>1. PICK a, b \in 3..n :
          /\ \A j \in 3..n : Dist(s, a) <= Dist(s, j) /\ Dist(s, j) <= Dist(s, b)
          /\ Dist(s, a) <= g /\ g <= Dist(s, b)
    BY <1>7 DEF IsBetween
  <2>2. PICK x \in {a, n + 1} : Dist(u, x) <= Dist(u, a) /\ Dist(u, x) <= d
    <3>1. Dist(u, a) \in Nat
      BY <1>5
    <3>2. CASE d < Dist(u, a)
      BY <1>3, <1>4, <3>1, <3>2
    <3>3. CASE ~(d < Dist(u, a))
      BY <1>3, <3>1, <3>3
    <3> QED
      BY <3>2, <3>3
  <2>3. PICK y \in {b, n + 1} : Dist(u, b) <= Dist(u, y) /\ d <= Dist(u, y)
    <3>1. Dist(u, b) \in Nat
      BY <1>5
    <3>2. CASE d > Dist(u, b)
      BY <1>3, <1>4, <3>1, <3>2
    <3>3. CASE ~(d > Dist(u, b))
      BY <1>3, <3>1, <3>3
    <3> QED
      BY <3>2, <3>3
  <2>4. x \in 3..n+1 /\ y \in 3..n+1 /\ Dist(u, x) \in Nat /\ Dist(u, y) \in Nat
    BY <1>3, <1>4, <1>5
  <2>5. ASSUME NEW j \in 3..n+1
        PROVE  Dist(u, x) <= Dist(u, j) /\ Dist(u, j) <= Dist(u, y)
    <3>1. CASE j = n + 1
      BY <1>3, <1>4, <2>2, <2>3, <2>4, <3>1
    <3>2. CASE j # n + 1
      <4>1. j \in 3..n
        BY <3>2
      <4>2. /\ Dist(s, a) <= Dist(s, j) /\ Dist(s, j) <= Dist(s, b)
            /\ Dist(u, j) = Dist(s, j) /\ Dist(u, a) = Dist(s, a)
            /\ Dist(u, b) = Dist(s, b)
            /\ Dist(s, j) \in Nat /\ Dist(s, a) \in Nat /\ Dist(s, b) \in Nat
        BY <1>5, <2>1, <4>1
      <4> QED
        BY <2>2, <2>3, <2>4, <4>2
    <3> QED
      BY <3>1, <3>2
  <2>6. Dist(u, x) <= h /\ h <= Dist(u, y)
    <3>1. /\ Dist(u, a) <= g /\ g <= Dist(u, b)
          /\ Dist(u, a) \in Nat /\ Dist(u, b) \in Nat
      BY <1>5, <2>1
    <3>2. (d > g /\ h \in g..d) \/ (~(d > g) /\ h \in d..g)
      BY <1>7
    <3> QED
      BY <1>3, <2>2, <2>3, <2>4, <3>1, <3>2
  <2> QED
    BY <2>4, <2>5, <2>6 DEF IsBetween, u
<1> QED
  BY <1>6, <1>7

LEMMA RecordKeeps == ASSUME Answers, P!Record PROVE Answers'
<1> DEFINE t == P!Counted(rtt)
           n == ping
           g == P!JitterAfter(Scale * P!Distance(t, prev))
           m == P!Least(t)
<1>1. /\ rtt \in Int /\ n \in Nat /\ prev \in Nat /\ min \in Nat /\ jitter \in Nat
      /\ samples \in Seq(Nat) /\ Len(samples) = n
  BY DEF Answers
<1>2. t \in Nat
  BY <1>1, CmdAssumption DEF P!Counted
<1>3. Scale * P!Distance(t, prev) \in Nat
  BY <1>1, <1>2, DistanceIs
<1>4. g \in Nat /\ m \in Nat
  <2>1. PICK d \in Nat : d = Scale * P!Distance(t, prev)
    BY <1>3
  <2>2. (d > jitter => P!Smoothed(d) \in jitter..d) /\ (~(d > jitter) => P!Smoothed(d) \in d..jitter)
    BY <1>1, AverageBetween DEF P!Smoothed
  <2>3. P!JitterAfter(d) \in Nat
    <3>1. P!Smoothed(d) \in Nat
      BY <1>1, <2>2
    <3> QED
      BY <1>1, <3>1 DEF P!JitterAfter
  <2>4. m \in Nat
    BY <1>1, <1>2 DEF P!Least
  <2> QED
    BY <2>1, <2>3, <2>4
<1>5. /\ prev' = t /\ samples' = Append(samples, t) /\ ping' = n + 1 /\ rtt' = rtt
      /\ pc' = "done" => n + 1 = Count
      /\ n = 0 => min' = min /\ jitter' = jitter
      /\ n # 0 => min' = m /\ jitter' = g
  BY DEF P!Record
<1>6. /\ Append(samples, t) \in Seq(Nat) /\ Len(Append(samples, t)) = n + 1
      /\ Append(samples, t)[n + 1] = t
  BY <1>1, <1>2, OneMoreTime
<1>7. n # 0 => IsBest(m, Append(samples, t), n + 1)
  <2> SUFFICES ASSUME n # 0 PROVE IsBest(m, Append(samples, t), n + 1)
    OBVIOUS
  <2>1. n \in Nat \ {0} /\ IsBest(min, samples, n)
    BY <1>1 DEF Answers
  <2>2. m = IF n = 1 \/ t < min THEN t ELSE min
    BY DEF P!Least
  <2> HIDE DEF t, n, m
  <2> QED
    BY <1>1, <1>2, <2>1, <2>2, BestOfMore
<1>8. n >= 2 => IsBetween(g, Append(samples, t), n + 1)
  <2> SUFFICES ASSUME n >= 2 PROVE IsBetween(g, Append(samples, t), n + 1)
    OBVIOUS
  <2>1. prev = samples[n] /\ IsBetween(jitter, samples, n)
    BY <1>1 DEF Answers
  <2>2. PICK d \in Nat : d = Scale * P!Distance(t, prev)
    BY <1>3
  <2>3. d = Scale * P!Distance(t, samples[n])
    BY <2>1, <2>2
  <2>4. n = 2 => g = d
    BY <2>2 DEF P!JitterAfter
  <2>5. n # 2 => /\ d > jitter => g \in jitter..d
                 /\ ~(d > jitter) => g \in d..jitter
    <3>1. n # 1
      BY <1>1
    <3>2. n # 2 => g = P!Smoothed(d)
      BY <2>2, <3>1 DEF P!JitterAfter
    <3>3. (d > jitter => P!Smoothed(d) \in jitter..d) /\ (~(d > jitter) => P!Smoothed(d) \in d..jitter)
      BY <1>1, AverageBetween DEF P!Smoothed
    <3> QED
      BY <3>2, <3>3
  <2> HIDE DEF t, n, g
  <2> QED
    BY <1>1, <1>2, <1>4, <2>1, <2>3, <2>4, <2>5, BetweenMore
<1> HIDE DEF t, n, g, m
<1>9. n = 0 => min = 0
  BY <1>1 DEF Answers, IsBest, n
<1>10. IsBest(min', samples', ping')
  <2>1. CASE n = 0
    BY <1>5, <1>9, <2>1 DEF IsBest
  <2>2. CASE n # 0
    BY <1>5, <1>7, <2>2
  <2> QED
    BY <2>1, <2>2
<1>11. IsBetween(jitter', samples', ping')
  <2>1. CASE n < 2
    BY <1>1, <1>5, <2>1 DEF IsBetween
  <2>2. CASE n >= 2
    <3>1. n # 0
      BY <2>2
    <3> QED
      BY <1>5, <1>8, <2>2, <3>1
  <2> QED
    BY <1>1, <2>1, <2>2
<1>12. /\ rtt' \in Int /\ ping' \in Nat /\ prev' \in Nat /\ min' \in Nat
       /\ jitter' \in Nat /\ samples' \in Seq(Nat) /\ Len(samples') = ping'
       /\ prev' = samples'[ping']
  BY <1>1, <1>2, <1>4, <1>5, <1>6
<1>13. pc' = "done" => ping' = Count
  BY <1>5
<1> QED
  BY <1>10, <1>11, <1>12, <1>13 DEF Answers

LEMMA PingAnswers == ASSUME Answers, P!do_ping_test PROVE Answers'
<1>1. CASE P!Record
  BY <1>1, RecordKeeps
<1>2. CASE P!http_ping_once \/ P!Again
  <2>1. /\ pc' # "done" /\ rtt' \in Int
        /\ UNCHANGED <<ping, prev, min, jitter, samples>>
    BY <1>2, CmdAssumption
    DEF P!http_ping_once, P!Again, P!InitOk, P!InitFails, P!Connect, P!ConnectOk,
        P!ConnectFails, P!ReadOk, P!ReadFails, P!http_close, P!pingVars, P!Returns,
        Answers
  <2> QED
    BY <2>1 DEF Answers
<1> QED
  BY <1>1, <1>2 DEF P!do_ping_test

AInv == main = "ping" => Answers

LEMMA InitAInv == CmdInit => AInv
<1> SUFFICES ASSUME CmdInit PROVE Answers
  BY DEF AInv
<1>1. /\ pc = "init" /\ rtt = 0 /\ ping = 0 /\ prev = 0 /\ min = 0 /\ jitter = 0
      /\ samples = <<>>
  BY DEF CmdInit, P!Fresh
<1>2. samples \in Seq(Nat) /\ Len(samples) = 0
  BY <1>1
<1> QED
  BY <1>1, <1>2 DEF Answers, IsBest, IsBetween

LEMMA StepAInv == AInv /\ [CmdNext]_cmdVars => AInv'
<1> SUFFICES ASSUME AInv, [CmdNext]_cmdVars PROVE AInv'
  OBVIOUS
<1>1. CASE Ping
  BY <1>1, PingAnswers DEF Ping, AInv
<1>2. ASSUME UNCHANGED pingVars, main' = "ping" => main = "ping" PROVE AInv'
  BY <1>2 DEF AInv, Answers, pingVars
<1>3. CASE LogPings
  BY <1>2, <1>3 DEF LogPings, vars
<1>4. CASE ReportPings
  BY <1>4 DEF ReportPings, AInv
<1>5. CASE BeginRound \/ ForkThread \/ GoOn
  <2>1. main' # "ping"
    BY <1>5 DEF BeginRound, ForkThread, GoOn, Begin, BeginFails, Fork, ForkFails,
                ForkCrashes, Join, JoinGarbage, FreeArrays, Advance
  <2> QED
    BY <2>1 DEF AInv
<1>6. ASSUME NEW t \in Conn, CmdThread(t) PROVE AInv'
  <2>1. UNCHANGED pingVars /\ main' = main
    BY <1>6 DEF CmdThread, LogThread, Thread, InitOk, InitFails, http_connect,
                Request, Transfer, TransferDone, http_close, WriteInterval,
                FreeArg, mainVars, vars
  <2> QED
    BY <1>2, <2>1
<1>7. CASE UNCHANGED cmdVars
  BY <1>2, <1>7 DEF cmdVars, vars
<1> QED
  BY <1>1, <1>3, <1>4, <1>5, <1>6, <1>7 DEF CmdNext, CmdMain

\* What do_ping_test prints: the best of all the answers counted but for the
\* first, whatever pings failed in between, and a jitter between the least and
\* the largest distance of two that follow each other.
THEOREM CmdPingReported == CmdSpec => []PingReported
<1>1. AInv => PingReported
  <2> SUFFICES ASSUME main = "ping", pc = "done", Answers
               PROVE  P!PingIsBest /\ P!JitterWithin
    BY DEF AInv, PingReported, P!PingIsBest, P!JitterWithin
  <2>0. /\ ping = Count /\ Len(samples) = Count /\ IsBest(min, samples, Count)
        /\ IsBetween(jitter, samples, Count) /\ Count \in Nat \ {0}
        /\ \A j \in 1..Count : samples[j] \in Nat
        /\ min \in Nat /\ jitter \in Nat
    BY CmdAssumption DEF Answers
  <2>1. P!PingIsBest
    <3>1. CASE Count = 1
      BY <2>0, <3>1 DEF P!PingIsBest, IsBest
    <3>2. CASE Count # 1
      <4> DEFINE S == {samples[j] : j \in 2..Count}
      <4>1. min \in S /\ \A y \in S : min <= y
        BY <2>0, <3>2 DEF IsBest
      <4>2. \A x \in S : x \in Nat
        BY <2>0
      <4> HIDE DEF S
      <4>3. \A x \in S : (\A y \in S : x <= y) => x = min
        BY <2>0, <4>1, <4>2
      <4>4. P!Min(S) = min
        BY <4>1, <4>3 DEF P!Min
      <4> QED
        BY <2>0, <3>2, <4>4 DEF P!PingIsBest, S
    <3> QED
      BY <3>1, <3>2
  <2>2. P!JitterWithin
    <3> SUFFICES ASSUME Count > 2
                 PROVE  jitter \in P!Min(P!Distances) .. P!Max(P!Distances)
      BY DEF P!JitterWithin
    <3>1. PICK a, b \in 3..Count :
            /\ \A j \in 3..Count : /\ Dist(samples, a) <= Dist(samples, j)
                                   /\ Dist(samples, j) <= Dist(samples, b)
            /\ Dist(samples, a) <= jitter /\ jitter <= Dist(samples, b)
      BY <2>0 DEF IsBetween
    <3> DEFINE D == {Dist(samples, j) : j \in 3..Count}
    <3>2. P!Distances = D
      BY DEF P!Distances, Dist
    <3>3. \A x \in D : x \in Nat
      <4>1. ASSUME NEW j \in 3..Count PROVE Dist(samples, j) \in Nat
        <5>1. j \in 1..Count /\ j - 1 \in 1..Count
          BY <2>0
        <5> QED
          BY <2>0, <5>1, DistanceIs DEF Dist
      <4> QED
        BY <4>1
    <3>4. /\ Dist(samples, a) \in D /\ Dist(samples, b) \in D
          /\ \A y \in D : Dist(samples, a) <= y /\ y <= Dist(samples, b)
      BY <3>1
    <3> HIDE DEF D
    <3>5. \A x \in D : (\A y \in D : x <= y) => x = Dist(samples, a)
      BY <3>3, <3>4
    <3>6. \A x \in D : (\A y \in D : x >= y) => x = Dist(samples, b)
      BY <3>3, <3>4
    <3>7. P!Min(D) = Dist(samples, a)
      BY <3>4, <3>5 DEF P!Min
    <3>8. P!Max(D) = Dist(samples, b)
      <4>1. \A y \in D : Dist(samples, b) >= y
        BY <3>3, <3>4
      <4> QED
        BY <3>4, <3>6, <4>1 DEF P!Max
    <3>9. Dist(samples, a) \in Nat /\ Dist(samples, b) \in Nat
      BY <3>3, <3>4
    <3> QED
      BY <2>0, <3>1, <3>2, <3>7, <3>8, <3>9
  <2> QED
    BY <2>1, <2>2
<1> QED
  BY <1>1, InitAInv, StepAInv, PTL DEF CmdSpec

------------------------------------------------------------------------------
(* sums over the threads *)

\* Induction up to n, for a set.
Steps(S, n) == \A k \in 0..n : k < n /\ k \in S => k + 1 \in S

LEMMA UpTo ==
  ASSUME NEW n \in Nat, NEW S, 0 \in S, Steps(S, n)
  PROVE  n \in S
<1>0. SUFFICES \A k \in 0..n : k \in S
  BY <1>0
<1> DEFINE B == {k \in 0..n : k \notin S}
<1> SUFFICES ASSUME B # {} PROVE FALSE
  OBVIOUS
<1>1. B \in SUBSET Nat
  OBVIOUS
<1>2. PICK k \in B : \A j \in B : k <= j
  <2> HIDE DEF B
  <2> QED
    BY <1>1, LeastNumber
<1>3. k \in 0..n /\ k \notin S /\ k # 0
  OBVIOUS
<1>4. k - 1 \in 0..n /\ k - 1 < n /\ (k - 1) + 1 = k /\ ~(k <= k - 1)
  BY <1>3
<1>5. k - 1 \in S
  BY <1>2, <1>4
<1> QED
  BY <1>3, <1>4, <1>5 DEF Steps

IsSum(f, n, s) == s = [k \in 0..n |-> IF k = 0 THEN 0 ELSE s[k - 1] + f[k - 1]]

LEMMA SumExists == \A f : \A n \in Nat : \E s : IsSum(f, n, s)
<1> SUFFICES ASSUME NEW f, NEW m \in Nat PROVE \E s : IsSum(f, m, s)
  OBVIOUS
<1> DEFINE S == {n \in Nat : \E s : IsSum(f, n, s)}
<1>1. 0 \in S
  <2>1. IsSum(f, 0, [k \in 0..0 |-> 0])
    BY DEF IsSum
  <2> QED
    BY <2>1
<1>2. ASSUME NEW n \in 0..m, n < m, n \in S PROVE n + 1 \in S
  <2>1. PICK s : IsSum(f, n, s)
    BY <1>2
  <2> DEFINE g == [k \in 0..n+1 |-> IF k <= n THEN s[k] ELSE s[n] + f[n]]
  <2>2. ASSUME NEW k \in 0..n+1
        PROVE  g[k] = IF k = 0 THEN 0 ELSE g[k - 1] + f[k - 1]
    <3>1. CASE k = 0
      BY <2>1, <3>1 DEF IsSum
    <3>2. CASE k \in 1..n
      <4>1. g[k] = s[k] /\ g[k - 1] = s[k - 1] /\ k \in 0..n /\ k # 0
        BY <3>2
      <4>2. s[k] = s[k - 1] + f[k - 1]
        BY <2>1, <4>1 DEF IsSum
      <4> QED
        BY <4>1, <4>2
    <3>3. CASE k = n + 1
      <4>1. ~(k <= n) /\ k - 1 = n /\ n \in 0..n+1 /\ n <= n /\ k # 0
        BY <3>3
      <4>2. g[k - 1] = s[n] /\ g[k] = s[n] + f[n]
        BY <4>1
      <4> QED
        BY <4>1, <4>2
    <3>4. k = 0 \/ k \in 1..n \/ k = n + 1
      OBVIOUS
    <3> QED
      BY <3>1, <3>2, <3>3, <3>4
  <2>3. g = [k \in 0..n+1 |-> g[k]]
    OBVIOUS
  <2> HIDE DEF g
  <2>4. IsSum(f, n + 1, g)
    BY <2>2, <2>3 DEF IsSum
  <2> QED
    BY <2>4
<1> HIDE DEF S
<1>3. m \in S
  <2>1. Steps(S, m)
    BY <1>2 DEF Steps
  <2> QED
    BY <1>1, <2>1, UpTo
<1> QED
  BY <1>3 DEF S

\* The sum of f, and what it is made of.
SumsTo(f, s) == /\ SumOf(f) = s[ThreadCount] /\ s[0] = 0
                /\ \A k \in 0..ThreadCount-1 : s[k + 1] = s[k] + f[k]

LEMMA SumOfIs == \A f : \E s : SumsTo(f, s)
<1> TAKE f
<1> DEFINE s == CHOOSE s : IsSum(f, ThreadCount, s)
<1>1. \E g : IsSum(f, ThreadCount, g)
  BY SumExists, SpeedtestAssumption
<1>2. IsSum(f, ThreadCount, s)
  BY <1>1
<1>3. SumOf(f) = s[ThreadCount]
  BY DEF SumOf, IsSum
<1> HIDE DEF s
<1>4. s[0] = 0
  BY <1>2, SpeedtestAssumption DEF IsSum
<1>5. ASSUME NEW k \in 0..ThreadCount-1 PROVE s[k + 1] = s[k] + f[k]
  <2>1. k + 1 \in 0..ThreadCount /\ k + 1 # 0 /\ (k + 1) - 1 = k
    BY SpeedtestAssumption
  <2> QED
    BY <1>2, <2>1 DEF IsSum
<1> QED
  BY <1>3, <1>4, <1>5 DEF SumsTo

\* What one thread adds is added to all.
LEMMA SumOfAdds ==
  ASSUME NEW f \in [Conn -> Nat], NEW t \in Conn, NEW d \in Nat,
         f[t] = 0, NEW g, g = [f EXCEPT ![t] = d]
  PROVE  SumOf(f) \in Nat /\ SumOf(g) = SumOf(f) + d
<1> DEFINE n == ThreadCount
<1>1. PICK s : /\ SumOf(f) = s[n] /\ s[0] = 0
               /\ \A k \in 0..n-1 : s[k + 1] = s[k] + f[k]
  <2>1. \E s : SumsTo(f, s)
    BY SumOfIs
  <2> QED
    BY <2>1 DEF SumsTo
<1>2. PICK r : /\ SumOf(g) = r[n] /\ r[0] = 0
               /\ \A k \in 0..n-1 : r[k + 1] = r[k] + g[k]
  <2>1. \E r : SumsTo(g, r)
    BY SumOfIs
  <2> QED
    BY <2>1 DEF SumsTo
<1>3. n \in Nat \ {0} /\ Conn = 0..n-1
  BY SpeedtestAssumption
<1> HIDE DEF n
<1> DEFINE S == {k \in 0..n : s[k] \in Nat /\ r[k] = s[k] + IF k > t THEN d ELSE 0}
<1>4. 0 \in S
  BY <1>1, <1>2, <1>3
<1>5. ASSUME NEW k \in 0..n, k < n, k \in S PROVE k + 1 \in S
  <2>1. k \in Conn /\ k + 1 \in 0..n /\ t \in 0..n-1
    BY <1>3, <1>5
  <2>2. s[k + 1] = s[k] + f[k] /\ r[k + 1] = r[k] + g[k] /\ f[k] \in Nat
    BY <1>1, <1>2, <1>3, <2>1
  <2>3. s[k] \in Nat /\ r[k] = s[k] + IF k > t THEN d ELSE 0
    BY <1>5
  <2>4. CASE k = t
    <3>1. g[k] = f[k] + d /\ r[k] = s[k] /\ k + 1 > t
      BY <2>1, <2>3, <2>4
    <3> QED
      BY <2>1, <2>2, <2>3, <3>1
  <2>5. CASE k # t
    <3>1. g[k] = f[k] /\ (k + 1 > t <=> k > t)
      BY <2>1, <2>5
    <3> QED
      BY <2>1, <2>2, <2>3, <3>1
  <2> QED
    BY <2>4, <2>5
<1>6. n \in S
  <2> HIDE DEF S
  <2>1. Steps(S, n)
    BY <1>5 DEF Steps
  <2> QED
    BY <1>3, <1>4, <2>1, UpTo
<1>7. n > t
  BY <1>3
<1> QED
  BY <1>1, <1>2, <1>6, <1>7

\* If no thread has more, all have no more together.
LEMMA SumOfLeq ==
  ASSUME NEW f \in [Conn -> Nat], NEW g \in [Conn -> Nat],
         \A t \in Conn : f[t] <= g[t]
  PROVE  SumOf(f) \in Nat /\ SumOf(g) \in Nat /\ SumOf(f) <= SumOf(g)
<1> DEFINE n == ThreadCount
<1>1. PICK s : /\ SumOf(f) = s[n] /\ s[0] = 0
               /\ \A k \in 0..n-1 : s[k + 1] = s[k] + f[k]
  <2>1. \E s : SumsTo(f, s)
    BY SumOfIs
  <2> QED
    BY <2>1 DEF SumsTo
<1>2. PICK r : /\ SumOf(g) = r[n] /\ r[0] = 0
               /\ \A k \in 0..n-1 : r[k + 1] = r[k] + g[k]
  <2>1. \E r : SumsTo(g, r)
    BY SumOfIs
  <2> QED
    BY <2>1 DEF SumsTo
<1>3. n \in Nat \ {0} /\ Conn = 0..n-1
  BY SpeedtestAssumption
<1> HIDE DEF n
<1> DEFINE S == {k \in 0..n : s[k] \in Nat /\ r[k] \in Nat /\ s[k] <= r[k]}
<1>4. 0 \in S
  BY <1>1, <1>2, <1>3
<1>5. ASSUME NEW k \in 0..n, k < n, k \in S PROVE k + 1 \in S
  <2>1. k \in Conn /\ k + 1 \in 0..n
    BY <1>3, <1>5
  <2>2. /\ s[k + 1] = s[k] + f[k] /\ r[k + 1] = r[k] + g[k]
        /\ f[k] \in Nat /\ g[k] \in Nat /\ f[k] <= g[k]
    BY <1>1, <1>2, <1>3, <2>1
  <2>3. s[k] \in Nat /\ r[k] \in Nat /\ s[k] <= r[k]
    BY <1>5
  <2> QED
    BY <2>1, <2>2, <2>3
<1>6. n \in S
  <2> HIDE DEF S
  <2>1. Steps(S, n)
    BY <1>5 DEF Steps
  <2> QED
    BY <1>3, <1>4, <2>1, UpTo
<1> QED
  BY <1>1, <1>2, <1>6

\* Nothing of every thread is nothing.
LEMMA SumOfNone == SumOf([t \in Conn |-> 0]) = 0
<1> DEFINE f == [t \in Conn |-> 0]
           n == ThreadCount
<1>1. PICK s : /\ SumOf(f) = s[n] /\ s[0] = 0
               /\ \A k \in 0..n-1 : s[k + 1] = s[k] + f[k]
  <2>1. \E s : SumsTo(f, s)
    BY SumOfIs
  <2> QED
    BY <2>1 DEF SumsTo
<1>3. n \in Nat \ {0} /\ Conn = 0..n-1
  BY SpeedtestAssumption
<1> HIDE DEF n
<1> DEFINE S == {k \in 0..n : s[k] = 0}
<1>4. 0 \in S
  BY <1>1, <1>3
<1>5. ASSUME NEW k \in 0..n, k < n, k \in S PROVE k + 1 \in S
  <2>1. k \in Conn /\ k + 1 \in 0..n /\ k \in 0..n-1 /\ f[k] = 0
    BY <1>3, <1>5
  <2> QED
    BY <1>1, <1>5, <2>1
<1>6. n \in S
  <2> HIDE DEF S
  <2>1. Steps(S, n)
    BY <1>5 DEF Steps
  <2> QED
    BY <1>3, <1>4, <2>1, UpTo
<1> QED
  BY <1>1, <1>6

\* The parts make up the file: base_size each, and the remainder for thread 0.
LEMMA SumOfParts == SumOf([t \in Conn |-> Part(t)]) = FileSize
<1> DEFINE f == [t \in Conn |-> Part(t)]
           n == ThreadCount
           q == FileSize \div ThreadCount
           m == FileSize % ThreadCount
<1>1. PICK s : /\ SumOf(f) = s[n] /\ s[0] = 0
               /\ \A k \in 0..n-1 : s[k + 1] = s[k] + f[k]
  <2>1. \E s : SumsTo(f, s)
    BY SumOfIs
  <2> QED
    BY <2>1 DEF SumsTo
<1>2. q \in Nat /\ m \in 0..n-1 /\ FileSize = n * q + m
  BY SpeedtestAssumption
<1>3. n \in Nat \ {0} /\ Conn = 0..n-1
  BY SpeedtestAssumption
<1>4. \A k \in Conn : f[k] = q + IF k = 0 THEN m ELSE 0
  BY DEF Part
<1> HIDE DEF n, q, m, f
<1> DEFINE S == {k \in 0..n : s[k] = k * q + IF k = 0 THEN 0 ELSE m}
<1>5. 0 \in S
  BY <1>1, <1>2, <1>3
<1>6. ASSUME NEW k \in 0..n, k < n, k \in S PROVE k + 1 \in S
  <2>1. k \in Conn /\ k + 1 \in 0..n /\ k \in 0..n-1 /\ k + 1 # 0
    BY <1>3, <1>6
  <2>2. s[k + 1] = s[k] + (q + IF k = 0 THEN m ELSE 0)
    BY <1>1, <1>4, <2>1
  <2>3. s[k] = k * q + IF k = 0 THEN 0 ELSE m
    BY <1>6
  <2>4. (k + 1) * q = k * q + q /\ k * q \in Nat
    BY <1>2, <1>3
  <2>5. s[k + 1] = (k + 1) * q + m
    BY <1>2, <1>3, <2>2, <2>3, <2>4
  <2> QED
    BY <2>1, <2>5
<1>7. n \in S
  <2> HIDE DEF S
  <2>1. Steps(S, n)
    BY <1>6 DEF Steps
  <2> QED
    BY <1>3, <1>5, <2>1, UpTo
<1>8. s[n] = n * q + m
  BY <1>3, <1>7
<1> QED
  BY <1>1, <1>2, <1>8 DEF f

\* What is moved in parts is never more than the file.
LEMMA PartsWithin ==
  ASSUME NEW f \in [Conn -> Nat], \A t \in Conn : f[t] <= Part(t)
  PROVE  SumOf(f) \in 0..FileSize
<1> DEFINE g == [t \in Conn |-> Part(t)]
<1>1. g \in [Conn -> Nat]
  BY PartRange, SpeedtestAssumption
<1>2. \A t \in Conn : f[t] <= g[t]
  OBVIOUS
<1>3. SumOf(g) = FileSize
  BY SumOfParts
<1> HIDE DEF g
<1>4. SumOf(f) \in Nat /\ SumOf(f) <= SumOf(g)
  BY <1>1, <1>2, SumOfLeq
<1> QED
  BY <1>3, <1>4, SpeedtestAssumption

------------------------------------------------------------------------------
(* a round is what ForkJoin promises *)

\* A thread has the part it was created for; one that could not be created
\* has a part too, but no handle.
Parts == \A t \in Conn :
  /\ size[t] \in {0, Part(t)}
  /\ thread[t] # "none" => size[t] = Part(t)
  /\ t \in handles => thread[t] # "none"

\* What is known of the blocks of a part: a thread that has not failed has
\* made as many as it should have by then, and all of them in the end.
Tally == \A t \in Conn :
  /\ main = "fork" /\ t >= i => moved[t] = 0
  /\ thread[t] = "none" /\ ((main = "fork" /\ t < i) \/ main \in {"join", "free"}) =>
       size[t] = Part(t) /\ moved[t] = -1
  /\ thread[t] \in {"init", "connect", "request"} => moved[t] = 0
  /\ thread[t] = "transfer" =>
       moved[t] = -1 \/ moved[t] + left[t] = Blocks(size[t])
  /\ thread[t] \in {"close", "write", "free", "ended", "joined"} =>
       moved[t] \in {-1, Blocks(size[t])}

LEMMA InitParts == CmdInit => Parts /\ Tally
  BY DEF CmdInit, speedtest_get_config, Parts, Tally

\* Only the main thread's steps change the parts.
LEMMA StepParts == CInv /\ Parts /\ [CmdNext]_cmdVars => Parts'
<1> SUFFICES ASSUME CInv, Parts, [CmdNext]_cmdVars PROVE Parts'
  OBVIOUS
<1>1. CASE UNCHANGED <<size, thread, handles>>
  BY <1>1 DEF Parts
<1>2. CASE Ping \/ LogPings \/ ReportPings
  BY <1>1, <1>2 DEF Ping, LogPings, ReportPings, print_log, mainVars, threadVars, vars
<1>3. CASE Begin
  BY <1>3 DEF Begin, Parts
<1>4. CASE BeginFails \/ ForkCrashes \/ JoinGarbage
  BY <1>1, <1>4 DEF BeginFails, ForkCrashes, JoinGarbage, threadVars
<1>5. CASE Fork \/ ForkFails
  <2>1. SInv /\ main = "fork"
    BY <1>5 DEF CInv, Fork, ForkFails
  <2>2. /\ i \in Conn /\ size \in [Conn -> 0..FileSize] /\ thread[i] = "none"
        /\ thread \in [Conn -> Live \cup {"none", "ended", "joined"}]
    BY <2>1, SpeedtestAssumption DEF SInv, TypeOK, Waited
  <2>3. /\ size' = [size EXCEPT ![i] = Part(i)]
        /\ \/ thread' = [thread EXCEPT ![i] = "init"] /\ handles' = handles \cup {i}
           \/ UNCHANGED <<thread, handles>>
    BY <1>5 DEF Fork, ForkFails
  <2> QED
    BY <2>2, <2>3 DEF Parts
<1>6. CASE Join
  BY <1>6 DEF Join, Parts
<1>7. CASE FreeArrays
  BY <1>7 DEF FreeArrays, Parts, threadVars
<1>8. ASSUME NEW t \in Conn, CmdThread(t) PROVE Parts'
  <2>1. CASE LogThread(t)
    BY <1>1, <2>1 DEF LogThread, vars
  <2>2. CASE Thread(t)
    <3>0. thread \in [Conn -> Live \cup {"none", "ended", "joined"}]
      BY DEF CInv, SInv, TypeOK, PingInv
    <3>1. /\ UNCHANGED <<size, handles>> /\ thread[t] # "none"
          /\ \A d \in Conn : thread[d] # "none" <=> thread'[d] # "none"
      BY <2>2, <3>0
      DEF Thread, InitOk, InitFails, http_connect, Request, Transfer,
          TransferDone, http_close, WriteInterval, FreeArg, mainVars, At, GoTo
    <3> QED
      BY <3>1 DEF Parts
  <2> QED
    BY <1>8, <2>1, <2>2 DEF CmdThread
<1>9. CASE UNCHANGED cmdVars
  BY <1>1, <1>9 DEF cmdVars, vars
<1> QED
  BY <1>2, <1>3, <1>4, <1>5, <1>6, <1>7, <1>8, <1>9
  DEF CmdNext, CmdMain, BeginRound, ForkThread, GoOn

\* The steps of the main thread that say what becomes of a part.
LEMMA MainTally == SInv /\ Parts /\ Tally /\ Main => Tally'
<1> SUFFICES ASSUME SInv, Parts, Tally, Main PROVE Tally'
  OBVIOUS
<1>n. ThreadCount \in Nat \ {0} /\ Conn = 0..ThreadCount-1
  BY SpeedtestAssumption
<1>t. /\ thread \in [Conn -> Live \cup {"none", "ended", "joined"}]
      /\ size \in [Conn -> 0..FileSize] /\ moved \in [Conn -> Int] /\ i \in Conn
  BY DEF SInv, TypeOK
<1>1. CASE Begin
  <2>1. /\ main' = "fork" /\ i' = 0
        /\ \A t \in Conn : moved'[t] = 0 /\ thread'[t] = "none" /\ ~(t < 0)
    BY <1>1, <1>n DEF Begin
  <2> QED
    BY <2>1 DEF Tally
<1>2. CASE BeginFails \/ ForkCrashes
  BY <1>2 DEF BeginFails, ForkCrashes, Tally, threadVars
<1>3. CASE Fork \/ ForkFails
  <2>1. main = "fork" /\ thread[i] = "none" /\ moved[i] = 0
    BY <1>3, <1>t, <1>n DEF Fork, ForkFails, SInv, Waited, Tally
  <2>2. /\ size' = [size EXCEPT ![i] = Part(i)] /\ UNCHANGED left
        /\ \/ thread' = [thread EXCEPT ![i] = "init"] /\ UNCHANGED moved
           \/ moved' = [moved EXCEPT ![i] = -1] /\ UNCHANGED thread
    BY <1>3 DEF Fork, ForkFails
  <2>3. \/ main' = "join" /\ i = ThreadCount - 1
        \/ main' = "fork" /\ i' = i + 1 /\ i # ThreadCount - 1
    BY <1>3, <2>1 DEF Fork, ForkFails, Advance
  <2>4. ASSUME NEW t \in Conn, t # i
        PROVE  /\ size'[t] = size[t] /\ thread'[t] = thread[t]
               /\ moved'[t] = moved[t] /\ left'[t] = left[t]
               /\ main' = "fork" /\ t >= i' => t >= i
               /\ (main' = "fork" /\ t < i') \/ main' \in {"join", "free"} =>
                    (main = "fork" /\ t < i)
    BY <2>1, <2>2, <2>3, <2>4, <1>t, <1>n
  <2>5. /\ size'[i] = Part(i)
        /\ \/ thread'[i] = "init" /\ moved'[i] = 0
           \/ thread'[i] = "none" /\ moved'[i] = -1
        /\ ~(main' = "fork" /\ i >= i')
    BY <2>1, <2>2, <2>3, <1>t, <1>n
  <2> QED
    BY <2>1, <2>4, <2>5 DEF Tally
<1>4. CASE Join \/ JoinGarbage
  <2>1. main = "join" /\ main' \in {"join", "free", "crashed"} /\ UNCHANGED <<size, left, moved>>
    BY <1>4 DEF Join, JoinGarbage, Advance, threadVars
  <2>2. \A t \in Conn : thread'[t] = thread[t] \/ (thread[t] = "ended" /\ thread'[t] = "joined")
    BY <1>4, <1>t DEF Join, JoinGarbage, threadVars
  <2> QED
    BY <2>1, <2>2 DEF Tally
<1>5. CASE FreeArrays
  BY <1>5 DEF FreeArrays, Tally, threadVars
<1> QED
  BY <1>1, <1>2, <1>3, <1>4, <1>5 DEF Main

\* The steps of a thread: one block is made, or the thread has failed.
LEMMA ThreadTally ==
  ASSUME SInv, Parts, Tally, NEW t \in Conn, Thread(t)
  PROVE  Tally'
<1>n. ThreadCount \in Nat \ {0} /\ Conn = 0..ThreadCount-1
  BY SpeedtestAssumption
<1>t. /\ thread \in [Conn -> Live \cup {"none", "ended", "joined"}]
      /\ size \in [Conn -> 0..FileSize] /\ moved \in [Conn -> Int]
      /\ left \in [Conn -> Nat] /\ i \in Conn /\ FileSize \in Nat
  BY SpeedtestAssumption DEF SInv, TypeOK
<1>b. size[t] \in Nat /\ Blocks(size[t]) \in Nat /\ ToInt(Blocks(size[t])) \in Int
  BY <1>t, BlocksNat
<1>m. UNCHANGED <<main, i, size>> /\ thread[t] \in Live
  BY DEF Thread, InitOk, InitFails, http_connect, Request, Transfer,
         TransferDone, http_close, WriteInterval, FreeArg, mainVars, At, Live
<1>1. \A u \in Conn \ {t} :
        thread'[u] = thread[u] /\ moved'[u] = moved[u] /\ left'[u] = left[u]
  BY <1>t
  DEF Thread, InitOk, InitFails, http_connect, Request, Transfer,
      TransferDone, http_close, WriteInterval, FreeArg, GoTo
<1>2. ASSUME /\ thread'[t] \in {"init", "connect", "request"} => moved'[t] = 0
             /\ thread'[t] = "transfer" =>
                  moved'[t] = -1 \/ moved'[t] + left'[t] = Blocks(size[t])
             /\ thread'[t] \in {"close", "write", "free", "ended", "joined"} =>
                  moved'[t] \in {-1, Blocks(size[t])}
             /\ thread'[t] # "none"
      PROVE  Tally'
  <2>1. ~(main = "fork" /\ t >= i)
    BY <1>m DEF SInv, Waited, Live
  <2> QED
    BY <1>m, <1>1, <1>2, <2>1 DEF Tally
<1>3. /\ thread[t] \in {"init", "connect", "request"} => moved[t] = 0
      /\ thread[t] = "transfer" => moved[t] = -1 \/ moved[t] + left[t] = Blocks(size[t])
      /\ thread[t] \in {"close", "write", "free", "ended", "joined"} =>
           moved[t] \in {-1, Blocks(size[t])}
  BY DEF Tally
<1>4. CASE InitOk(t) \/ InitFails(t)
  <2>1. /\ thread[t] = "init"
        /\ \/ thread'[t] = "connect" /\ moved'[t] = moved[t]
           \/ thread'[t] = "write" /\ moved'[t] = -1
    BY <1>4, <1>t DEF InitOk, InitFails, At, GoTo
  <2> QED
    BY <1>2, <1>3, <2>1
<1>5. CASE http_connect(t)
  <2>1. thread[t] = "connect" /\ thread'[t] \in {"connect", "request"} /\ moved'[t] = moved[t]
    BY <1>5, <1>t DEF http_connect, At, GoTo
  <2> QED
    BY <1>2, <1>3, <2>1
<1>6. CASE Request(t)
  <2>1. thread[t] = "request" /\ thread'[t] = "transfer" /\ moved[t] = 0
    BY <1>3, <1>6, <1>t DEF Request, At, GoTo
  <2>2. PICK total \in Int : total = ToInt(Blocks(size[t]))
    BY <1>b
  <2>3. /\ left'[t] = IF total > 0 THEN total ELSE 0
        /\ moved'[t] = IF total = Blocks(size[t]) THEN 0 ELSE -1
    BY <1>6, <1>t, <2>1, <2>2 DEF Request
  <2>4. moved'[t] = -1 \/ moved'[t] + left'[t] = Blocks(size[t])
    BY <2>2, <2>3, <1>b
  <2> QED
    BY <1>2, <2>1, <2>4
<1>7. CASE Transfer(t)
  <2>1. thread[t] = "transfer" /\ thread'[t] = "transfer" /\ left'[t] = left[t] - 1
    BY <1>7, <1>t DEF Transfer, At
  <2>2. moved'[t] = -1 \/ (moved[t] >= 0 /\ moved'[t] = moved[t] + 1)
    BY <1>7, <1>t DEF Transfer
  <2>3. moved'[t] = -1 \/ moved'[t] + left'[t] = Blocks(size[t])
    BY <1>3, <1>b, <1>t, <2>1, <2>2
  <2> QED
    BY <1>2, <2>1, <2>3
<1>8. CASE TransferDone(t)
  <2>1. /\ thread[t] = "transfer" /\ thread'[t] = "close" /\ left[t] = 0
        /\ moved'[t] = moved[t]
    BY <1>8, <1>t DEF TransferDone, At, GoTo
  <2>2. moved'[t] \in {-1, Blocks(size[t])}
    BY <1>3, <1>t, <2>1
  <2> QED
    BY <1>2, <2>1, <2>2
<1>9. CASE http_close(t) \/ WriteInterval(t) \/ FreeArg(t)
  <2>1. /\ thread[t] \in {"close", "write", "free"} /\ moved'[t] = moved[t]
        /\ thread'[t] \in {"write", "free", "ended"}
    BY <1>9, <1>t DEF http_close, WriteInterval, FreeArg, At, GoTo
  <2> QED
    BY <1>2, <1>3, <2>1
<1> QED
  BY <1>4, <1>5, <1>6, <1>7, <1>8, <1>9 DEF Thread

LEMMA StepTally == CInv /\ Parts /\ Tally /\ [CmdNext]_cmdVars => Tally'
<1> SUFFICES ASSUME CInv, Parts, Tally, [CmdNext]_cmdVars PROVE Tally'
  OBVIOUS
<1>1. CASE UNCHANGED <<main, i, size, thread, left, moved>>
  BY <1>1 DEF Tally
<1>2. CASE Ping \/ LogPings
  BY <1>1, <1>2 DEF Ping, LogPings, mainVars, threadVars, vars
<1>3. CASE ReportPings
  BY <1>3 DEF ReportPings, Tally, threadVars
<1>4. CASE Main
  <2>1. main # "ping"
    BY <1>4 DEF Main, Begin, BeginFails, Fork, ForkFails, ForkCrashes, Join,
                JoinGarbage, FreeArrays
  <2> QED
    BY <1>4, <2>1, MainTally DEF CInv
<1>5. ASSUME NEW t \in Conn, CmdThread(t) PROVE Tally'
  <2>1. CASE LogThread(t)
    BY <1>1, <2>1 DEF LogThread, vars
  <2>2. CASE Thread(t)
    <3>1. thread[t] # "none"
      BY <2>2
      DEF Thread, InitOk, InitFails, http_connect, Request, Transfer,
          TransferDone, http_close, WriteInterval, FreeArg, At
    <3>2. main # "ping"
      BY <3>1 DEF CInv, PingInv
    <3> QED
      BY <2>2, <3>2, ThreadTally DEF CInv
  <2> QED
    BY <1>5, <2>1, <2>2 DEF CmdThread
<1>6. CASE UNCHANGED cmdVars
  BY <1>1, <1>6 DEF cmdVars, vars
<1>7. BeginRound \/ ForkThread \/ GoOn => Main
  BY DEF BeginRound, ForkThread, GoOn, Main
<1> QED
  BY <1>2, <1>3, <1>4, <1>5, <1>6, <1>7 DEF CmdNext, CmdMain

\* Whatever pthread_create does, a thread that runs has its own part to move,
\* and one that has not failed has moved all of it when it ends.
THEOREM CmdParts == CmdSpec => [](Parts /\ Tally)
  BY InitParts, StepParts, StepTally, CmdInvariant, PTL DEF CmdSpec

\* What a step by which no part is over is, in the abstract.
LEMMA Unmoved ==
  ASSUME Busy' = Busy, OverBy' = OverBy, LostBy' = LostBy
  PROVE  UNCHANGED Abs!fvars
<1>1. SumOf(OverBy)' = SumOf(OverBy) /\ SumOf(LostBy)' = SumOf(LostBy)
  OBVIOUS
<1>2. (IF Busy' THEN FileSize - SumOf(OverBy)' ELSE 0) = (IF Busy THEN FileSize - SumOf(OverBy) ELSE 0)
  BY <1>1
<1>3. (IF Busy' THEN SumOf(LostBy)' ELSE 0) = (IF Busy THEN SumOf(LostBy) ELSE 0)
  BY <1>1
<1> QED
  BY <1>2, <1>3 DEF Abs!fvars

\* A part that is over is no more than the part of its thread, and what is
\* lost is over; before a step and after it.
LEMMA OverTypes ==
  ASSUME CInv, CInv', Parts, Parts'
  PROVE  /\ OverBy \in [Conn -> Nat] /\ LostBy \in [Conn -> Nat]
         /\ OverBy' \in [Conn -> Nat] /\ LostBy' \in [Conn -> Nat]
         /\ \A c \in Conn : OverBy'[c] <= Part(c) /\ LostBy'[c] <= Part(c)
<1>1. \A c \in Conn : Part(c) \in Nat
  BY PartRange, SpeedtestAssumption
<1>2. \A c \in Conn : size[c] \in {0, Part(c)} /\ size'[c] \in {0, Part(c)}
  BY DEF Parts
<1> QED
  BY <1>1, <1>2 DEF OverBy, LostBy

\* What one part more does to the sums.
LEMMA OverSum ==
  ASSUME CInv, CInv', Parts, Parts', NEW t \in Conn, NEW d \in Nat,
         OverBy[t] = 0, OverBy' = [OverBy EXCEPT ![t] = d]
  PROVE  \E p, q \in 0..FileSize :
           p = SumOf(OverBy) /\ q = SumOf(OverBy)' /\ q = p + d
<1>1. /\ OverBy \in [Conn -> Nat] /\ OverBy' \in [Conn -> Nat]
      /\ \A c \in Conn : OverBy'[c] <= Part(c)
  BY OverTypes
<1>2. PICK f \in [Conn -> Nat], g \in [Conn -> Nat] : f = OverBy /\ g = OverBy'
  BY <1>1
<1>3. f[t] = 0 /\ g = [f EXCEPT ![t] = d] /\ \A c \in Conn : g[c] <= Part(c)
  BY <1>1, <1>2
<1>4. SumOf(f) \in Nat /\ SumOf(g) = SumOf(f) + d
  BY <1>3, SumOfAdds
<1>5. SumOf(g) \in 0..FileSize
  BY <1>3, PartsWithin
<1>6. SumOf(f) \in 0..FileSize
  BY <1>4, <1>5, SpeedtestAssumption
<1>7. SumOf(OverBy) = SumOf(f) /\ SumOf(OverBy)' = SumOf(g)
  BY <1>2
<1> QED
  BY <1>4, <1>5, <1>6, <1>7

LEMMA LostSum ==
  ASSUME CInv, CInv', Parts, Parts', NEW t \in Conn, NEW d \in Nat,
         LostBy[t] = 0, LostBy' = [LostBy EXCEPT ![t] = d]
  PROVE  \E p, q \in 0..FileSize :
           p = SumOf(LostBy) /\ q = SumOf(LostBy)' /\ q = p + d
<1>1. /\ LostBy \in [Conn -> Nat] /\ LostBy' \in [Conn -> Nat]
      /\ \A c \in Conn : LostBy'[c] <= Part(c)
  BY OverTypes
<1>2. PICK f \in [Conn -> Nat], g \in [Conn -> Nat] : f = LostBy /\ g = LostBy'
  BY <1>1
<1>3. f[t] = 0 /\ g = [f EXCEPT ![t] = d] /\ \A c \in Conn : g[c] <= Part(c)
  BY <1>1, <1>2
<1>4. SumOf(f) \in Nat /\ SumOf(g) = SumOf(f) + d
  BY <1>3, SumOfAdds
<1>5. SumOf(g) \in 0..FileSize
  BY <1>3, PartsWithin
<1>6. SumOf(f) \in 0..FileSize
  BY <1>4, <1>5, SpeedtestAssumption
<1>7. SumOf(LostBy) = SumOf(f) /\ SumOf(LostBy)' = SumOf(g)
  BY <1>2
<1> QED
  BY <1>4, <1>5, <1>6, <1>7

\* One part more is lost, or moved.
LEMMA PartLost ==
  ASSUME CInv, CInv', Parts, Parts', Busy, Busy', NEW t \in Conn, NEW d \in Nat,
         OverBy[t] = 0, OverBy' = [OverBy EXCEPT ![t] = d],
         LostBy[t] = 0, LostBy' = [LostBy EXCEPT ![t] = d]
  PROVE  Abs!Lose
<1>1. PICK p \in 0..FileSize, q \in 0..FileSize :
        p = SumOf(OverBy) /\ q = SumOf(OverBy)' /\ q = p + d
  BY OverSum
<1>2. PICK x \in 0..FileSize, y \in 0..FileSize :
        x = SumOf(LostBy) /\ y = SumOf(LostBy)' /\ y = x + d
  BY LostSum
<1>3. FileSize - q \in 0..(FileSize - p) /\ y = x + ((FileSize - p) - (FileSize - q))
  <2>1. p \in Int /\ q \in Int /\ x \in Int /\ y \in Int /\ FileSize \in Int /\ q <= FileSize
    BY SpeedtestAssumption
  <2>2. q = p + d /\ y = x + d
    BY <1>1, <1>2
  <2> QED
    BY <2>1, <2>2
<1> QED
  BY <1>1, <1>2, <1>3 DEF Abs!Lose

LEMMA PartMoved ==
  ASSUME CInv, CInv', Parts, Parts', Busy, Busy', NEW t \in Conn, NEW d \in Nat,
         OverBy[t] = 0, OverBy' = [OverBy EXCEPT ![t] = d], LostBy' = LostBy
  PROVE  Abs!Finish
<1>1. PICK p \in 0..FileSize, q \in 0..FileSize :
        p = SumOf(OverBy) /\ q = SumOf(OverBy)' /\ q = p + d
  BY OverSum
<1>2. FileSize - q \in 0..(FileSize - p)
  BY <1>1, SpeedtestAssumption
<1>3. SumOf(LostBy)' = SumOf(LostBy)
  OBVIOUS
<1> QED
  BY <1>1, <1>2, <1>3 DEF Abs!Finish

LEMMA InitAbs == CmdInit => Abs!AbsInit
  BY DEF CmdInit, speedtest_get_config, Abs!AbsInit, Busy

\* Every step of the command is one of the abstract round, or a stutter.
LEMMA StepAbs ==
  ASSUME CInv, CInv', Parts, Parts', Tally, Tally', [CmdNext]_cmdVars
  PROVE  [Abs!AbsNext]_(Abs!fvars)
<1> DEFINE Goal == Abs!AbsNext \/ UNCHANGED Abs!fvars
<1> SUFFICES Goal
  OBVIOUS
<1> HIDE DEF Goal
<1>t. /\ thread \in [Conn -> Live \cup {"none", "ended", "joined"}]
      /\ size \in [Conn -> 0..FileSize] /\ moved \in [Conn -> Int]
  <2>1. CASE main = "ping"
    BY <2>1, SpeedtestAssumption DEF CInv, PingInv
  <2>2. CASE main # "ping"
    BY <2>2 DEF CInv, SInv, TypeOK
  <2> QED
    BY <2>1, <2>2
<1>n. ThreadCount \in Nat \ {0} /\ FileSize \in Nat /\ Conn = 0..ThreadCount-1
  BY SpeedtestAssumption
<1>0. ASSUME Busy' = Busy, UNCHANGED size,
             \A c \in Conn : (MovedWhole(c)' <=> MovedWhole(c)) /\ (Lost(c)' <=> Lost(c))
      PROVE  Goal
  <2>1. OverBy' = OverBy /\ LostBy' = LostBy
    BY <1>0 DEF OverBy, LostBy
  <2> QED
    BY <1>0, <2>1, Unmoved DEF Goal
<1>1. ASSUME UNCHANGED <<size, thread, moved>>, Busy' = Busy
      PROVE  Goal
  BY <1>0, <1>1 DEF MovedWhole, Lost
<1>2. CASE Ping \/ LogPings \/ ReportPings
  BY <1>1, <1>2
  DEF Ping, LogPings, ReportPings, print_log, mainVars, threadVars, vars, Busy
<1>3. CASE Begin
  <2>1. ~Busy /\ Busy'
    BY <1>3 DEF Begin, Busy
  <2>2. OverBy' = [t \in Conn |-> 0] /\ LostBy' = [t \in Conn |-> 0]
    BY <1>3 DEF Begin, OverBy, LostBy
  <2>3. SumOf(OverBy)' = 0 /\ SumOf(LostBy)' = 0
    BY <2>2, SumOfNone
  <2>4. /\ (IF Busy' THEN FileSize - SumOf(OverBy)' ELSE 0) = FileSize
        /\ (IF Busy' THEN SumOf(LostBy)' ELSE 0) = 0
    BY <2>1, <2>3, <1>n
  <2> QED
    BY <2>1, <2>4 DEF Goal, Abs!AbsNext, Abs!Begin
<1>4. CASE BeginFails \/ ForkCrashes \/ JoinGarbage
  BY <1>1, <1>4 DEF BeginFails, ForkCrashes, JoinGarbage, Advance, threadVars, Busy
<1>5. CASE Fork \/ ForkFails
  <2>1. SInv /\ main = "fork" /\ Busy /\ Busy'
    BY <1>5 DEF CInv, Fork, ForkFails, Busy, Advance
  <2>2. i \in Conn /\ thread[i] = "none" /\ moved[i] = 0
    BY <2>1, <1>n DEF SInv, TypeOK, Waited, Tally
  <2>3. /\ size' = [size EXCEPT ![i] = Part(i)] /\ Part(i) \in Nat
    BY <1>5, <1>n, <2>2, PartRange DEF Fork, ForkFails
  <2>4. ~MovedWhole(i) /\ ~Lost(i)
    BY <2>2 DEF MovedWhole, Lost
  <2>5. OverBy[i] = 0 /\ LostBy[i] = 0
    BY <2>2, <2>4 DEF OverBy, LostBy
  <2>6. CASE Fork
    <3>1. thread' = [thread EXCEPT ![i] = "init"] /\ UNCHANGED moved
      BY <2>6 DEF Fork
    <3>2. \A c \in Conn : thread'[c] = IF c = i THEN "init" ELSE thread[c]
      BY <3>1, <1>t
    <3>3. \A c \in Conn : size'[c] = IF c = i THEN Part(i) ELSE size[c]
      BY <2>3, <1>t
    <3>4. \A c \in Conn : OverBy'[c] = OverBy[c] /\ LostBy'[c] = LostBy[c]
      BY <2>2, <3>1, <3>2, <3>3 DEF OverBy, LostBy, MovedWhole, Lost
    <3>5. OverBy' = OverBy /\ LostBy' = LostBy
      BY <3>4 DEF OverBy, LostBy
    <3> QED
      BY <2>1, <3>5, Unmoved DEF Goal
  <2>7. CASE ForkFails
    <3>1. moved' = [moved EXCEPT ![i] = -1] /\ UNCHANGED thread
      BY <2>7 DEF ForkFails
    <3>2. \A c \in Conn : /\ moved'[c] = IF c = i THEN -1 ELSE moved[c]
                          /\ size'[c] = IF c = i THEN Part(i) ELSE size[c]
      BY <3>1, <2>3, <1>t
    <3>3. \A c \in Conn : /\ OverBy'[c] = IF c = i THEN Part(i) ELSE OverBy[c]
                          /\ LostBy'[c] = IF c = i THEN Part(i) ELSE LostBy[c]
      BY <2>2, <3>1, <3>2 DEF OverBy, LostBy, MovedWhole, Lost
    <3>4. /\ OverBy' = [OverBy EXCEPT ![i] = Part(i)]
          /\ LostBy' = [LostBy EXCEPT ![i] = Part(i)]
      BY <3>3 DEF OverBy, LostBy
    <3>5. Abs!Lose
      BY <2>1, <2>2, <2>3, <2>5, <3>4, PartLost
    <3> QED
      BY <3>5 DEF Goal, Abs!AbsNext
  <2> QED
    BY <1>5, <2>6, <2>7
<1>6. CASE Join
  <2>1. /\ main = "join" /\ main' \in {"join", "free"} /\ UNCHANGED <<size, moved>>
    BY <1>6 DEF Join, Advance
  <2>2. \A t \in Conn : thread'[t] = thread[t] \/ (thread[t] = "ended" /\ thread'[t] = "joined")
    BY <1>6, <1>t DEF Join
  <2>3. \A c \in Conn : (MovedWhole(c)' <=> MovedWhole(c)) /\ (Lost(c)' <=> Lost(c))
    BY <2>1, <2>2 DEF MovedWhole, Lost
  <2> QED
    BY <1>0, <2>1, <2>3 DEF Busy
<1>7. CASE FreeArrays
  <2>1. SInv /\ main = "free" /\ main' = "idle"
    BY <1>7 DEF CInv, FreeArrays
  <2>2. Busy /\ ~Busy'
    BY <2>1 DEF Busy
  <2>3. \A t \in Conn : (MovedWhole(t) \/ Lost(t)) /\ size[t] = Part(t)
    <3>1. ASSUME NEW t \in Conn PROVE thread[t] \in {"none", "ended", "joined"}
      BY <2>1, <1>t DEF SInv, Waited
    <3> QED
      BY <2>1, <3>1 DEF Tally, Parts, MovedWhole, Lost
  <2>4. OverBy = [t \in Conn |-> Part(t)]
    BY <2>3 DEF OverBy
  <2>5. SumOf(OverBy) = FileSize
    BY <2>4, SumOfParts
  <2>6. (IF Busy THEN FileSize - SumOf(OverBy) ELSE 0) = 0
    BY <2>5, <1>n
  <2> QED
    BY <2>2, <2>6 DEF Goal, Abs!AbsNext, Abs!End
<1>8. ASSUME NEW t \in Conn, CmdThread(t) PROVE Goal
  <2>1. CASE LogThread(t)
    BY <1>1, <2>1 DEF LogThread, vars, Busy
  <2>2. CASE Thread(t)
    <3>1. UNCHANGED <<size, main>> /\ Busy' = Busy
      BY <2>2
      DEF Thread, InitOk, InitFails, http_connect, Request, Transfer,
          TransferDone, http_close, WriteInterval, FreeArg, mainVars, Busy
    <3>2. CASE FreeArg(t)
      <4>1. /\ thread[t] = "free" /\ thread' = [thread EXCEPT ![t] = "ended"]
            /\ UNCHANGED moved
        BY <3>2 DEF FreeArg, At, GoTo
      <4>2. Busy /\ Busy'
        <5>1. main # "ping"
          BY <4>1 DEF CInv, PingInv
        <5> QED
          BY <3>1, <4>1, <5>1 DEF CInv, SInv, Waited, Live, Busy
      <4>3. PICK d \in Nat : d = size[t]
        BY <1>t, <1>n
      <4>4. \A c \in Conn : thread'[c] = IF c = t THEN "ended" ELSE thread[c]
        BY <4>1, <1>t
      <4>5. ~MovedWhole(t) /\ ~Lost(t) /\ OverBy[t] = 0 /\ LostBy[t] = 0
        BY <4>1 DEF MovedWhole, Lost, OverBy, LostBy
      <4>6. ASSUME NEW c \in Conn, c # t
            PROVE  (MovedWhole(c)' <=> MovedWhole(c)) /\ (Lost(c)' <=> Lost(c))
        BY <3>1, <4>1, <4>4, <4>6 DEF MovedWhole, Lost
      <4>7. moved[t] \in {-1, Blocks(size[t])} /\ Blocks(size[t]) \in Nat
        BY <4>1, <4>3, BlocksNat DEF Tally
      <4>8. MovedWhole(t)' \/ Lost(t)'
        BY <3>1, <4>1, <4>4, <4>7 DEF MovedWhole, Lost
      <4>9. OverBy' = [OverBy EXCEPT ![t] = d]
        BY <3>1, <4>3, <4>6, <4>8 DEF OverBy
      <4>10. CASE Lost(t)'
        <5>1. LostBy' = [LostBy EXCEPT ![t] = d]
          BY <3>1, <4>3, <4>6, <4>10 DEF LostBy
        <5>2. Abs!Lose
          BY <4>2, <4>5, <4>9, <5>1, PartLost
        <5> QED
          BY <5>2 DEF Goal, Abs!AbsNext
      <4>11. CASE ~Lost(t)'
        <5>1. LostBy' = LostBy
          BY <3>1, <4>5, <4>6, <4>11 DEF LostBy
        <5>2. Abs!Finish
          BY <4>2, <4>5, <4>9, <5>1, PartMoved
        <5> QED
          BY <5>2 DEF Goal, Abs!AbsNext
      <4> QED
        BY <4>10, <4>11
    <3>3. CASE ~FreeArg(t)
      <4>1. /\ thread[t] \in Live /\ thread'[t] \in Live
            /\ \A c \in Conn \ {t} : thread'[c] = thread[c] /\ moved'[c] = moved[c]
        BY <2>2, <3>3, <1>t
        DEF Thread, InitOk, InitFails, http_connect, Request, Transfer,
            TransferDone, http_close, WriteInterval, At, GoTo, Live
      <4>2. \A c \in Conn : (MovedWhole(c)' <=> MovedWhole(c)) /\ (Lost(c)' <=> Lost(c))
        BY <3>1, <4>1 DEF MovedWhole, Lost, Live
      <4> QED
        BY <1>0, <3>1, <4>2
    <3> QED
      BY <3>2, <3>3
  <2> QED
    BY <1>8, <2>1, <2>2 DEF CmdThread
<1>9. CASE UNCHANGED cmdVars
  BY <1>1, <1>9 DEF cmdVars, vars, Busy
<1> QED
  BY <1>2, <1>3, <1>4, <1>5, <1>6, <1>7, <1>8, <1>9
  DEF CmdNext, CmdMain, BeginRound, ForkThread, GoOn

\* A round ends only after every megabyte of the file was moved, all blocks of
\* it, or belonged to a thread that has failed; and the parts make up the
\* file.
THEOREM CmdImplementsForkJoin == CmdSpec => ImplementsForkJoin
  BY InitAbs, StepAbs, CmdInvariant, CmdParts, PTL
  DEF CmdSpec, ImplementsForkJoin, Abs!AbsSpec
=============================================================================
