------------------------------ MODULE Speedtest ------------------------------
(***************************************************************************)
(* src/cmd/speedtest.c: speedtest_transfer_concurrent, which cuts the file *)
(* into one part per thread, and the threads, which each open, use and     *)
(* close a connection of their own in the descriptor table they share.     *)
(* cmd_speedtest makes a round for the download and one for the upload.    *)
(* Every result of the HTTP calls of a thread is ignored.                  *)
(*                                                                         *)
(* Thread i is the connection i of Tcp: each has its own http_t.           *)
(***************************************************************************)
EXTENDS Tcp

CONSTANTS ThreadCount, \* config->thread_count
          FileSize,    \* config->filesizeMB
          BlocksPerMB, \* (MB * 1024) / sizeof(buf), reads or writes for 1 MB
          IntW,        \* 2^32, the values of an int
          MaxRounds,   \* download, upload
          Scarce       \* TRUE: memory and threads may run out

ASSUME SpeedtestAssumption == /\ ThreadCount \in Nat \ {0}
                              /\ FileSize \in Nat
                              /\ BlocksPerMB \in Nat \ {0}
                              /\ IntW \in Nat \ {0}
                              /\ MaxRounds \in Nat
                              /\ Scarce \in BOOLEAN
                              /\ Conn = 0 .. ThreadCount - 1
                              /\ TLS = {}

VARIABLES main,      \* speedtest_transfer_concurrent: "idle", "fork", "join",
                     \* "free", or "crashed"
                     \* (CmdSpeedtest: "ping" before the first round)
          i,         \* its loop variable
          rounds,    \* history: rounds begun
          intervals, \* the array the threads write into: "none", "there"
          handles,   \* the threads[t] that pthread_create has set
          args,      \* the transfer_thread_arg_t there are, by thread
          size,      \* its filesizeMB
          thread,    \* where thread t is
          left,      \* reads or writes it still makes
          moved      \* history: those that succeeded; -1 if it has failed

mainVars == <<main, i, rounds, intervals, handles>>
threadVars == <<args, size, thread, left, moved>>
vars == <<owner, mode, fd, ssl, sock, stage,
          main, i, rounds, intervals, handles,
          args, size, thread, left, moved>>

Live == {"init", "connect", "request", "transfer", "close", "write", "free"}

Init == /\ TcpInit
        /\ main = "idle" /\ i = 0 /\ rounds = 0
        /\ intervals = "none"
        /\ handles = {}
        /\ args = {}
        /\ size = [t \in Conn |-> 0]
        /\ thread = [t \in Conn |-> "none"]
        /\ left = [t \in Conn |-> 0]
        /\ moved = [t \in Conn |-> 0]

------------------------------------------------------------------------------
(* the main thread *)

\* threads and intervals are allocated; threads is not initialised.
Begin ==
  /\ main = "idle" /\ rounds < MaxRounds
  /\ main' = "fork" /\ i' = 0 /\ rounds' = rounds + 1
  /\ intervals' = "there"
  /\ handles' = {}
  /\ size' = [t \in Conn |-> 0]
  /\ thread' = [t \in Conn |-> "none"]
  /\ moved' = [t \in Conn |-> 0]
  /\ UNCHANGED <<tcpVars, args, left>>

\* One of the two arrays cannot be had: the round reports 0 at once.
BeginFails ==
  /\ Scarce
  /\ main = "idle" /\ rounds < MaxRounds
  /\ rounds' = rounds + 1
  /\ UNCHANGED <<tcpVars, main, i, intervals, handles, threadVars>>

\* Mutant: the remainder is not given to anyone
Part_Even(t) == FileSize \div ThreadCount

\* base_size, and the remainder for the first thread
Part(t) == FileSize \div ThreadCount
             + IF t = 0 THEN FileSize % ThreadCount ELSE 0

\* i++, and on to next after thread last
Advance(last, next) == IF i = last THEN main' = next /\ i' = 0
                                   ELSE i' = i + 1 /\ UNCHANGED main

Fork ==
  /\ main = "fork"
  /\ args' = args \cup {i}
  /\ size' = [size EXCEPT ![i] = Part(i)]
  /\ thread' = [thread EXCEPT ![i] = "init"]
  /\ handles' = handles \cup {i}
  /\ Advance(ThreadCount - 1, "join")
  /\ UNCHANGED <<tcpVars, rounds, intervals, left, moved>>

\* pthread_create fails, which nobody looks at: the handle stays garbage and
\* the argument, with its part of the file, belongs to no one.
ForkFails ==
  /\ Scarce
  /\ main = "fork"
  /\ args' = args \cup {i}
  /\ size' = [size EXCEPT ![i] = Part(i)]
  /\ moved' = [moved EXCEPT ![i] = -1]
  /\ Advance(ThreadCount - 1, "join")
  /\ UNCHANGED <<tcpVars, rounds, intervals, handles, thread, left>>

\* The argument cannot be had, which nobody looks at either.
ForkCrashes ==
  /\ Scarce
  /\ main = "fork"
  /\ main' = "crashed"
  /\ UNCHANGED <<tcpVars, i, rounds, intervals, handles, threadVars>>

\* Mutant: the last thread is not waited for
LastToJoin_Short == IF ThreadCount > 1 THEN ThreadCount - 2 ELSE 0

LastToJoin == ThreadCount - 1

Joinable(t) == t \in handles /\ thread[t] # "joined"

\* The thread pthread_join(threads[i]) waits for has ended.  Garbage, or the
\* handle of a thread joined before, may happen to name any thread.
Join ==
  /\ main = "join"
  /\ \E t \in Conn : /\ Joinable(i) => t = i
                     /\ thread[t] = "ended"
                     /\ thread' = [thread EXCEPT ![t] = "joined"]
  /\ Advance(LastToJoin, "free")
  /\ UNCHANGED <<tcpVars, rounds, intervals, handles, args, size, left, moved>>

\* Such a handle may also be refused, or end the process.
JoinGarbage ==
  /\ main = "join"
  /\ ~Joinable(i)
  /\ \/ Advance(LastToJoin, "free")
     \/ main' = "crashed" /\ UNCHANGED i
  /\ UNCHANGED <<tcpVars, rounds, intervals, handles, threadVars>>

\* Both arrays are freed, and the round is over.
FreeArrays ==
  /\ main = "free"
  /\ main' = "idle"
  /\ intervals' = "none"
  /\ handles' = {}
  /\ UNCHANGED <<tcpVars, i, rounds, threadVars>>

Main == Begin \/ BeginFails \/ Fork \/ ForkFails \/ ForkCrashes
          \/ Join \/ JoinGarbage \/ FreeArrays

------------------------------------------------------------------------------
(* the threads *)

At(t, where) == main # "crashed" /\ thread[t] = where

GoTo(t, next) == thread' = [thread EXCEPT ![t] = next]

\* Mutant: the http_t is one of the program, and keeps its descriptor
FreshFd_Kept(t) == fd[t]

\* http_init: INVALID_SOCKET
FreshFd(t) == NoFd

\* http_init, on a http_t of the thread's own stack
InitOk(t) ==
  /\ At(t, "init")
  /\ fd' = [fd EXCEPT ![t] = FreshFd(t)]
  /\ ssl' = [ssl EXCEPT ![t] = NoFd]
  /\ GoTo(t, "connect")
  /\ UNCHANGED <<owner, mode, sock, stage, mainVars, args, size, left, moved>>

\* http_init fails: the thread reports 0 and moves nothing.
InitFails(t) ==
  /\ At(t, "init")
  /\ moved' = [moved EXCEPT ![t] = -1]
  /\ GoTo(t, "write")
  /\ UNCHANGED <<tcpVars, mainVars, args, size, left>>

\* http_connect, one step of it at a time.  Also when it fails the thread
\* goes on, with whatever descriptor the http_t has.
http_connect(t) ==
  /\ At(t, "connect")
  /\ Connecting(t)
  /\ IF stage'[t] \in {"up", "idle"} THEN GoTo(t, "request")
                                    ELSE UNCHANGED thread
  /\ UNCHANGED <<mainVars, args, size, left, moved>>

Blocks(mb) == mb * BlocksPerMB

\* A size_t assigned to an int keeps its last 32 bits.
ToInt(n) == LET m == n % IntW IN IF 2 * m < IntW THEN m ELSE m - IntW

\* The request and its header section (download), or nothing (upload); then
\* the number of blocks follows from the size of the part.
Request(t) ==
  /\ At(t, "request")
  /\ LET total == ToInt(Blocks(size[t])) IN
       /\ left' = [left EXCEPT ![t] = IF total > 0 THEN total ELSE 0]
       /\ moved' = [moved EXCEPT ![t] = IF total = Blocks(size[t]) THEN @ ELSE -1]
  /\ GoTo(t, "transfer")
  /\ UNCHANGED <<tcpVars, mainVars, args, size>>

\* Mutant: the loop waits for a read that succeeds
Transfer_Retry(t) ==
  /\ At(t, "transfer")
  /\ left[t] > 0
  /\ left' = [left EXCEPT ![t] = IF stage[t] = "up" THEN @ - 1 ELSE @]
  /\ UNCHANGED <<tcpVars, mainVars, args, size, thread, moved>>

\* http_read or http_write; that it failed or fell short makes no difference
\* to the thread.
Transfer(t) ==
  /\ At(t, "transfer")
  /\ left[t] > 0
  /\ left' = [left EXCEPT ![t] = @ - 1]
  /\ \/ stage[t] = "up" /\ moved[t] >= 0 /\ moved' = [moved EXCEPT ![t] = @ + 1]
     \/ moved' = [moved EXCEPT ![t] = -1]
  /\ UNCHANGED <<tcpVars, mainVars, args, size, thread>>

TransferDone(t) ==
  /\ At(t, "transfer")
  /\ left[t] = 0
  /\ GoTo(t, "close")
  /\ UNCHANGED <<tcpVars, mainVars, args, size, left, moved>>

\* Whether or not there is a connection; the http_t is not freed.
http_close(t) ==
  /\ At(t, "close")
  /\ tcp_close(t)
  /\ GoTo(t, "write")
  /\ UNCHANGED <<mainVars, args, size, left, moved>>

\* *thread_arg->interval = interval
WriteInterval(t) ==
  /\ At(t, "write")
  /\ GoTo(t, "free")
  /\ UNCHANGED <<tcpVars, mainVars, args, size, left, moved>>

\* Mutant: the argument is left to the main thread
FreeArg_Not(t) ==
  /\ At(t, "free")
  /\ GoTo(t, "ended")
  /\ UNCHANGED <<tcpVars, mainVars, args, size, left, moved>>

FreeArg(t) ==
  /\ At(t, "free")
  /\ args' = args \ {t}
  /\ GoTo(t, "ended")
  /\ UNCHANGED <<tcpVars, mainVars, size, left, moved>>

Thread(t) == \/ InitOk(t) \/ InitFails(t)
             \/ http_connect(t) \/ Request(t)
             \/ Transfer(t) \/ TransferDone(t) \/ http_close(t)
             \/ WriteInterval(t) \/ FreeArg(t)

Done == /\ (main = "idle" /\ rounds = MaxRounds) \/ main = "crashed"
        /\ UNCHANGED vars

Next == Main \/ (\E t \in Conn : Thread(t)) \/ Done

Spec == Init /\ [][Next]_vars

------------------------------------------------------------------------------

\* Types; a thread that is not between http_init and http_close has no
\* connection.
TypeOK ==
  /\ TcpTypeOK
  /\ main \in {"idle", "fork", "join", "free", "crashed"}
  /\ i \in Conn
  /\ rounds \in 0..MaxRounds
  /\ intervals \in {"none", "there"}
  /\ handles \subseteq Conn
  /\ args \subseteq Conn
  /\ size \in [Conn -> 0..FileSize]
  /\ thread \in [Conn -> Live \cup {"none", "ended", "joined"}]
  /\ left \in [Conn -> Nat]
  /\ moved \in [Conn -> Int]
  /\ \A t \in Conn :
       stage[t] # "idle" => thread[t] \in {"connect", "request", "transfer", "close"}

\* A thread reads, writes and closes a socket it opened itself in this round,
\* or none: it goes on after a failed http_connect, but then its descriptor is
\* still INVALID_SOCKET and never the number of another thread's socket.
TransferOnOwnSocket == \A t \in Conn :
  thread[t] \in {"request", "transfer", "close"} /\ fd[t] # NoFd =>
    owner[fd[t]] = t

\* intervals and the arguments of threads that run are there: the arrays are
\* freed only after every thread has written its result, also when handles
\* are garbage and joins return early or wait for another thread.
ResultsWritable == \A t \in Conn :
  thread[t] \in Live => intervals = "there" /\ t \in args

\* Between rounds nothing of a round is left: no thread, no socket, and no
\* argument but those of threads that could not be created.
RoundLeavesNothing == main = "idle" =>
  /\ \A f \in Fd : owner[f] = NoConn
  /\ intervals = "none"
  /\ \A t \in Conn : thread[t] \notin Live
  /\ \A t \in args : thread[t] = "none"
  /\ args # {} => Scarce

\* A round ends only when every megabyte of the file is accounted for, once:
\* every block of its part was moved, or something failed for the thread of
\* that part: its creation, http_init, a read or write, or the conversion of
\* its number of blocks to an int.  None falls between the parts.
MovedWhole(t) == thread[t] \in {"ended", "joined"} /\ moved[t] = Blocks(size[t])
Lost(t) == thread[t] \in {"none", "ended", "joined"} /\ moved[t] = -1
OverBy == [t \in Conn |-> IF MovedWhole(t) \/ Lost(t) THEN size[t] ELSE 0]
LostBy == [t \in Conn |-> IF Lost(t) THEN size[t] ELSE 0]
SumOf(f) == LET upTo[k \in 0 .. ThreadCount] ==
                  IF k = 0 THEN 0 ELSE upTo[k - 1] + f[k - 1]
            IN  upTo[ThreadCount]
Busy == main \notin {"ping", "idle"}
Abs == INSTANCE ForkJoin WITH
         Work <- FileSize,
         busy <- Busy,
         rest <- IF Busy THEN FileSize - SumOf(OverBy) ELSE 0,
         lost <- IF Busy THEN SumOf(LostBy) ELSE 0
ImplementsForkJoin == Abs!AbsSpec
=============================================================================
