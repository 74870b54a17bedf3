----------------------------- MODULE CmdSpeedtest -----------------------------
(***************************************************************************)
(* src/cmd/speedtest.c: cmd_speedtest, the main thread's way through the   *)
(* tests that were asked for: the pings (Ping), then a round of threads    *)
(* for the download and one for the upload (Speedtest), all of them over   *)
(* one descriptor table, and the log (Log) that its threads share.         *)
(*                                                                         *)
(* Of what is logged this has the line each thread begins with, and the    *)
(* one of the main thread after the pings.                                 *)
(***************************************************************************)
EXTENDS Speedtest, Log, Sequences

CONSTANTS Count, Milli, Scale, Rtts, \* of Ping
          MainThread

VARIABLES pc, rtt, ping, prev, min, jitter, samples \* of Ping; its i is ping

P == INSTANCE Ping WITH i <- ping

ASSUME CmdAssumption == /\ Count \in Nat \ {0}
                        /\ Milli \in Nat \ {0}
                        /\ Rtts \subseteq Int
                        /\ Scale \in Nat /\ Scale = 10 ^ Count
                        /\ Writer = Conn \cup {MainThread}
                        /\ Verbose \in BOOLEAN
                        /\ MainThread \notin Conn /\ Nobody \notin Writer
                        /\ MaxRounds = 2

pingVars == <<pc, rtt, ping, prev, min, jitter, samples>>
cmdVars == <<vars, logVars, pingVars>>

Transfers == {"download", "upload"}

\* speedtest_get_config: any of the options; without -d and -u it is both.  A
\* round that was not asked for counts as made.
speedtest_get_config ==
  \E options \in SUBSET (Transfers \cup {"ping"}) :
    LET asked == IF options \cap Transfers = {} THEN Transfers ELSE options \ {"ping"} IN
      /\ rounds = MaxRounds - Cardinality(asked)
      /\ main = IF "ping" \in options THEN "ping" ELSE "idle"

CmdInit ==
  /\ TcpInit /\ LogInit /\ speedtest_get_config
  /\ i = 0 /\ intervals = "none" /\ handles = {} /\ args = {}
  /\ size = [t \in Conn |-> 0]
  /\ thread = [t \in Conn |-> "none"]
  /\ left = [t \in Conn |-> 0]
  /\ moved = [t \in Conn |-> 0]
  /\ P!Fresh

------------------------------------------------------------------------------
(* the pings *)

Ping == main = "ping" /\ P!do_ping_test
          /\ UNCHANGED <<mainVars, threadVars, logVars>>

LogPings == main = "ping" /\ pc = "done" /\ print_log(MainThread)
              /\ UNCHANGED <<vars, pingVars>>

\* Both results are printed; the locals of the test are gone.
ReportPings ==
  /\ main = "ping" /\ pc = "done" /\ at[MainThread] = "back"
  /\ main' = "idle"
  /\ P!Over
  /\ fd' = [fd EXCEPT ![P!me] = NoFd]
  /\ at' = [at EXCEPT ![MainThread] = "call"]
  /\ UNCHANGED <<owner, mode, ssl, sock, stage, i, rounds, intervals, handles,
                 threadVars, mutex, line>>

------------------------------------------------------------------------------
(* the rounds *)

BeginRound == (Begin \/ BeginFails) /\ UNCHANGED <<logVars, pingVars>>

\* A thread that is created has its first line to log.
ForkThread == (Fork \/ ForkFails)
                /\ at' = [at EXCEPT ![i] = "call"]
                /\ UNCHANGED <<mutex, line, pingVars>>

GoOn == (ForkCrashes \/ Join \/ JoinGarbage \/ FreeArrays)
          /\ UNCHANGED <<logVars, pingVars>>

CmdMain == Ping \/ LogPings \/ ReportPings \/ BeginRound \/ ForkThread \/ GoOn

LogThread(t) == At(t, "init") /\ print_log(t)
                  /\ UNCHANGED <<vars, pingVars>>

CmdThread(t) == \/ LogThread(t)
                \/ /\ at[t] = "back" /\ Thread(t)
                   /\ UNCHANGED <<logVars, pingVars>>

Ended == main = "crashed" \/ (main = "idle" /\ rounds = MaxRounds)

CmdNext == \/ CmdMain
           \/ \E t \in Conn : CmdThread(t)
           \/ Ended /\ UNCHANGED cmdVars

\* The main thread and the others are scheduled, the select of socket_connect
\* times out, and a server answers or goes away in the end (reads and writes
\* have no time-out).  Of the outcome of a ping nothing is assumed.
CmdFairness ==
  /\ WF_cmdVars(CmdMain)
  /\ \A t \in Conn :
       WF_cmdVars((stage[t] \in {"idle", "up"} \/ SelectFails(t)) /\ CmdThread(t))

CmdSpec == CmdInit /\ [][CmdNext]_cmdVars /\ CmdFairness

------------------------------------------------------------------------------

\* What is printed of the pings (do_ping_test): the best of the answers but
\* for the first, and a jitter between the least and the largest distance of
\* two that follow each other, whatever failed in between.
PingReported == main = "ping" => P!PingIsBest /\ P!JitterWithin

\* Once the pings are over, if there were any, the command ends
\* (cmd_speedtest), or the process does: no thread is left waiting for a
\* connection, for the log, or for another thread.  The pings themselves need
\* not end: one that fails is made again without a limit.
RoundsEnd == main # "ping" ~> Ended
=============================================================================
