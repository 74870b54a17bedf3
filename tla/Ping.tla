-------------------------------- MODULE Ping --------------------------------
(***************************************************************************)
(* src/cmd/speedtest.c: do_ping_test, which calls http_ping_once until it  *)
(* has enough answers, and http_ping_once, which makes a connection for    *)
(* each.  Any step of a ping may fail; a ping that fails, or that the      *)
(* clock shows to have taken no time, is made again.                       *)
(*                                                                         *)
(* CmdSpeedtest runs it, in the place of do_ping_test's caller.             *)
(*                                                                         *)
(* Times are in microseconds, Milli of them to a millisecond; the weights  *)
(* of the moving average are exact, Scale times its value being an integer.*)
(***************************************************************************)
EXTENDS Tcp, Sequences, FiniteSetsExt

CONSTANTS Count,  \* SPEEDTEST_PING_TESTS
          Milli,  \* 1000
          Scale,  \* of the jitter
          Rtts    \* what http_ping_once may measure

\* There is one http_t at a time.
me == CHOOSE c \in Conn : TRUE

VARIABLES pc,      \* "init" .. "close" in http_ping_once, "stat" after it
          rtt,     \* what it returned
          i,       \* the loop variable
          prev, min, jitter,
          samples  \* history: the times counted

pingVars == <<rtt, i, prev, min, jitter, samples>>

\* do_ping_test is called.
Fresh == /\ pc = "init" /\ rtt = 0 /\ i = 0
         /\ prev = 0 /\ min = 0 /\ jitter = 0
         /\ samples = <<>>

\* It has returned, and its locals are gone.
Over == /\ pc' = "init" /\ rtt' = 0 /\ i' = 0
        /\ prev' = 0 /\ min' = 0 /\ jitter' = 0
        /\ samples' = <<>>

------------------------------------------------------------------------------
(* http_ping_once *)

Returns(r) == rtt' = r /\ UNCHANGED <<i, prev, min, jitter, samples>>

\* A new http_t, without a descriptor.
InitOk ==
  /\ pc = "init"
  /\ fd' = [fd EXCEPT ![me] = NoFd]
  /\ ssl' = [ssl EXCEPT ![me] = NoFd]
  /\ pc' = "connect"
  /\ UNCHANGED <<owner, mode, sock, stage, pingVars>>

InitFails ==
  /\ pc = "init" /\ pc' = "stat"
  /\ Returns(-1)
  /\ UNCHANGED tcpVars

\* A step of http_connect that is not its last.
Connect ==
  /\ pc = "connect"
  /\ Connecting(me) /\ stage'[me] \notin {"up", "idle"}
  /\ UNCHANGED <<pc, pingVars>>

\* It succeeds; what http_send_request returns is not looked at.
ConnectOk ==
  /\ pc = "connect"
  /\ Connecting(me) /\ stage'[me] = "up"
  /\ pc' = "read"
  /\ UNCHANGED pingVars

ConnectFails ==
  /\ pc = "connect"
  /\ Connecting(me) /\ stage'[me] = "idle"
  /\ pc' = "close"
  /\ Returns(-1)

ReadOk(r) ==
  /\ pc = "read" /\ pc' = "close"
  /\ Returns(r)
  /\ UNCHANGED tcpVars

ReadFails ==
  /\ pc = "read" /\ pc' = "close"
  /\ Returns(-1)
  /\ UNCHANGED tcpVars

\* On each of the three paths behind http_connect.
http_close ==
  /\ pc = "close" /\ pc' = "stat"
  /\ tcp_close(me)
  /\ UNCHANGED pingVars

------------------------------------------------------------------------------
(* do_ping_test *)

Failed(r) == r <= 0

\* A time below a millisecond is replaced by the one before it.
Counted(r) == IF r >= Milli THEN r ELSE IF prev > 0 THEN prev ELSE Milli

\* Mutant: the minimum starts at 0
Least_Zero(t) == IF t < min THEN t ELSE min

Least(t) == IF i = 1 \/ t < min THEN t ELSE min

Distance(a, b) == IF a < b THEN b - a ELSE a - b

\* Mutant: the weights do not add up to 1
Smoothed_Heavy(d) ==
  IF d > jitter THEN (jitter * 3 + d * 8) \div 10 ELSE (jitter * 8 + d * 3) \div 10

\* 0.3 and 0.7 for a larger distance, 0.8 and 0.2 for another
Smoothed(d) ==
  IF d > jitter THEN (jitter * 3 + d * 7) \div 10 ELSE (jitter * 8 + d * 2) \div 10

\* The first distance that counts is the one of the third answer.
JitterAfter(d) == CASE i = 1 -> jitter
                    [] i = 2 -> d
                    [] OTHER -> Smoothed(d)

\* i--; continue
Again == /\ pc = "stat" /\ Failed(rtt)
         /\ pc' = "init"
         /\ UNCHANGED <<tcpVars, pingVars>>

Record ==
  /\ pc = "stat" /\ ~Failed(rtt)
  /\ LET t == Counted(rtt) IN
       /\ prev' = t
       /\ samples' = Append(samples, t)
       /\ IF i = 0 THEN UNCHANGED <<min, jitter>>
                   ELSE /\ min' = Least(t)
                        /\ jitter' = JitterAfter(Scale * Distance(t, prev))
  /\ i' = i + 1
  /\ pc' = IF i + 1 = Count THEN "done" ELSE "init"
  /\ UNCHANGED <<tcpVars, rtt>>

http_ping_once == \/ InitOk \/ InitFails
                  \/ Connect \/ ConnectOk \/ ConnectFails
                  \/ (\E r \in Rtts : ReadOk(r)) \/ ReadFails
                  \/ http_close

do_ping_test == http_ping_once \/ Again \/ Record

------------------------------------------------------------------------------

\* The ping reported is the best of the answers counted but for the first, of
\* all those there are: failures in between neither count nor use one up.
PingIsBest == pc = "done" =>
  /\ Len(samples) = Count
  /\ min = IF Count = 1 THEN 0 ELSE Min({samples[k] : k \in 2..Count})

\* The jitter reported lies between the smallest and the largest distance of
\* two answers that follow each other, the first answer left out.
Distances == {Scale * Distance(samples[k], samples[k - 1]) : k \in 3..Count}
JitterWithin == pc = "done" /\ Count > 2 =>
  jitter \in Min(Distances) .. Max(Distances)
=============================================================================
