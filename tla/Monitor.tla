------------------------------ MODULE Monitor ------------------------------
(***************************************************************************)
(* src/cmd/speedtest.c: cmd_monitor, which polls the traffic counter of    *)
(* the login page once a second, with flow_speed and its ring of samples   *)
(* (src/calc/flow.c) and the clock arithmetic of src/calc/interval.c.      *)
(* The page may fail, and may for once report 0 (the bug of the page that  *)
(* flow.c works around); the wall clock may be set back.  Times are in     *)
(* ticks, Second of them to a second, and all arithmetic on uint64_t is    *)
(* modulo W.                                                               *)
(***************************************************************************)
EXTENDS Integers, Sequences

CONSTANTS FlowNum,   \* FLOW_NUM, the size of the ring
          Second,    \* MILLION, ticks in a second
          MaxSpeed,  \* MAX_FLOW_SPEED
          W,         \* 2^64
          Start,     \* bound: the clock when cmd_monitor is called
          MaxClock,  \* bound: the clock goes up to here
          MaxSamples,\* bound: samples taken
          Rates      \* bound: what the counter may grow by in a tick

ASSUME MonitorAssumption ==
  /\ FlowNum \in Nat /\ FlowNum >= 2
  /\ Second \in Nat \ {0} /\ MaxSpeed \in Nat
  /\ Start \in Nat /\ MaxClock \in Nat /\ MaxSamples \in Nat
  /\ Rates \subseteq Nat
  /\ W \in Nat \ {0}

VARIABLES clock,   \* gettimeofday
          counter, \* what the user has really downloaded
          arr,     \* history->arr: when, and how much
          head, tail,
          shown,   \* what flow_speed returned last
          pc,      \* "get": http_get_flow; "sleep": about to; "asleep"
          wait,    \* ticks left to sleep
          samples, \* history: every sample, the zeroed entry first, with what
                   \* the counter really was
          begun,   \* history: the second in which the sleep began, or -1 if it
                   \* was refused or the clock was set back since
          back     \* history: the clock was set back

vars == <<clock, counter, arr, head, tail, shown, pc, wait, samples, begun, back>>

Flow == [tval : Nat, download : Nat]
Sample == [tval : Nat, download : Nat, really : Nat]
Zero == [tval |-> 0, download |-> 0]
Unread == [tval |-> 0, download |-> 0, really |-> 0]

Init == /\ clock = Start /\ counter = 0
        /\ arr = [k \in 0..FlowNum-1 |-> Zero]
        /\ head = 0 /\ tail = 0
        /\ shown = 0 /\ pc = "get" /\ wait = 0
        /\ samples = <<Unread>>
        /\ begun = -1 /\ back = FALSE

------------------------------------------------------------------------------
(* the world *)

Tick == /\ clock < MaxClock
        /\ pc = "asleep" => wait > 0
        /\ clock' = clock + 1
        /\ \E r \in Rates : counter' = counter + r
        /\ wait' = IF pc = "asleep" THEN wait - 1 ELSE wait
        /\ UNCHANGED <<arr, head, tail, shown, pc, samples, begun, back>>

SetBack == /\ ~back /\ clock > Start
           /\ \E c \in Start .. clock - 1 : clock' = c
           /\ back' = TRUE /\ begun' = -1
           /\ UNCHANGED <<counter, arr, head, tail, shown, pc, wait, samples>>

------------------------------------------------------------------------------
(* src/calc *)

microsec_interval(start, end) == end - start

\* flowKB * MILLION / microsec, the product a uint64_t
PerSecond(kb, microsec) == ((kb * Second) % W) \div microsec

\* cur->download - last->download
Difference(cur, last) == (cur - last) % W

\* A speed past MAX_FLOW_SPEED is a bug of the page.  A speed below 0, for a
\* clock that was set back, becomes a uint64_t that is 0 or larger still.
Plausible(speed) == IF speed < MaxSpeed THEN speed ELSE 0

\* Mutant: an interval of 0 is not replaced by 1 but taken as a second
Interval_Second(us) == IF us = 0 THEN Second ELSE us

Interval(us) == IF us = 0 THEN 1 ELSE us

Speed(cur, last) ==
  LET us == Interval(microsec_interval(last.tval, cur.tval))
      kb == Difference(cur.download, last.download)
  IN  IF us < 0 THEN 0 ELSE Plausible(PerSecond(kb, us))

After(k) == (k + 1) % FlowNum

\* Mutant: tail stays
TailAfter_Stays(cur) == tail

\* The oldest sample is overwritten.
TailAfter(cur) == IF cur = tail THEN After(tail) ELSE tail

flow_speed(download) ==
  LET cur == After(head)
      new == [tval |-> clock, download |-> download]
  IN  /\ arr' = [arr EXCEPT ![cur] = new]
      /\ head' = cur
      /\ tail' = TailAfter(cur)
      /\ shown' = Speed(new, arr[head])
      /\ samples' = Append(samples, [tval |-> clock, download |-> download,
                                     really |-> counter])

------------------------------------------------------------------------------
(* cmd_monitor *)

\* The page reports the counter, or 0.
GetFlow ==
  /\ pc = "get" /\ Len(samples) <= MaxSamples
  /\ \E d \in {counter, 0} : flow_speed(d)
  /\ pc' = "sleep"
  /\ UNCHANGED <<clock, counter, wait, begun, back>>

\* "ERROR" is shown; the ring stays as it is.
GetFails ==
  /\ pc = "get"
  /\ pc' = "sleep"
  /\ UNCHANGED <<clock, counter, arr, head, tail, shown, wait, samples, begun, back>>

\* Mutant: up to the second that has begun
TillNext_Short(c) == Second - 1 - (c % Second)

\* 1000000 - tv_usec % 1000000
TillNext(c) == Second - (c % Second)

\* nanosleep refuses a whole second of nanoseconds.
sleep_till_next_sec ==
  /\ pc = "sleep"
  /\ IF TillNext(clock) = Second
     THEN pc' = "get" /\ begun' = -1 /\ UNCHANGED wait
     ELSE /\ pc' = "asleep" /\ wait' = TillNext(clock)
          /\ begun' = clock \div Second
  /\ UNCHANGED <<clock, counter, arr, head, tail, shown, samples, back>>

Wake == /\ pc = "asleep" /\ wait = 0
        /\ pc' = "get"
        /\ UNCHANGED <<clock, counter, arr, head, tail, shown, wait, samples, begun, back>>

Next == \/ Tick \/ SetBack
        \/ GetFlow \/ GetFails \/ sleep_till_next_sec \/ Wake

Spec == Init /\ [][Next]_vars

------------------------------------------------------------------------------

TypeOK == /\ clock \in Nat /\ counter \in Nat
          /\ arr \in [0..FlowNum-1 -> Flow]
          /\ head \in 0..FlowNum-1 /\ tail \in 0..FlowNum-1
          /\ shown \in Nat
          /\ pc \in {"get", "sleep", "asleep"}
          /\ wait \in 0..Second-1
          /\ samples \in Seq(Sample) /\ samples # <<>>
          /\ begun \in Nat \cup {-1}
          /\ back \in BOOLEAN

Latest(k) == samples[Len(samples) - k]
Reading(sample) == [tval |-> sample.tval, download |-> sample.download]

\* The ring, from tail to head, is the end of the history of samples, in its
\* order and without a gap, and as much of it as there is room for: also after
\* polls that failed and after the head has gone round.
Window == 1 + ((head - tail) % FlowNum)
RingIsHistory ==
  /\ Window = IF Len(samples) < FlowNum THEN Len(samples) ELSE FlowNum
  /\ \A k \in 0 .. Window - 1 :
       arr[(head - k) % FlowNum] = Reading(Latest(k))

\* The reading of the page that was not the counter.
Glitch(k) == Latest(k).download # Latest(k).really

\* The rate at which the counter really grew between the last two samples; 0
\* if the clock was set back.
Rate == LET us == Latest(0).tval - Latest(1).tval
            kb == Latest(0).really - Latest(1).really
        IN  IF us < 0 THEN 0
            ELSE Plausible((kb * Second) \div (IF us = 0 THEN 1 ELSE us))

\* What is shown is the rate at which the counter grew since the last poll that
\* did not fail, however many failed in between, if the page reported the
\* counter both times; and 0 if it now reports the 0 of its bug: a difference
\* that wraps around never looks like a speed.
ShownIsRate == IF Len(samples) = 1 THEN shown = 0
               ELSE /\ Glitch(0) => shown = 0
                    /\ ~Glitch(0) /\ ~Glitch(1) => shown = Rate

\* flow_speed: "to filter such values out", of the second after the page has
\* reported 0.  What it shows then is 0, or right by chance.
GlitchFiltered == Len(samples) > 1 /\ Glitch(1) => shown \in {0, Rate}

\* Unless nanosleep refused to sleep or the clock was set back, a poll is made
\* in a later second than the one before it.
PollsNextSecond == pc = "get" /\ begun # -1 => clock \div Second > begun
=============================================================================
