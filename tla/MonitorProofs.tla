---------------------------- MODULE MonitorProofs ----------------------------
(***************************************************************************)
(* Proofs about Monitor, for any size of the ring, any clock and any       *)
(* traffic.  The ring is followed by two equations, one for the head and   *)
(* one for the tail; the polling by the moment the sleep will end; and the *)
(* arithmetic modulo W by a bound on how far the counter can have moved.   *)
(***************************************************************************)
EXTENDS Monitor, TLAPS

------------------------------------------------------------------------------
(* division by any number *)

\* What \div and % are.
LEMMA DivMod ==
  ASSUME NEW x \in Int, NEW s \in Nat \ {0}
  PROVE  x \div s \in Int /\ x % s \in 0..s-1 /\ x = s * (x \div s) + (x % s)
  OBVIOUS

\* A number that holds q times s divides into q or more.
LEMMA DivLower ==
  ASSUME NEW x \in Nat, NEW s \in Nat \ {0}, NEW q \in Nat, x >= q * s
  PROVE  x \div s \in Nat /\ x \div s >= q
<1> DEFINE d == x \div s
<1>1. d \in Int /\ x < s * d + s
  BY DivMod
<1> HIDE DEF d
<1>2. ASSUME d < q PROVE FALSE
  <2>1. d + 1 <= q
    BY <1>1, <1>2
  <2>2. s * (d + 1) <= s * q
    BY <1>1, <2>1
  <2>3. s * (d + 1) = s * d + s
    BY <1>1
  <2> QED
    BY <1>1, <2>2, <2>3
<1> QED
  BY <1>1, <1>2 DEF d

\* A remainder is the only one.
LEMMA ModUnique ==
  ASSUME NEW w \in Nat \ {0}, NEW q \in Int, NEW r \in 0..w-1
  PROVE  (w * q + r) % w = r
<1> DEFINE x == w * q + r
           d == x \div w
           m == x % w
<1>1. x \in Int /\ d \in Int /\ m \in 0..w-1 /\ x = w * d + m
  BY DivMod
<1> HIDE DEF d, m
<1>2. w * q + r = w * d + m
  BY <1>1 DEF x
<1> HIDE DEF x
<1>3. CASE q = d
  BY <1>1, <1>2, <1>3
<1>4. CASE q < d
  <2>1. w * (d - q) >= w
    BY <1>1, <1>4
  <2>2. w * (d - q) = w * d - w * q
    BY <1>1
  <2> QED
    BY <1>1, <1>2, <2>1, <2>2
<1>5. CASE q > d
  <2>1. w * (q - d) >= w
    BY <1>1, <1>5
  <2>2. w * (q - d) = w * q - w * d
    BY <1>1
  <2> QED
    BY <1>1, <1>2, <2>1, <2>2
<1> QED
  BY <1>1, <1>3, <1>4, <1>5 DEF m, x

\* A place of the ring, k before place h.
LEMMA RingPlace ==
  ASSUME NEW h \in 0..FlowNum-1, NEW k \in 0..FlowNum-1
  PROVE  (h - k) % FlowNum = IF k <= h THEN h - k ELSE h - k + FlowNum
<1>0. FlowNum \in Nat \ {0}
  BY MonitorAssumption
<1>1. CASE k <= h
  <2>1. h - k \in 0..FlowNum-1 /\ h - k = FlowNum * 0 + (h - k)
    BY <1>0, <1>1
  <2> QED
    BY <1>0, <1>1, <2>1, ModUnique
<1>2. CASE ~(k <= h)
  <2>1. h - k + FlowNum \in 0..FlowNum-1 /\ -1 \in Int
    BY <1>0, <1>2
  <2>2. h - k = FlowNum * (-1) + (h - k + FlowNum)
    BY <1>0
  <2>3. (FlowNum * (-1) + (h - k + FlowNum)) % FlowNum = h - k + FlowNum
    BY <1>0, <2>1, ModUnique
  <2> QED
    BY <1>2, <2>2, <2>3
<1> QED
  BY <1>1, <1>2

\* The place after one.
LEMMA NextPlace ==
  ASSUME NEW h \in 0..FlowNum-1
  PROVE  After(h) = IF h = FlowNum - 1 THEN 0 ELSE h + 1
<1>0. FlowNum \in Nat \ {0} /\ FlowNum >= 2
  BY MonitorAssumption
<1>1. CASE h = FlowNum - 1
  <2>1. h + 1 = FlowNum * 1 + 0 /\ 0 \in 0..FlowNum-1
    BY <1>0, <1>1
  <2>2. (FlowNum * 1 + 0) % FlowNum = 0
    BY <1>0, <2>1, ModUnique
  <2> QED
    BY <1>1, <2>1, <2>2 DEF After
<1>2. CASE h # FlowNum - 1
  <2>1. h + 1 = FlowNum * 0 + (h + 1) /\ h + 1 \in 0..FlowNum-1
    BY <1>0, <1>2
  <2>2. (FlowNum * 0 + (h + 1)) % FlowNum = h + 1
    BY <1>0, <2>1, ModUnique
  <2> QED
    BY <1>2, <2>1, <2>2 DEF After
<1> QED
  BY <1>1, <1>2

------------------------------------------------------------------------------
(* types *)

\* A plausible speed is a number.
LEMMA SpeedType ==
  ASSUME NEW cur \in Flow, NEW last \in Flow
  PROVE  Speed(cur, last) \in Nat
<1> DEFINE us == Interval(microsec_interval(last.tval, cur.tval))
           kb == Difference(cur.download, last.download)
<1>1. us \in Int /\ us # 0
  BY DEF Flow, Interval, microsec_interval
<1>2. kb \in Nat
  <2>1. cur.download - last.download \in Int /\ W \in Nat \ {0}
    BY MonitorAssumption DEF Flow
  <2> QED
    BY <2>1, DivMod DEF Difference
<1> HIDE DEF us, kb
<1>3. CASE us < 0
  BY <1>3 DEF Speed, us
<1>4. CASE ~(us < 0)
  <2>1. us \in Nat \ {0}
    BY <1>1, <1>4
  <2>2. (kb * Second) % W \in Nat
    <3>1. kb * Second \in Int /\ W \in Nat \ {0}
      BY <1>2, MonitorAssumption
    <3> QED
      BY <3>1, DivMod
  <2>3. PerSecond(kb, us) \in Nat
    <3>1. (kb * Second) % W >= 0 * us /\ 0 \in Nat
      BY <2>1, <2>2
    <3> QED
      BY <2>1, <2>2, <3>1, DivLower DEF PerSecond
  <2>4. Plausible(PerSecond(kb, us)) \in Nat
    BY <2>3 DEF Plausible
  <2> QED
    BY <1>4, <2>4 DEF Speed, us, kb
<1> QED
  BY <1>3, <1>4

LEMMA InitTypeOK == Init => TypeOK
<1> SUFFICES ASSUME Init PROVE TypeOK
  OBVIOUS
<1>1. Zero \in Flow /\ Unread \in Sample
  BY DEF Zero, Flow, Unread, Sample
<1>2. samples \in Seq(Sample) /\ samples # <<>>
  BY <1>1 DEF Init
<1>3. 0 \in 0..FlowNum-1 /\ 0 \in 0..Second-1
  BY MonitorAssumption
<1>4. arr \in [0..FlowNum-1 -> Flow]
  BY <1>1 DEF Init
<1> QED
  BY <1>2, <1>3, <1>4, MonitorAssumption DEF Init, TypeOK

\* What a sample changes has its type.
LEMMA SampleType ==
  ASSUME TypeOK, NEW d \in Nat, flow_speed(d)
  PROVE  /\ arr' \in [0..FlowNum-1 -> Flow]
         /\ head' \in 0..FlowNum-1 /\ tail' \in 0..FlowNum-1
         /\ shown' \in Nat
         /\ samples' \in Seq(Sample) /\ samples' # <<>>
<1> DEFINE cur == After(head)
           new == [tval |-> clock, download |-> d]
           taken == [tval |-> clock, download |-> d, really |-> counter]
<1>1. cur \in 0..FlowNum-1
  BY NextPlace, MonitorAssumption DEF TypeOK
<1>2. new \in Flow /\ taken \in Sample
  BY DEF Flow, Sample, TypeOK
<1>3. /\ arr' = [arr EXCEPT ![cur] = new] /\ head' = cur
      /\ tail' = TailAfter(cur) /\ shown' = Speed(new, arr[head])
      /\ samples' = Append(samples, taken)
  BY DEF flow_speed
<1> HIDE DEF cur, new, taken
<1>4. tail' \in 0..FlowNum-1
  BY <1>1, <1>3, NextPlace, MonitorAssumption DEF TypeOK, TailAfter
<1>5. shown' \in Nat
  BY <1>2, <1>3, SpeedType DEF TypeOK
<1>6. samples' \in Seq(Sample) /\ samples' # <<>>
  BY <1>2, <1>3 DEF TypeOK
<1> QED
  BY <1>1, <1>2, <1>3, <1>4, <1>5, <1>6 DEF TypeOK

LEMMA StepTypeOK == TypeOK /\ [Next]_vars => TypeOK'
<1> SUFFICES ASSUME TypeOK, [Next]_vars PROVE TypeOK'
  OBVIOUS
<1>1. CASE Tick
  <2>1. PICK r \in Rates : counter' = counter + r
    BY <1>1 DEF Tick
  <2>2. counter' \in Nat
    BY <2>1, MonitorAssumption DEF TypeOK
  <2>3. wait' \in 0..Second-1
    <3>1. pc = "asleep" => wait - 1 \in 0..Second-1
      BY <1>1, MonitorAssumption DEF Tick, TypeOK
    <3> QED
      BY <1>1, <3>1 DEF Tick, TypeOK
  <2>4. clock' \in Nat
    BY <1>1 DEF Tick, TypeOK
  <2> QED
    BY <1>1, <2>2, <2>3, <2>4 DEF Tick, TypeOK
<1>2. CASE SetBack
  <2>1. clock' \in Nat
    BY <1>2, MonitorAssumption DEF SetBack, TypeOK
  <2> QED
    BY <1>2, <2>1 DEF SetBack, TypeOK
<1>3. CASE GetFlow
  <2>1. PICK d \in {counter, 0} : flow_speed(d)
    BY <1>3 DEF GetFlow
  <2>2. d \in Nat
    BY DEF TypeOK
  <2> QED
    BY <1>3, <2>1, <2>2, SampleType DEF GetFlow, TypeOK
<1>4. CASE GetFails
  BY <1>4 DEF GetFails, TypeOK
<1>5. CASE sleep_till_next_sec
  <2>0. clock \in Int /\ Second \in Nat \ {0}
    BY MonitorAssumption DEF TypeOK
  <2>1. CASE TillNext(clock) = Second
    BY <1>5, <2>1 DEF sleep_till_next_sec, TypeOK
  <2>2. CASE TillNext(clock) # Second
    <3>1. TillNext(clock) \in 0..Second-1
      BY <2>0, <2>2, DivMod DEF TillNext
    <3>2. clock \div Second \in Nat
      <4>1. clock >= 0 * Second /\ clock \in Nat /\ 0 \in Nat
        BY <2>0 DEF TypeOK
      <4> QED
        BY <2>0, <4>1, DivLower
    <3> QED
      BY <1>5, <2>2, <3>1, <3>2 DEF sleep_till_next_sec, TypeOK
  <2> QED
    BY <2>1, <2>2
<1>6. CASE Wake
  BY <1>6 DEF Wake, TypeOK
<1>7. CASE UNCHANGED vars
  BY <1>7 DEF vars, TypeOK
<1> QED
  BY <1>1, <1>2, <1>3, <1>4, <1>5, <1>6, <1>7 DEF Next

THEOREM MonitorType == Spec => []TypeOK
  BY InitTypeOK, StepTypeOK, PTL DEF Spec

------------------------------------------------------------------------------
(* one poll per second *)

\* The sleep, if nanosleep accepted it, ends with the second it began in; what
\* comes after it is later.
AwakeAt == begun # -1 =>
  /\ pc = "asleep" => clock + wait = Second * (begun + 1)
  /\ pc = "get" => clock >= Second * (begun + 1)

PollInv == TypeOK /\ AwakeAt

LEMMA StepPollInv == PollInv /\ [Next]_vars => PollInv'
<1> SUFFICES ASSUME PollInv, [Next]_vars PROVE AwakeAt'
  BY StepTypeOK DEF PollInv
<1>0. /\ clock \in Nat /\ wait \in Nat /\ begun \in Int
      /\ Second \in Nat \ {0}
  BY MonitorAssumption DEF PollInv, TypeOK
<1> DEFINE due == Second * (begun + 1)
<1>d. due \in Int
  BY <1>0
<1> HIDE DEF due
<1>1. CASE Tick
  <2>1. begun' = begun /\ pc' = pc /\ clock' = clock + 1
    BY <1>1 DEF Tick
  <2>2. CASE pc = "asleep"
    <3>1. wait' = wait - 1
      BY <1>1, <2>2 DEF Tick
    <3>2. (clock + 1) + (wait - 1) = clock + wait
      BY <1>0
    <3> QED
      BY <2>1, <2>2, <3>1, <3>2 DEF PollInv, AwakeAt
  <2>3. CASE pc # "asleep"
    <3>1. clock >= due => clock + 1 >= due
      BY <1>0, <1>d
    <3> QED
      BY <2>1, <2>3, <3>1 DEF PollInv, AwakeAt, due
  <2> QED
    BY <2>2, <2>3
<1>2. CASE SetBack
  BY <1>2 DEF SetBack, AwakeAt
<1>3. CASE GetFlow \/ GetFails
  BY <1>3 DEF GetFlow, GetFails, AwakeAt
<1>4. CASE sleep_till_next_sec
  <2>1. CASE TillNext(clock) = Second
    BY <1>4, <2>1 DEF sleep_till_next_sec, AwakeAt
  <2>2. CASE TillNext(clock) # Second
    <3>1. /\ clock \div Second \in Int
          /\ clock = Second * (clock \div Second) + (clock % Second)
          /\ clock % Second \in Int
      BY <1>0, DivMod
    <3>2. clock + TillNext(clock) = Second * ((clock \div Second) + 1)
      BY <1>0, <3>1 DEF TillNext
    <3>3. /\ clock' = clock /\ pc' = "asleep" /\ wait' = TillNext(clock)
          /\ begun' = clock \div Second
      BY <1>4, <2>2 DEF sleep_till_next_sec
    <3> QED
      BY <3>2, <3>3 DEF AwakeAt
  <2> QED
    BY <2>1, <2>2
<1>5. CASE Wake
  <2>1. /\ pc = "asleep" /\ wait = 0 /\ pc' = "get"
        /\ clock' = clock /\ begun' = begun
    BY <1>5 DEF Wake
  <2>2. begun # -1 => clock = due
    BY <1>0, <2>1 DEF PollInv, AwakeAt, due
  <2> QED
    BY <1>0, <2>1, <2>2 DEF AwakeAt, due
<1>6. CASE UNCHANGED vars
  BY <1>6 DEF vars, PollInv, AwakeAt
<1> QED
  BY <1>1, <1>2, <1>3, <1>4, <1>5, <1>6 DEF Next

LEMMA AwakeLater == PollInv => PollsNextSecond
<1> SUFFICES ASSUME PollInv, pc = "get", begun # -1
             PROVE  clock \div Second > begun
  BY DEF PollsNextSecond
<1>1. /\ clock \in Nat /\ begun \in Nat /\ Second \in Nat \ {0}
      /\ clock >= Second * (begun + 1)
  BY MonitorAssumption DEF PollInv, TypeOK, AwakeAt
<1>2. begun + 1 \in Nat /\ clock >= (begun + 1) * Second
  BY <1>1
<1>3. clock \div Second \in Nat /\ clock \div Second >= begun + 1
  BY <1>1, <1>2, DivLower
<1> QED
  BY <1>1, <1>3

\* A poll that slept is in a later second than the one before it, wherever in
\* the second each began and however long each took.
THEOREM MonitorPollsNextSecond == Spec => []PollsNextSecond
<1>1. Init => PollInv
  BY InitTypeOK DEF Init, PollInv, AwakeAt
<1> QED
  BY <1>1, StepPollInv, AwakeLater, PTL DEF Spec

------------------------------------------------------------------------------
(* the ring is the end of the history *)

\* Where head and tail are after any number of samples: the tail waits at the
\* first place until the ring is full, then it is just ahead of the head.
Places == IF Len(samples) < FlowNum
          THEN head = Len(samples) - 1 /\ tail = 0
          ELSE tail = After(head)

\* The k-th place before the head holds the k-th sample before the last.
HoldsIn(a, h, s) ==
  \A k \in 0 .. FlowNum - 1 :
    k < Len(s) =>
      a[IF k <= h THEN h - k ELSE h - k + FlowNum] = Reading(s[Len(s) - k])
Holds == HoldsIn(arr, head, samples)

RingInv == TypeOK /\ Places /\ Holds

\* One more sample.
LEMMA SampleRingInv ==
  ASSUME RingInv, NEW d \in Nat, flow_speed(d)
  PROVE  Places' /\ Holds'
<1> DEFINE n == Len(samples)
           cur == After(head)
           new == [tval |-> clock, download |-> d]
           taken == [tval |-> clock, download |-> d, really |-> counter]
<1>0. /\ FlowNum \in Nat /\ FlowNum >= 2 /\ n \in Nat \ {0}
      /\ head \in 0..FlowNum-1 /\ tail \in 0..FlowNum-1
      /\ samples \in Seq(Sample) /\ arr \in [0..FlowNum-1 -> Flow]
  BY MonitorAssumption DEF RingInv, TypeOK
<1>1. new = Reading(taken) /\ taken \in Sample
  BY DEF Sample, Reading, RingInv, TypeOK
<1>2. /\ arr' = [arr EXCEPT ![cur] = new] /\ head' = cur
      /\ tail' = TailAfter(cur) /\ samples' = Append(samples, taken)
  BY DEF flow_speed
<1>3. /\ cur = IF head = FlowNum - 1 THEN 0 ELSE head + 1
      /\ cur \in 0..FlowNum-1
  BY <1>0, NextPlace
<1> HIDE DEF new, taken
<1>4. /\ samples' \in Seq(Sample) /\ Len(samples') = n + 1
      /\ samples'[n + 1] = taken
      /\ \A j \in 1..n : samples'[j] = samples[j]
  BY <1>0, <1>1, <1>2
<1> HIDE DEF n, cur
<1>5. Places'
  <2>1. CASE n < FlowNum
    <3>1. head = n - 1 /\ tail = 0
      BY <2>1 DEF RingInv, Places, n
    <3>2. CASE n + 1 < FlowNum
      <4>1. cur = n /\ cur # tail
        BY <1>0, <1>3, <3>1, <3>2
      <4>2. head' = (n + 1) - 1 /\ tail' = 0
        BY <1>0, <1>2, <3>1, <4>1 DEF TailAfter
      <4> QED
        BY <1>4, <3>2, <4>2 DEF Places
    <3>3. CASE n + 1 = FlowNum
      <4>1. cur = FlowNum - 1 /\ cur # tail
        BY <1>0, <1>3, <3>1, <3>3
      <4>2. head' = FlowNum - 1 /\ tail' = 0 /\ After(FlowNum - 1) = 0
        BY <1>0, <1>2, <3>1, <4>1, NextPlace DEF TailAfter
      <4>3. ~(n + 1 < FlowNum)
        BY <1>0, <3>3
      <4> QED
        BY <1>4, <4>2, <4>3 DEF Places, After
    <3> QED
      BY <1>0, <2>1, <3>2, <3>3
  <2>2. CASE ~(n < FlowNum)
    <3>1. tail = cur
      BY <2>2 DEF RingInv, Places, n, cur
    <3>2. tail' = After(cur) /\ head' = cur
      BY <1>2, <3>1 DEF TailAfter
    <3>3. ~(n + 1 < FlowNum)
      BY <1>0, <2>2
    <3> QED
      BY <1>4, <3>2, <3>3 DEF Places, After
  <2> QED
    BY <2>1, <2>2
<1>6. Holds'
  <2>1. PICK a, s : a = arr' /\ s = samples'
    OBVIOUS
  <2>2. /\ a = [arr EXCEPT ![cur] = new] /\ Len(s) = n + 1 /\ s[n + 1] = taken
        /\ \A j \in 1..n : s[j] = samples[j]
    BY <1>2, <1>4, <2>1
  <2>3. ASSUME NEW k \in 0 .. FlowNum - 1, k < Len(s)
        PROVE  a[IF k <= cur THEN cur - k ELSE cur - k + FlowNum] = Reading(s[Len(s) - k])
    <3>1. CASE k = 0
      BY <1>0, <1>1, <1>3, <2>2, <3>1
    <3>2. CASE k # 0
      <4> DEFINE place == IF k - 1 <= head THEN head - (k - 1)
                                           ELSE head - (k - 1) + FlowNum
      <4>1. /\ (IF k <= cur THEN cur - k ELSE cur - k + FlowNum) = place
            /\ place \in 0..FlowNum-1 /\ place # cur
        BY <1>0, <1>3, <3>2
      <4>2. k - 1 \in 0..FlowNum-1 /\ k - 1 < n
        BY <1>0, <2>2, <2>3, <3>2
      <4>3. arr[place] = Reading(samples[n - (k - 1)])
        BY <4>2 DEF RingInv, Holds, HoldsIn, n
      <4>4. Len(s) - k \in 1..n /\ Len(s) - k = n - (k - 1)
        BY <1>0, <2>2, <2>3, <3>2
      <4>5. a[place] = arr[place]
        BY <1>0, <2>2, <4>1
      <4> HIDE DEF place
      <4> QED
        BY <2>2, <4>1, <4>3, <4>4, <4>5
    <3> QED
      BY <3>1, <3>2
  <2>4. HoldsIn(a, cur, s)
    BY <2>3 DEF HoldsIn
  <2> QED
    BY <1>2, <2>1, <2>4 DEF Holds
<1> QED
  BY <1>5, <1>6

LEMMA InitRingInv == Init => RingInv
<1> SUFFICES ASSUME Init PROVE Places /\ Holds
  BY InitTypeOK DEF RingInv
<1>1. Len(samples) = 1 /\ samples[1] = Unread /\ FlowNum \in Nat /\ FlowNum >= 2
  BY MonitorAssumption DEF Init
<1>2. Places
  BY <1>1 DEF Init, Places
<1>3. ASSUME NEW k \in 0 .. FlowNum - 1, k < 1
      PROVE  arr[IF k <= head THEN head - k ELSE head - k + FlowNum]
              = Reading(samples[1 - k])
  <2>1. k = 0
    BY <1>3
  <2> QED
    BY <1>1, <2>1 DEF Init, Zero, Unread, Reading
<1> QED
  BY <1>1, <1>2, <1>3 DEF Holds, HoldsIn

LEMMA StepRingInv == RingInv /\ [Next]_vars => RingInv'
<1> SUFFICES ASSUME RingInv, [Next]_vars PROVE Places' /\ Holds'
  BY StepTypeOK DEF RingInv
<1>1. CASE GetFlow
  <2>1. PICK d \in {counter, 0} : flow_speed(d)
    BY <1>1 DEF GetFlow
  <2>2. d \in Nat
    BY DEF RingInv, TypeOK
  <2> QED
    BY <2>1, <2>2, SampleRingInv
<1>2. CASE UNCHANGED <<arr, head, tail, samples>>
  BY <1>2 DEF RingInv, Places, Holds, After
<1> QED
  BY <1>1, <1>2
  DEF Next, Tick, SetBack, GetFails, sleep_till_next_sec, Wake, vars

LEMMA RingFollows == RingInv => RingIsHistory
<1> SUFFICES ASSUME RingInv PROVE RingIsHistory
  OBVIOUS
<1> DEFINE n == Len(samples)
<1>0. /\ FlowNum \in Nat /\ FlowNum >= 2 /\ n \in Nat \ {0}
      /\ head \in 0..FlowNum-1 /\ tail \in 0..FlowNum-1
  BY MonitorAssumption DEF RingInv, TypeOK
<1>1. (head - tail) % FlowNum = IF tail <= head THEN head - tail
                                                ELSE head - tail + FlowNum
  BY <1>0, RingPlace
<1>2. Window = IF n < FlowNum THEN n ELSE FlowNum
  <2>1. CASE n < FlowNum
    <3>1. head = n - 1 /\ tail = 0
      BY <2>1 DEF RingInv, Places
    <3> QED
      BY <1>0, <1>1, <2>1, <3>1 DEF Window
  <2>2. CASE ~(n < FlowNum)
    <3>1. tail = IF head = FlowNum - 1 THEN 0 ELSE head + 1
      BY <1>0, <2>2, NextPlace DEF RingInv, Places
    <3> QED
      BY <1>0, <1>1, <2>2, <3>1 DEF Window
  <2> QED
    BY <2>1, <2>2
<1>3. ASSUME NEW k \in 0 .. Window - 1
      PROVE  arr[(head - k) % FlowNum] = Reading(Latest(k))
  <2>1. k \in 0..FlowNum-1 /\ k < n
    BY <1>0, <1>2
  <2>2. (head - k) % FlowNum = IF k <= head THEN head - k ELSE head - k + FlowNum
    BY <1>0, <2>1, RingPlace
  <2> QED
    BY <2>1, <2>2 DEF RingInv, Holds, HoldsIn, Latest
<1> QED
  BY <1>2, <1>3 DEF RingIsHistory

\* However many samples are taken, fail or come after the head went round, the
\* ring is the end of the history without a gap.
THEOREM MonitorRingIsHistory == Spec => []RingIsHistory
  BY InitRingInv, StepRingInv, RingFollows, PTL DEF Spec

------------------------------------------------------------------------------
(* what is shown is a rate *)

\* A run in which nothing overflows: for D ticks, while the counter grows by at
\* most R a tick, twice the traffic and the largest plausible speed stay below
\* W.  (The clock may be set back once, so the counter may count D ticks twice.
\* With ticks of a microsecond, W = 2^64 and MAX_FLOW_SPEED, a run of a month at
\* one KB per microsecond is such a run.)
NoOverflow(R, D) ==
  /\ R \in Nat /\ D \in Nat
  /\ Rates \subseteq 0..R
  /\ MaxClock <= Start + D
  /\ 2 * (R * D) * Second + MaxSpeed * (D + 1) < W

\* How far the counter can be when the clock is where it is.
TwiceCounted(b, R, D) == IF b THEN R * D ELSE 0
CounterAt(c, n, b, R, D) ==
  /\ c \in Start .. Start + D
  /\ n <= R * (c - Start) + TwiceCounted(b, R, D)
CounterBound(R, D) == CounterAt(clock, counter, back, R, D)

\* The last sample is the zeroed entry, or was taken in the run.
LastBound(R, D) ==
  \/ Latest(0) = Unread
  \/ /\ Latest(0).tval \in Start .. Start + D
     /\ Latest(0).download \in 0 .. 2 * (R * D)

\* The counter never goes back: what it was at the last sample it has passed.
Passed == Latest(0).really <= counter

RateInv(R, D) == /\ RingInv /\ CounterBound(R, D) /\ LastBound(R, D)
                 /\ Passed /\ ShownIsRate

\* The bound on the counter that does not depend on the clock.
LEMMA CounterMost ==
  ASSUME NEW R, NEW D, NoOverflow(R, D), CounterBound(R, D), TypeOK
  PROVE  R * D \in Nat /\ counter \in 0 .. 2 * (R * D)
<1>1. R \in Nat /\ D \in Nat /\ clock - Start \in 0..D /\ counter \in Nat
  BY MonitorAssumption
  DEF NoOverflow, CounterBound, CounterAt, TwiceCounted, TypeOK
<1>2. R * D \in Nat /\ R * (clock - Start) <= R * D /\ R * (clock - Start) \in Nat
  BY <1>1
<1>3. counter <= R * (clock - Start) + (R * D)
  BY <1>1, <1>2 DEF CounterBound, CounterAt, TwiceCounted
<1> QED
  BY <1>1, <1>2, <1>3

\* A difference that is not negative is not touched by the arithmetic modulo W;
LEMMA RateForward ==
  ASSUME NEW m \in Nat, m * Second < W, NEW us \in Nat \ {0}
  PROVE  PerSecond(m % W, us) = (m * Second) \div us
<1>0. W \in Nat \ {0} /\ Second \in Nat \ {0} /\ m * Second \in Nat
  BY MonitorAssumption
<1>1. m <= m * Second
  BY <1>0
<1>2. m = W * 0 + m /\ m \in 0..W-1 /\ m * Second = W * 0 + m * Second
      /\ m * Second \in 0..W-1 /\ 0 \in Int
  BY <1>0, <1>1
<1>3. m % W = m
  BY <1>0, <1>2, ModUnique
<1>4. (m * Second) % W = m * Second
  BY <1>0, <1>2, ModUnique
<1> QED
  BY <1>3, <1>4 DEF PerSecond

\* one that is wraps around to a speed past MAX_FLOW_SPEED.
LEMMA RateBackward ==
  ASSUME NEW m \in Nat \ {0}, NEW us \in Nat \ {0},
         m * Second + MaxSpeed * us < W
  PROVE  PerSecond((-m) % W, us) >= MaxSpeed
<1>0. /\ W \in Nat \ {0} /\ Second \in Nat \ {0} /\ MaxSpeed \in Nat
      /\ m * Second \in Nat \ {0} /\ MaxSpeed * us \in Nat
  BY MonitorAssumption
<1>1. m <= m * Second
  BY <1>0
<1>2. W - m \in 0..W-1 /\ -m = W * (-1) + (W - m) /\ -1 \in Int
  BY <1>0, <1>1
<1>3. (-m) % W = W - m
  BY <1>0, <1>2, ModUnique
<1>4. /\ W - m * Second \in 0..W-1 /\ Second - 1 \in Int
      /\ (W - m) * Second = W * (Second - 1) + (W - m * Second)
  <2>1. W - m * Second \in 0..W-1 /\ Second - 1 \in Int
    BY <1>0
  <2>2. (W - m) * Second = W * Second - m * Second
    BY <1>0
  <2>3. W * (Second - 1) = W * Second - W
    BY <1>0
  <2> QED
    BY <1>0, <2>1, <2>2, <2>3
<1>5. ((W - m) * Second) % W = W - m * Second
  BY <1>0, <1>4, ModUnique
<1>6. W - m * Second \in Nat /\ W - m * Second >= MaxSpeed * us
  BY <1>0
<1>7. (W - m * Second) \div us >= MaxSpeed
  BY <1>0, <1>6, DivLower
<1> QED
  BY <1>3, <1>5, <1>7 DEF PerSecond

\* The rate between two readings.
RateOf(cur, last) ==
  LET us == cur.tval - last.tval
      kb == cur.download - last.download
  IN  IF us < 0 \/ kb < 0 THEN 0
      ELSE Plausible((kb * Second) \div (IF us = 0 THEN 1 ELSE us))

\* flow_speed computes it for a sample of the run.
LEMMA SpeedIsRate ==
  ASSUME NEW R, NEW D, NoOverflow(R, D), NEW cur \in Flow, NEW last \in Flow,
         cur.tval \in Start .. Start + D, cur.download \in 0 .. 2 * (R * D),
         \/ last = Zero
         \/ /\ last.tval \in Start .. Start + D
            /\ last.download \in 0 .. 2 * (R * D)
  PROVE  Speed(cur, last) = RateOf(cur, last)
<1> DEFINE us == cur.tval - last.tval
           iv == IF us = 0 THEN 1 ELSE us
           kb == cur.download - last.download
           T == 2 * (R * D)
<1>0. /\ W \in Nat \ {0} /\ Second \in Nat \ {0} /\ MaxSpeed \in Nat
      /\ R \in Nat /\ D \in Nat /\ Start \in Nat
      /\ T * Second + MaxSpeed * (D + 1) < W
  BY MonitorAssumption DEF NoOverflow
<1>1. R * D \in Nat /\ T \in Nat
  BY <1>0
<1>2. /\ cur.tval \in Nat /\ last.tval \in Nat /\ cur.download \in Nat
      /\ last.download \in Nat
  BY DEF Flow
<1>3. us \in Int /\ kb \in Int
  BY <1>2
<1>4. last.download > 0 => us <= D
  BY <1>0, <1>2 DEF Zero
<1>5. cur.download <= T /\ last.download <= T
  BY <1>0, <1>1, <1>2 DEF Zero
<1>6. /\ Interval(microsec_interval(last.tval, cur.tval)) = iv
      /\ Difference(cur.download, last.download) = kb % W
  BY DEF Interval, microsec_interval, Difference
<1> HIDE DEF T
<1>7. CASE us < 0
  <2>1. Speed(cur, last) = 0
    BY <1>3, <1>6, <1>7 DEF Speed
  <2> QED
    BY <1>7, <2>1 DEF RateOf
<1>8. CASE us >= 0 /\ kb >= 0
  <2>1. kb \in Nat /\ kb <= T /\ iv \in Nat \ {0} /\ ~(iv < 0)
    BY <1>1, <1>2, <1>3, <1>5, <1>8
  <2>2. kb * Second <= T * Second /\ T * Second < W
    <3>1. MaxSpeed * (D + 1) \in Nat /\ T * Second \in Nat
      BY <1>0, <1>1
    <3> QED
      BY <1>0, <1>1, <2>1, <3>1
  <2>3. kb * Second < W
    <3>1. kb * Second \in Nat /\ T * Second \in Nat
      BY <1>0, <1>1, <2>1
    <3> QED
      BY <1>0, <2>2, <3>1
  <2> HIDE DEF kb, iv
  <2>4. PerSecond(kb % W, iv) = (kb * Second) \div iv
    BY <2>1, <2>3, RateForward
  <2>5. Speed(cur, last) = Plausible((kb * Second) \div iv)
    BY <1>6, <2>1, <2>4 DEF Speed
  <2>6. RateOf(cur, last) = Plausible((kb * Second) \div iv)
    BY <1>3, <1>8 DEF RateOf, kb, iv
  <2> QED
    BY <2>5, <2>6
<1>9. CASE us >= 0 /\ kb < 0
  <2> DEFINE m == -kb
  <2>1. m \in Nat \ {0} /\ m <= T /\ -m = kb /\ last.download > 0
    BY <1>1, <1>2, <1>3, <1>5, <1>9
  <2>2. iv \in Nat \ {0} /\ iv <= D + 1 /\ ~(iv < 0)
    BY <1>0, <1>3, <1>4, <1>9, <2>1
  <2> HIDE DEF m, iv, kb
  <2>3. m * Second <= T * Second /\ MaxSpeed * iv <= MaxSpeed * (D + 1)
    BY <1>0, <1>1, <2>1, <2>2
  <2>4. m * Second + MaxSpeed * iv < W
    <3>1. /\ m * Second \in Nat /\ T * Second \in Nat
          /\ MaxSpeed * iv \in Nat /\ MaxSpeed * (D + 1) \in Nat
      BY <1>0, <1>1, <2>1, <2>2
    <3> QED
      BY <1>0, <2>3, <3>1
  <2>5. PerSecond((-m) % W, iv) >= MaxSpeed
    BY <2>1, <2>2, <2>4, RateBackward
  <2>6. PerSecond(kb % W, iv) \in Int
    <3>1. kb % W \in Int
      BY <1>0, <1>3, DivMod DEF kb
    <3>2. (kb % W) * Second \in Int
      BY <1>0, <3>1
    <3>3. ((kb % W) * Second) % W \in Int
      BY <1>0, <3>2, DivMod
    <3> QED
      BY <2>2, <3>3, DivMod DEF PerSecond
  <2>7. Plausible(PerSecond(kb % W, iv)) = 0
    BY <1>0, <2>1, <2>5, <2>6 DEF Plausible
  <2>8. Speed(cur, last) = 0
    BY <1>6, <2>2, <2>7 DEF Speed
  <2> QED
    BY <1>9, <2>8 DEF RateOf, kb
<1> QED
  BY <1>3, <1>7, <1>8, <1>9

LEMMA ZeroDiv == ASSUME NEW s \in Nat \ {0} PROVE 0 \div s = 0
  OBVIOUS

\* A reading of 0 is never a speed, whatever came before it.
LEMMA RateOfZero ==
  ASSUME NEW cur \in Flow, NEW last \in Flow, cur.download = 0
  PROVE  RateOf(cur, last) = 0
<1> DEFINE us == cur.tval - last.tval
           iv == IF us = 0 THEN 1 ELSE us
           kb == cur.download - last.download
<1>1. us \in Int /\ kb \in Int /\ kb <= 0 /\ MaxSpeed \in Nat /\ Second \in Nat
  BY MonitorAssumption DEF Flow
<1> HIDE DEF us, kb
<1>2. CASE us < 0 \/ kb < 0
  BY <1>2 DEF RateOf, us, kb
<1>3. CASE ~(us < 0 \/ kb < 0)
  <2>1. kb * Second = 0 /\ iv \in Nat \ {0}
    BY <1>1, <1>3
  <2>3. 0 \div iv = 0
    BY <2>1, ZeroDiv
  <2>4. RateOf(cur, last) = Plausible((kb * Second) \div iv)
    BY <1>3 DEF RateOf, us, kb
  <2> QED
    BY <1>1, <2>1, <2>3, <2>4 DEF Plausible
<1> QED
  BY <1>2, <1>3

\* A sample of the run.
LEMMA SampleRateInv ==
  ASSUME NEW R, NEW D, NoOverflow(R, D), RateInv(R, D),
         NEW d \in {counter, 0}, flow_speed(d), UNCHANGED counter
  PROVE  LastBound(R, D)' /\ Passed' /\ ShownIsRate'
<1> DEFINE n == Len(samples)
           cur == After(head)
           new == [tval |-> clock, download |-> d]
           taken == [tval |-> clock, download |-> d, really |-> counter]
           last == Reading(samples[n])
<1>0. RingInv /\ TypeOK /\ CounterBound(R, D) /\ LastBound(R, D) /\ Passed
  BY DEF RateInv, RingInv
<1>1. /\ samples \in Seq(Sample) /\ n \in Nat \ {0} /\ head \in 0..FlowNum-1
      /\ FlowNum \in Nat /\ FlowNum >= 2 /\ counter \in Nat
  BY <1>0, MonitorAssumption DEF TypeOK
<1>2. /\ new \in Flow /\ new.tval = clock /\ new.download = d
      /\ taken \in Sample /\ taken.tval = clock /\ taken.download = d
      /\ taken.really = counter
  BY <1>0 DEF Flow, Sample, TypeOK
<1>3. /\ new.tval \in Start .. Start + D /\ new.download \in 0 .. 2 * (R * D)
  <2>1. R * D \in Nat /\ counter \in 0 .. 2 * (R * D) /\ 0 \in 0 .. 2 * (R * D)
    BY <1>0, CounterMost
  <2> QED
    BY <1>0, <1>2, <2>1 DEF CounterBound, CounterAt, TwiceCounted
<1>4. shown' = Speed(new, arr[head]) /\ samples' = Append(samples, taken)
  BY DEF flow_speed
<1>5. /\ samples[n] \in Sample /\ last \in Flow
      /\ last.tval = samples[n].tval /\ last.download = samples[n].download
  <2>1. samples[n] \in Sample
    BY <1>1
  <2>2. samples[n].tval \in Nat /\ samples[n].download \in Nat
    BY <2>1 DEF Sample
  <2> QED
    BY <2>1, <2>2 DEF Flow, Reading
<1>6. arr[head] = last
  <2>1. 0 \in 0 .. FlowNum - 1 /\ 0 < Len(samples) /\ 0 <= head
    BY <1>1
  <2>2. arr[head - 0] = Reading(samples[n - 0])
    BY <1>0, <2>1 DEF RingInv, Holds, HoldsIn
  <2> QED
    BY <1>1, <2>2
<1>7. Latest(0) = samples[n]
  BY <1>1 DEF Latest
<1>8. \/ last = Zero
      \/ last.tval \in Start .. Start + D /\ last.download \in 0 .. 2 * (R * D)
  BY <1>0, <1>5, <1>7 DEF LastBound, Unread, Zero, Reading
<1> HIDE DEF new, taken, n, last
<1>9. shown' = RateOf(new, last)
  BY <1>2, <1>3, <1>4, <1>5, <1>6, <1>8, SpeedIsRate
<1>10. PICK s : s = samples'
  OBVIOUS
<1>11. Len(s) = n + 1 /\ s[n + 1] = taken /\ s[n] = samples[n]
  BY <1>1, <1>2, <1>4, <1>10 DEF n
<1>12. /\ s[Len(s) - 0] = taken /\ s[Len(s) - 1] = samples[n] /\ Len(s) # 1
  BY <1>1, <1>11
<1>13. Latest(0)' = taken /\ Latest(1)' = samples[n] /\ Len(samples') # 1
  BY <1>10, <1>12 DEF Latest
<1>14. LastBound(R, D)'
  BY <1>2, <1>3, <1>13 DEF LastBound
<1>15. Passed'
  BY <1>1, <1>2, <1>13 DEF Passed
<1>16. Glitch(0)' => shown' = 0
  <2>1. ASSUME Glitch(0)' PROVE d = 0
    BY <1>2, <1>13, <2>1 DEF Glitch
  <2> QED
    BY <1>2, <1>5, <1>9, <2>1, RateOfZero
<1>17. ASSUME ~Glitch(0)', ~Glitch(1)' PROVE shown' = Rate'
  <2>1. /\ new.tval = taken.tval /\ new.download = taken.really
        /\ last.tval = samples[n].tval /\ last.download = samples[n].really
    BY <1>2, <1>5, <1>13, <1>17 DEF Glitch
  <2>2. /\ new.download - last.download \in Nat
    <3>1. samples[n].really <= counter /\ samples[n].really \in Nat
      BY <1>0, <1>5, <1>7 DEF Passed, Sample
    <3> QED
      BY <1>1, <1>2, <2>1, <3>1
  <2>3. ~(new.download - last.download < 0)
    BY <2>2
  <2>4. Rate' = IF taken.tval - samples[n].tval < 0 THEN 0
                ELSE Plausible(((taken.really - samples[n].really) * Second) \div
                               (IF taken.tval - samples[n].tval = 0 THEN 1
                                ELSE taken.tval - samples[n].tval))
    BY <1>13 DEF Rate
  <2> QED
    BY <1>9, <2>1, <2>3, <2>4 DEF RateOf
<1> QED
  BY <1>13, <1>14, <1>15, <1>16, <1>17 DEF ShownIsRate

LEMMA StepRateInv ==
  ASSUME NEW R, NEW D, NoOverflow(R, D)
  PROVE  RateInv(R, D) /\ [Next]_vars => RateInv(R, D)'
<1> SUFFICES ASSUME RateInv(R, D), [Next]_vars
             PROVE  CounterBound(R, D)' /\ LastBound(R, D)' /\ Passed' /\ ShownIsRate'
  BY StepRingInv DEF RateInv
<1>0. /\ R \in Nat /\ D \in Nat /\ clock \in Nat /\ counter \in Nat
      /\ Start \in Nat /\ MaxClock \in Nat /\ clock \in Start .. Start + D
      /\ back \in BOOLEAN
  BY MonitorAssumption 
  DEF NoOverflow, RateInv, RingInv, CounterBound, CounterAt, TypeOK
<1> DEFINE more == TwiceCounted(back, R, D)
<1>a. R * D \in Nat /\ more \in Nat /\ R * (clock - Start) \in Nat
  BY <1>0 DEF TwiceCounted
<1>b. counter <= R * (clock - Start) + more
  BY DEF RateInv, CounterBound, CounterAt
<1>1. ASSUME UNCHANGED <<samples, shown>>
      PROVE  LastBound(R, D)' /\ ShownIsRate'
  BY <1>1 DEF RateInv, LastBound, ShownIsRate, Glitch, Rate, Latest
<1>p. ASSUME UNCHANGED samples, counter' \in Nat, counter' >= counter
      PROVE  Passed'
  <2>1. Latest(0) \in Sample
    <3>1. Len(samples) - 0 \in 1 .. Len(samples)
      BY DEF RateInv, RingInv, TypeOK
    <3> QED
      BY <3>1 DEF RateInv, RingInv, TypeOK, Latest
  <2>2. Latest(0).really \in Nat /\ Latest(0)' = Latest(0)
    BY <1>p, <2>1 DEF Sample, Latest
  <2>3. Latest(0).really <= counter
    BY DEF RateInv, Passed
  <2>4. Latest(0).really <= counter'
    BY <1>0, <1>p, <2>2, <2>3
  <2> QED
    BY <2>2, <2>4 DEF Passed
<1>2. ASSUME UNCHANGED <<clock, counter, back>>
      PROVE  CounterBound(R, D)'
  BY <1>2 DEF RateInv, CounterBound
<1>3. CASE Tick
  <2>1. PICK r \in Rates : counter' = counter + r
    BY <1>3 DEF Tick
  <2>2. r \in 0..R /\ clock < MaxClock /\ MaxClock <= Start + D
    BY <1>3, <2>1 DEF NoOverflow, Tick
  <2>3. R * ((clock + 1) - Start) = R * (clock - Start) + R
    BY <1>0
  <2>4. clock + 1 \in Start .. Start + D
    BY <1>0, <2>2
  <2> HIDE DEF more
  <2>5. counter + r <= R * ((clock + 1) - Start) + more
    BY <1>0, <1>a, <1>b, <2>2, <2>3
  <2>6. clock' = clock + 1 /\ back' = back
    BY <1>3 DEF Tick
  <2>7. CounterAt(clock + 1, counter + r, back, R, D)
    BY <2>4, <2>5 DEF CounterAt, more
  <2>8. CounterBound(R, D)'
    BY <2>1, <2>6, <2>7 DEF CounterBound
  <2>9. counter' \in Nat /\ counter' >= counter
    BY <1>0, <2>1, <2>2
  <2> QED
    BY <1>1, <1>p, <1>3, <2>8, <2>9 DEF Tick
<1>4. CASE SetBack
  <2>1. PICK c \in Start .. clock - 1 : clock' = c
    BY <1>4 DEF SetBack
  <2>2. ~back /\ back' = TRUE /\ counter' = counter
    BY <1>4 DEF SetBack
  <2>3. R * (clock - Start) <= R * D /\ R * (c - Start) \in Nat
    BY <1>0, <2>1
  <2>4. c \in Start .. Start + D /\ counter <= R * (c - Start) + R * D
    <3>1. more = 0
      BY <2>2 DEF TwiceCounted
    <3> QED
      BY <1>0, <1>a, <1>b, <2>1, <2>3, <3>1
  <2>5. CounterBound(R, D)'
    BY <2>1, <2>2, <2>4 DEF CounterBound, CounterAt, TwiceCounted
  <2>6. counter' \in Nat /\ counter' >= counter
    BY <1>0, <2>2
  <2> QED
    BY <1>1, <1>p, <1>4, <2>5, <2>6 DEF SetBack
<1>5. CASE GetFlow
  <2>1. PICK d \in {counter, 0} : flow_speed(d)
    BY <1>5 DEF GetFlow
  <2>2. LastBound(R, D)' /\ Passed' /\ ShownIsRate'
    BY <1>5, <2>1, SampleRateInv DEF GetFlow
  <2> QED
    BY <1>2, <1>5, <2>2 DEF GetFlow
<1>6. CASE GetFails \/ sleep_till_next_sec \/ Wake \/ UNCHANGED vars
  <2>1. counter' \in Nat /\ counter' >= counter
    BY <1>0, <1>6 DEF GetFails, sleep_till_next_sec, Wake, vars
  <2> QED
    BY <1>1, <1>2, <1>p, <1>6, <2>1 DEF GetFails, sleep_till_next_sec, Wake, vars
<1> QED
  BY <1>3, <1>4, <1>5, <1>6 DEF Next

\* In a run in which nothing overflows, two readings of the counter show the
\* rate at which it grew, and the 0 of the page's bug shows 0: with the
\* arithmetic of flow_speed modulo W, a reading or a clock that went back never
\* shows as a speed.  Nothing is said of the reading after a 0 of the bug.
THEOREM MonitorShownIsRate ==
  ASSUME NEW R, NEW D, NoOverflow(R, D)
  PROVE  Spec => []ShownIsRate
<1>1. Init => RateInv(R, D)
  <2> SUFFICES ASSUME Init PROVE RateInv(R, D)
    OBVIOUS
  <2>1. Len(samples) = 1 /\ Latest(0) = Unread
    BY DEF Init, Latest
  <2>2. LastBound(R, D) /\ Passed /\ ShownIsRate
    BY <2>1 DEF Init, LastBound, Passed, ShownIsRate, Unread
  <2>3. CounterBound(R, D)
    <3>1. Start \in Nat /\ D \in Nat /\ R \in Nat /\ R * (Start - Start) = 0
      BY MonitorAssumption DEF NoOverflow
    <3> QED
      BY <3>1 DEF Init, CounterBound, CounterAt, TwiceCounted
  <2> QED
    BY <2>2, <2>3, InitRingInv DEF RateInv
<1>2. RateInv(R, D) => ShownIsRate
  BY DEF RateInv
<1> QED
  BY <1>1, <1>2, StepRateInv, PTL DEF Spec
=============================================================================
