--------------------------- MODULE HttpBodyProofs ----------------------------
(*****************************************************************************)
(* Proofs about GBuff and about HttpBody, which works on it, for any         *)
(* capacities, lengths, characters and sizes and for both builds.            *)
(*                                                                           *)
(* Of the buffer the type invariant, with "len < cap" while there is a       *)
(* block, is inductive; the bounds of every write follow from it together    *)
(* with what the operation just done left in hi, and so does the step of     *)
(* BoundedText that each operation is.                                       *)
(*                                                                           *)
(* The invariant of http_body adds to its properties what the buffer holds   *)
(* at each point (Collected), the room there is for what is announced        *)
(* (Roomy), that only a length that wraps around or a long line leads to a   *)
(* write outside a block (Written, Wild), where the trunk's block is         *)
(* (TrunkBlock), and that a result is that of the response read last         *)
(* (Ended).                                                                  *)
(*****************************************************************************)
EXTENDS HttpBody, SequenceTheorems, TLAPS

------------------------------------------------------------------------------
(* the buffer *)

\* What the proofs need to know of the block and the two lengths.
Shape == /\ cap \in Nat /\ len \in Nat
         /\ data \in [0..cap-1 -> Byte]
         /\ place \in {"none", "heap", "stack"}
         /\ hi \in Int
         /\ IF place = "none" THEN cap = 0 /\ len = 0 ELSE len < cap

IInv == Shape /\ WritesInBounds

\* Copying bytes into a block keeps its size and its type.
LEMMA CopyInType ==
  ASSUME NEW n \in Nat, NEW d \in [0..n-1 -> Byte], NEW at \in Nat,
         NEW s \in Seq(Byte)
  PROVE  CopyIn(d, at, s) \in [0..n-1 -> Byte]
  BY DEF CopyIn

\* The sources of a write are sequences of bytes.
LEMMA SourceTypes ==
  /\ \A s \in Bytes : s \in Seq(Byte) /\ Len(s) \in Nat
  /\ \A s \in Strings : s \in Seq(Char) /\ Len(s) \in Nat
  BY GBuffAssumption DEF Bytes, Strings

\* What vsnprintf prints of a text is a part of it that leaves room for the
\* terminator.
LEMMA PrintedFits ==
  ASSUME NEW s \in Seq(Byte), NEW avail \in Nat, avail > 1
  PROVE  /\ Printed(s, avail) \in 0..Len(s)
         /\ Printed(s, avail) < avail
         /\ SubSeq(s, 1, Printed(s, avail)) \o <<NUL>> \in Seq(Byte)
         /\ Len(SubSeq(s, 1, Printed(s, avail)) \o <<NUL>>) = Printed(s, avail) + 1
<1>1. Printed(s, avail) \in 0..Len(s) /\ Printed(s, avail) < avail
  BY DEF Printed
<1>2. SubSeq(s, 1, Printed(s, avail)) \in Seq(Byte)
  BY <1>1
<1>3. Len(SubSeq(s, 1, Printed(s, avail))) = Printed(s, avail)
  BY <1>1
<1>4. <<NUL>> \in Seq(Byte) /\ Len(<<NUL>>) = 1
  BY DEF Byte
<1> QED
  BY <1>1, <1>2, <1>3, <1>4

\* The effect of an append, on any source of bytes.
LEMMA AppendStep ==
  ASSUME IInv, NEW s \in Seq(Byte), gbuff_appendf(s)
  PROVE  /\ IInv'
         /\ ret' >= 0 => data'[len'] = NUL
<1> USE DEF IInv, Shape, WritesInBounds
<1>1. CASE len + 1 >= cap
  BY <1>1 DEF gbuff_appendf
<1>2. CASE ~(len + 1 >= cap)
  <2> DEFINE k == Printed(s, cap - len)
             t == SubSeq(s, 1, k) \o <<NUL>>
  <2>1. k \in Nat /\ k < cap - len /\ t \in Seq(Byte) /\ Len(t) = k + 1
    BY <1>2, PrintedFits
  <2>2. t[k + 1] = NUL
    BY <1>2, PrintedFits
  <2>3. /\ data' = CopyIn(data, len, t) /\ len' = len + k /\ hi' = len + k
        /\ UNCHANGED <<cap, place>> /\ place # "none"
    BY <1>2 DEF gbuff_appendf
  <2> HIDE DEF k, t
  <2>4. data' \in [0..cap-1 -> Byte]
    BY <2>1, <2>3, CopyInType
  <2>5. data'[len'] = NUL
    BY <2>1, <2>2, <2>3 DEF CopyIn
  <2> QED
    BY <2>1, <2>3, <2>4, <2>5
<1> QED
  BY <1>1, <1>2

\* A realloc keeps the block's shape, cut or not.
LEMMA ReallocStep ==
  ASSUME IInv, NEW size \in Nat \ {0}, gbuff_realloc(size)
  PROVE  IInv'
<1> USE DEF IInv, Shape, WritesInBounds
<1>1. CASE ret' = -1 /\ hi' = -1 /\ UNCHANGED <<data, len, cap>>
  BY <1>1 DEF gbuff_realloc
<1>2. ASSUME NEW d \in Resized(size), cap' = size, UNCHANGED place, place = "heap",
             IF len >= size
             THEN /\ len' = size - 1 /\ hi' = size - 1
                  /\ data' = CopyIn(d, size - 1, <<NUL>>)
             ELSE data' = d /\ hi' = -1 /\ UNCHANGED len
      PROVE  IInv'
  <2>1. d \in [0..size-1 -> Byte] /\ <<NUL>> \in Seq(Byte)
    BY DEF Resized, Byte
  <2>2. CASE len >= size
    <3>1. CopyIn(d, size - 1, <<NUL>>) \in [0..size-1 -> Byte]
      <4>1. size - 1 \in Nat /\ size \in Nat
        OBVIOUS
      <4> QED
        BY <2>1, <4>1, CopyInType
    <3>2. /\ data' = CopyIn(d, size - 1, <<NUL>>)
          /\ len' = size - 1 /\ hi' = size - 1
      BY <1>2, <2>2
    <3> QED
      BY <1>2, <3>1, <3>2
  <2>3. CASE ~(len >= size)
    BY <1>2, <2>1, <2>3
  <2> QED
    BY <2>2, <2>3
<1> QED
  BY <1>1, <1>2 DEF gbuff_realloc

\* A put fits, or changes nothing.
LEMMA PutStep ==
  ASSUME IInv, NEW s \in Seq(Byte), gbuff_put(s)
  PROVE  IInv'
<1> USE DEF IInv, Shape, WritesInBounds
<1>1. CASE Fits(Len(s))
  <2>1. data' \in [0..cap-1 -> Byte]
    BY <1>1, CopyInType DEF gbuff_put
  <2> QED
    BY <1>1, <2>1 DEF gbuff_put, Fits
<1>2. CASE ~Fits(Len(s))
  BY <1>2 DEF gbuff_put
<1> QED
  BY <1>1, <1>2

\* An append that reports success has terminated its text.
Terminates == op' = "appendf" /\ ret' >= 0 => data'[len'] = NUL

\* Every operation keeps the shape of the buffer, writes inside the block, and
\* leaves an appended text terminated.
LEMMA StepIInv ==
  ASSUME IInv, Next
  PROVE  IInv' /\ Terminates
<1> DEFINE Goal == IInv' /\ Terminates
<1> SUFFICES Goal
  OBVIOUS
<1>2. ASSUME NEW size \in 1..MaxCap,
             gbuff_init(size) \/ gbuff_alloca(size) \/ gbuff_realloc(size)
             \/ gbuff_ensure(size)
      PROVE  Goal
  <2>0. size \in Nat \ {0}
    BY GBuffAssumption
  <2>1. CASE gbuff_init(size)
    <3>1. CASE ret' = -1 /\ UNCHANGED <<data, len, cap, place, blocks>>
      BY <2>1, <3>1 DEF gbuff_init, IInv, Shape, WritesInBounds, Terminates
    <3>2. CASE /\ data' = [i \in 0..size-1 |-> NUL]
               /\ len' = 0 /\ cap' = size /\ place' = "heap"
      <4>1. data' \in [0..cap'-1 -> Byte]
        BY <3>2 DEF Byte
      <4> QED
        BY <2>0, <2>1, <3>2, <4>1
        DEF gbuff_init, IInv, Shape, WritesInBounds, Terminates
    <3> QED
      BY <2>1, <3>1, <3>2 DEF gbuff_init
  <2>2. CASE gbuff_alloca(size)
    BY <2>0, <2>2 DEF gbuff_alloca, IInv, Shape, WritesInBounds, Terminates
  <2>3. CASE gbuff_realloc(size)
    BY <2>0, <2>3, ReallocStep DEF gbuff_realloc, Terminates
  <2>4. CASE gbuff_ensure(size)
    <3>1. CASE cap < size
      BY <2>0, <2>4, <3>1, ReallocStep DEF gbuff_ensure, gbuff_realloc, Terminates
    <3>2. CASE ~(cap < size)
      BY <2>4, <3>2 DEF gbuff_ensure, IInv, Shape, WritesInBounds, Terminates
    <3> QED
      BY <3>1, <3>2
  <2> QED
    BY <1>2, <2>1, <2>2, <2>3, <2>4
<1>3. CASE gbuff_free \/ LeaveScope
  <2>1. /\ data' = NoData /\ cap' = 0 /\ len' = 0 /\ place' = "none"
        /\ hi' = -1 /\ op' \in {"free", "leave"}
    BY <1>3 DEF gbuff_free, LeaveScope
  <2>2. NoData \in [0..0-1 -> Byte]
    BY DEF NoData, Byte
  <2> QED
    BY <2>1, <2>2 DEF IInv, Shape, WritesInBounds, Terminates
<1>4. CASE gbuff_clear
  <2>1. data' \in [0..cap-1 -> Byte]
    <3>1. <<NUL>> \in Seq(Byte)
      BY DEF Byte
    <3> QED
      BY <1>4, <3>1, CopyInType DEF gbuff_clear, IInv, Shape
  <2> QED
    BY <1>4, <2>1 DEF gbuff_clear, IInv, Shape, WritesInBounds, Terminates
<1>5. ASSUME NEW src \in Bytes, gbuff_put(src) PROVE Goal
  BY <1>5, PutStep, SourceTypes DEF gbuff_put, Terminates
<1>6. ASSUME NEW src \in Bytes, gbuff_concat(src) PROVE Goal
  <2>1. PICK n \in 0..Len(src) : gbuff_appendf(SubSeq(src, 1, n))
    BY <1>6 DEF gbuff_concat
  <2>2. SubSeq(src, 1, n) \in Seq(Byte)
    BY SourceTypes
  <2> QED
    BY <2>1, <2>2, AppendStep DEF Terminates
<1>7. ASSUME NEW s \in Strings, gbuff_appendf(s) PROVE Goal
  <2>1. s \in Seq(Byte)
    BY SourceTypes DEF Byte
  <2> QED
    BY <1>7, <2>1, AppendStep DEF Terminates
<1> QED
  BY <1>2, <1>3, <1>4, <1>5, <1>6, <1>7 DEF Next

\* The invariant holds before the first operation.
LEMMA InitIInv == Init => IInv
<1>1. NoData \in [0..0-1 -> Byte]
  BY DEF NoData, Byte
<1> QED
  BY <1>1 DEF Init, IInv, Shape, WritesInBounds

\* The invariant holds in every reachable state.
THEOREM GBuffInvariant == Spec => []IInv
<1>1. IInv /\ UNCHANGED vars => IInv'
  BY DEF vars, IInv, Shape, WritesInBounds
<1>2. IInv /\ [Next]_vars => IInv'
  BY <1>1, StepIInv
<1> QED
  BY InitIInv, <1>2, PTL DEF Spec

\* No operation ever writes outside its block.
THEOREM GBuffWritesInBounds == Spec => []WritesInBounds
  BY GBuffInvariant, PTL DEF IInv

\* An append that reports success always leaves its text terminated.
THEOREM GBuffAppendTerminates == Spec => AppendTerminates
<1>1. IInv /\ [Next]_vars => [Terminates]_vars
  BY StepIInv
<1> QED
  BY <1>1, GBuffInvariant, PTL DEF Spec, AppendTerminates, Terminates

------------------------------------------------------------------------------
(* who owns the heap block *)

\* An allocation that failed owns nothing, a resize keeps the block it had,
\* and only gbuff_free gives one up.
LEMMA BlockOwnedStep ==
  ASSUME BlockOwned, Next
  PROVE  BlockOwned'
<1> SUFFICES ASSUME ~NDebug PROVE blocks' = IF place' = "heap" THEN 1 ELSE 0
  BY DEF BlockOwned
<1>0. blocks = IF place = "heap" THEN 1 ELSE 0
  BY DEF BlockOwned
<1>1. ASSUME NEW size \in 1..MaxCap, gbuff_init(size) \/ gbuff_alloca(size)
      PROVE  blocks' = IF place' = "heap" THEN 1 ELSE 0
  BY <1>0, <1>1 DEF gbuff_init, gbuff_alloca
<1>2. ASSUME NEW size \in 1..MaxCap, gbuff_realloc(size) \/ gbuff_ensure(size)
      PROVE  UNCHANGED <<place, blocks>>
  BY <1>2 DEF gbuff_realloc, gbuff_ensure
<1>3. CASE gbuff_free
  BY <1>0, <1>3 DEF gbuff_free, BlocksAfterFree
<1>4. CASE LeaveScope
  BY <1>0, <1>4 DEF LeaveScope
<1>5. CASE gbuff_clear
  BY <1>0, <1>5 DEF gbuff_clear
<1>6. ASSUME NEW src \in Bytes, gbuff_put(src) \/ gbuff_concat(src)
      PROVE  UNCHANGED <<place, blocks>>
  BY <1>6 DEF gbuff_put, gbuff_concat, gbuff_appendf
<1>7. ASSUME NEW s \in Strings, gbuff_appendf(s)
      PROVE  UNCHANGED <<place, blocks>>
  BY <1>7 DEF gbuff_appendf
<1> QED
  BY <1>0, <1>1, <1>2, <1>3, <1>4, <1>5, <1>6, <1>7 DEF Next

\* In a debug build no history of calls, with allocations failing anywhere in
\* it, loses a block or frees one twice.
THEOREM GBuffBlockOwned == Spec => []BlockOwned
<1>1. Init => BlockOwned
  BY DEF Init, BlockOwned
<1>2. BlockOwned /\ [Next]_vars => BlockOwned'
  <2>1. BlockOwned /\ UNCHANGED vars => BlockOwned'
    BY DEF BlockOwned, vars
  <2> QED
    BY <2>1, BlockOwnedStep
<1> QED
  BY <1>1, <1>2, PTL DEF Spec

------------------------------------------------------------------------------
(* the buffer implements the abstract bounded text *)

\* The text that l bytes of a block d hold.
TextOf(d, l) == [i \in 1..l |-> d[i - 1]]

\* A text is as long as its length says.
LEMMA TextOfType ==
  ASSUME NEW c \in Nat, NEW d \in [0..c-1 -> Byte], NEW l \in Nat, l <= c
  PROVE  TextOf(d, l) \in Seq(Byte) /\ Len(TextOf(d, l)) = l
<1>1. \A i \in 1..l : i - 1 \in 0..c-1 /\ d[i - 1] \in Byte
  OBVIOUS
<1> QED
  BY <1>1 DEF TextOf

\* Growing at the end is an abstract extension,
LEMMA ExtendOf ==
  ASSUME NEW c \in Nat, NEW d \in [0..c-1 -> Byte], NEW l \in Nat,
         NEW d1 \in [0..c-1 -> Byte], NEW l1 \in Nat, l <= l1, l1 < c,
         \A i \in 0..l-1 : d1[i] = d[i]
  PROVE  /\ Len(TextOf(d, l)) <= Len(TextOf(d1, l1))
         /\ SubSeq(TextOf(d, l), 1, Len(TextOf(d, l)))
              = SubSeq(TextOf(d1, l1), 1, Len(TextOf(d, l)))
         /\ Len(TextOf(d1, l1)) < c
<1>1. Len(TextOf(d, l)) = l /\ Len(TextOf(d1, l1)) = l1
  BY TextOfType
<1>2. SubSeq(TextOf(d1, l1), 1, l) = SubSeq(TextOf(d, l), 1, l)
  <2>1. \A i \in 1..l : TextOf(d1, l1)[i] = TextOf(d, l)[i]
    BY DEF TextOf
  <2>2. TextOf(d, l) \in Seq(Byte) /\ TextOf(d1, l1) \in Seq(Byte)
    BY TextOfType
  <2> QED
    BY <1>1, <2>1, <2>2
<1> QED
  BY <1>1, <1>2

LEMMA TextIs == Text = TextOf(data, len) /\ Text' = TextOf(data', len')
  BY DEF Text, TextOf

\* What an operation does to the block decides which abstract step it is:
\* a length of 0 resets the text,
LEMMA MapsToReset ==
  ASSUME len' = 0, cap' \in Nat
  PROVE  Abs!Reset
  BY DEF Abs!Reset, Text

\* bytes written from len on extend it,
LEMMA MapsToExtend ==
  ASSUME Shape, NEW d1 \in [0..cap-1 -> Byte], NEW l1 \in Nat,
         data' = d1, len' = l1, cap' = cap, len <= l1, l1 < cap,
         \A i \in 0..len-1 : d1[i] = data[i]
  PROVE  Abs!Extend
<1>1. /\ Len(Text) <= Len(TextOf(d1, l1))
      /\ SubSeq(Text, 1, Len(Text)) = SubSeq(TextOf(d1, l1), 1, Len(Text))
      /\ Len(TextOf(d1, l1)) < cap
  BY TextIs, ExtendOf DEF Shape
<1>2. Text' = TextOf(d1, l1)
  BY TextIs
<1> QED
  BY <1>1, <1>2 DEF Abs!Extend, Abs!IsPrefix

\* a new size with the bytes kept resizes it,
LEMMA MapsToResize ==
  ASSUME Shape, place # "none", NEW c1 \in Nat \ {0}, NEW d1 \in [0..c1-1 -> Byte],
         NEW l1, l1 = IF len < c1 THEN len ELSE c1 - 1,
         data' = d1, len' = l1, cap' = c1,
         \A i \in 0..l1-1 : d1[i] = data[i]
  PROVE  Abs!Resize
<1>1. /\ cap \in Nat /\ len \in Nat /\ len < cap
      /\ data \in [0..cap-1 -> Byte]
      /\ l1 \in Nat /\ l1 <= len /\ l1 < c1
  BY DEF Shape
<1>2. Text' = TextOf(d1, l1)
  BY TextIs
<1>3. Text \in Seq(Byte) /\ Len(Text) = len
  BY <1>1, TextIs, TextOfType
<1>4. TextOf(d1, l1) \in Seq(Byte) /\ Len(TextOf(d1, l1)) = l1
  BY <1>1, TextOfType
<1>5. \A i \in 1..l1 : TextOf(d1, l1)[i] = Text[i]
  BY <1>1 DEF TextOf, Text
<1>6. SubSeq(Text, 1, l1) = TextOf(d1, l1)
  BY <1>1, <1>3, <1>4, <1>5
<1> QED
  BY <1>2, <1>3, <1>6 DEF Abs!Resize

\* and a call that fails leaves it as it is.
LEMMA MapsToStutter ==
  ASSUME UNCHANGED <<data, len, cap>>
  PROVE  UNCHANGED Abs!tvars
  BY DEF Abs!tvars, Text

\* An append keeps what was there, cut or not.
LEMMA AppendMaps ==
  ASSUME IInv, NEW s \in Seq(Byte), gbuff_appendf(s)
  PROVE  [Abs!AbsNext]_(Abs!tvars)
<1> USE DEF IInv, Shape
<1>1. CASE len + 1 >= cap
  BY <1>1, MapsToStutter DEF gbuff_appendf
<1>2. CASE ~(len + 1 >= cap)
  <2> DEFINE k == Printed(s, cap - len)
             t == SubSeq(s, 1, k) \o <<NUL>>
             d1 == CopyIn(data, len, t)
  <2>1. k \in Nat /\ k < cap - len /\ t \in Seq(Byte)
    BY <1>2, PrintedFits
  <2>2. data' = d1 /\ len' = len + k /\ UNCHANGED cap
    BY <1>2 DEF gbuff_appendf
  <2> HIDE DEF k, t
  <2>3. d1 \in [0..cap-1 -> Byte] /\ \A i \in 0..len-1 : d1[i] = data[i]
    BY <2>1, CopyInType DEF CopyIn
  <2>4. len + k \in Nat /\ len <= len + k /\ len + k < cap
    BY <2>1
  <2> HIDE DEF d1
  <2> QED
    BY <2>2, <2>3, <2>4, MapsToExtend DEF Abs!AbsNext
<1> QED
  BY <1>1, <1>2

\* A put keeps what was there.
LEMMA PutMaps ==
  ASSUME IInv, NEW s \in Seq(Byte), gbuff_put(s)
  PROVE  [Abs!AbsNext]_(Abs!tvars)
<1> USE DEF IInv, Shape
<1>1. CASE ~Fits(Len(s))
  BY <1>1, MapsToStutter DEF gbuff_put
<1>2. CASE Fits(Len(s))
  <2> DEFINE d1 == CopyIn(data, len, s)
  <2>1. data' = d1 /\ len' = len + Len(s) /\ UNCHANGED cap
    BY <1>2 DEF gbuff_put
  <2>2. d1 \in [0..cap-1 -> Byte] /\ \A i \in 0..len-1 : d1[i] = data[i]
    BY CopyInType DEF CopyIn
  <2>3. len + Len(s) \in Nat /\ len <= len + Len(s) /\ len + Len(s) < cap
    BY <1>2 DEF Fits
  <2> HIDE DEF d1
  <2> QED
    BY <2>1, <2>2, <2>3, MapsToExtend DEF Abs!AbsNext
<1> QED
  BY <1>1, <1>2

\* A realloc that succeeds loses only what no longer fits, the terminator it
\* writes included.
LEMMA ReallocMaps ==
  ASSUME IInv, NEW size \in Nat \ {0}, gbuff_realloc(size)
  PROVE  [Abs!AbsNext]_(Abs!tvars)
<1> USE DEF IInv, Shape
<1>1. CASE UNCHANGED <<data, len, cap>>
  BY <1>1, MapsToStutter
<1>2. ASSUME NEW d \in Resized(size), cap' = size, place = "heap",
             IF len >= size
             THEN len' = size - 1 /\ data' = CopyIn(d, size - 1, <<NUL>>)
             ELSE data' = d /\ UNCHANGED len
      PROVE  Abs!Resize
  <2>1. /\ d \in [0..size-1 -> Byte]
        /\ \A i \in 0..size-1 : i < cap => d[i] = data[i]
    BY DEF Resized
  <2>2. CASE len >= size
    <3> DEFINE d1 == CopyIn(d, size - 1, <<NUL>>)
    <3>0. <<NUL>> \in Seq(Byte) /\ size - 1 \in Nat /\ size \in Nat
      BY DEF Byte
    <3>1. d1 \in [0..size-1 -> Byte]
      BY <2>1, <3>0, CopyInType
    <3>2. \A i \in 0..size-2 : d1[i] = data[i]
      <4>1. len < cap
        BY <1>2
      <4>2. ASSUME NEW i \in 0..size-2 PROVE d1[i] = data[i]
        <5>1. i \in 0..size-1 /\ i < cap /\ ~(i >= size - 1)
          BY <2>2, <4>1, <4>2
        <5>2. i \in DOMAIN d /\ i \notin size-1 .. size-1 + Len(<<NUL>>) - 1
          BY <2>1, <5>1
        <5>3. d1[i] = d[i]
          BY <5>2 DEF CopyIn
        <5> QED
          BY <2>1, <5>1, <5>3
      <4> QED
        BY <4>2
    <3>3. /\ data' = d1 /\ len' = size - 1 /\ cap' = size
          /\ size - 1 = IF len < size THEN len ELSE size - 1
      BY <1>2, <2>2
    <3>4. \A i \in 0..(size-1)-1 : d1[i] = data[i]
      BY <3>2
    <3> HIDE DEF d1
    <3> QED
      BY <1>2, <3>1, <3>3, <3>4, MapsToResize
  <2>3. CASE ~(len >= size)
    <3>1. /\ data' = d /\ len' = len
          /\ len = IF len < size THEN len ELSE size - 1
      BY <1>2, <2>3
    <3>2. \A i \in 0..len-1 : d[i] = data[i]
      BY <1>2, <2>1, <2>3
    <3> QED
      BY <1>2, <2>1, <3>1, <3>2, MapsToResize
  <2> QED
    BY <2>2, <2>3
<1> QED
  BY <1>1, <1>2 DEF gbuff_realloc, Abs!AbsNext

\* Every operation is a step of the abstract text, or leaves it alone.
LEMMA StepMaps ==
  ASSUME IInv, Next
  PROVE  [Abs!AbsNext]_(Abs!tvars)
<1>1. ASSUME NEW size \in 1..MaxCap,
             gbuff_init(size) \/ gbuff_alloca(size) \/ gbuff_realloc(size)
             \/ gbuff_ensure(size)
      PROVE  [Abs!AbsNext]_(Abs!tvars)
  <2>0. size \in Nat \ {0}
    BY GBuffAssumption
  <2>1. CASE gbuff_init(size)
    BY <2>0, <2>1, MapsToStutter, MapsToReset DEF gbuff_init, Abs!AbsNext
  <2>2. CASE gbuff_alloca(size)
    BY <2>0, <2>2, MapsToReset DEF gbuff_alloca, Abs!AbsNext
  <2>3. CASE gbuff_realloc(size)
    BY <2>0, <2>3, ReallocMaps
  <2>4. CASE gbuff_ensure(size)
    BY <2>0, <2>4, ReallocMaps, MapsToStutter DEF gbuff_ensure
  <2> QED
    BY <1>1, <2>1, <2>2, <2>3, <2>4
<1>2. CASE gbuff_free \/ LeaveScope \/ gbuff_clear
  BY <1>2, MapsToReset
  DEF gbuff_free, LeaveScope, gbuff_clear, IInv, Shape, Abs!AbsNext
<1>3. ASSUME NEW src \in Bytes, gbuff_put(src) \/ gbuff_concat(src)
      PROVE  [Abs!AbsNext]_(Abs!tvars)
  <2>1. CASE gbuff_put(src)
    BY <2>1, PutMaps, SourceTypes
  <2>2. CASE gbuff_concat(src)
    <3>1. PICK n \in 0..Len(src) : gbuff_appendf(SubSeq(src, 1, n))
      BY <2>2 DEF gbuff_concat
    <3>2. SubSeq(src, 1, n) \in Seq(Byte)
      BY SourceTypes
    <3> QED
      BY <3>1, <3>2, AppendMaps
  <2> QED
    BY <1>3, <2>1, <2>2
<1>4. ASSUME NEW s \in Strings, gbuff_appendf(s)
      PROVE  [Abs!AbsNext]_(Abs!tvars)
  <2>1. s \in Seq(Byte)
    BY SourceTypes DEF Byte
  <2> QED
    BY <1>4, <2>1, AppendMaps
<1> QED
  BY <1>1, <1>2, <1>3, <1>4 DEF Next

\* Whatever is written, cut, resized or cleared, and however calls fail, the
\* buffer is to its callers a text shorter than its limit that loses only its
\* end.
THEOREM GBuffImplementsText == Spec => ImplementsText
<1>1. Init => Abs!AbsInit
  BY DEF Init, Abs!AbsInit, Text
<1>2. IInv /\ [Next]_vars => [Abs!AbsNext]_(Abs!tvars)
  <2>1. UNCHANGED vars => UNCHANGED Abs!tvars
    BY MapsToStutter DEF vars
  <2> QED
    BY <2>1, StepMaps
<1> QED
  BY <1>1, <1>2, GBuffInvariant, PTL DEF Spec, ImplementsText, Abs!AbsSpec

------------------------------------------------------------------------------
(* http_body *)

\* At each point: the text is what has been read, but for the chunk that is
\* on its way.
Collected ==
  /\ pc \in {"init", "content", "read"} => len = 0 /\ want = <<>>
  /\ pc \in {"init", "size", "room", "chunk", "tail", "last", "end"} => Text = want
  /\ pc \in {"grow", "put"} => want = Text \o trunk
  /\ pc \in {"init", "size", "room", "chunk", "grow", "put", "tail", "last", "end"}
       => kind = "chunked"

\* The room there is for what is announced, unless that room wraps around; and
\* a chunk that is not as long as announced is the -1 of a failed read.
Roomy ==
  /\ pc = "chunk" => announced + 2 <= tcap \/ "wraps" \in odd
  /\ pc = "read" => announced < cap \/ "wraps" \in odd
  /\ pc \in {"grow", "put"} =>
       /\ Len(trunk) <= tcap
       /\ Len(trunk) = announced \/ (announced = W - 1 /\ "wraps" \in odd)

Sized == pc \in {"room", "chunk"} /\ announced + 2 >= W => "wraps" \in odd

\* The writes made so far, and where others lead.
Written == pc # "wild" => bodyHi < cap /\ trunkHi < tcap
Wild == pc = "wild" => "wraps" \in odd \/ "long line" \in odd

Completed == pc \in {"last", "end"} => complete \/ "no size" \in odd

TrunkBlock ==
  ~NDebug =>
    /\ pc \in {"size", "room", "chunk", "grow", "put", "tail", "last", "end", "fail"}
         => trunks = 1
    /\ pc \in {"idle", "init", "content", "read"} => trunks = 0

Ended == result = "ok" => /\ pc = "idle" /\ ContentTerminated
                          /\ odd = {} => complete /\ Text = want

BInv == /\ BodyTypeOK /\ hi < cap /\ RoomForChunk
        /\ Collected /\ Roomy /\ Sized /\ Written /\ Wild /\ Completed
        /\ TrunkBlock /\ Ended

\* The invariant of the body is that of any buffer.
LEMMA BodyIsBuffer == BInv => IInv
  BY DEF BInv, BodyTypeOK, IInv, Shape, WritesInBounds

\* The text is a sequence of len bytes.
LEMMA TextType ==
  ASSUME len \in Nat, cap \in Nat, len < cap, data \in [0..cap-1 -> Byte]
  PROVE  Text \in Seq(Byte) /\ Len(Text) = len
  BY DEF Text

\* Making room, more than the text has or no more than there is, keeps the
\* text and gives the room.
LEMMA EnsureStep ==
  ASSUME IInv, NEW size \in Nat, size > len \/ size <= cap, gbuff_ensure(size)
  PROVE  /\ IInv' /\ ret' \in {0, -1}
         /\ UNCHANGED <<len, place, blocks>> /\ Text' = Text
         /\ ret' = 0 => cap' >= size
         /\ cap <= cap'
<1> USE DEF IInv, Shape, WritesInBounds
<1>1. CASE cap < size
  <2>1. gbuff_realloc(size)
    BY <1>1 DEF gbuff_ensure
  <2>2. size \in Nat \ {0}
    BY <1>1
  <2>3. IInv'
    BY <2>1, <2>2, ReallocStep
  <2>4. CASE ret' = -1 /\ UNCHANGED <<data, len, cap>>
    BY <2>1, <2>3, <2>4 DEF gbuff_realloc, Text
  <2>5. CASE ret' = 0 /\ cap' = size /\ len' = len /\ data' \in Resized(size)
    <3>1. \A i \in 1..len : data'[i - 1] = data[i - 1]
      BY <2>5, <2>1 DEF Resized, gbuff_realloc
    <3>2. Text' = Text
      BY <2>5, <3>1 DEF Text
    <3> QED
      BY <1>1, <2>1, <2>3, <2>5, <3>2 DEF gbuff_realloc
  <2>6. \/ ret' = -1 /\ UNCHANGED <<data, len, cap>>
        \/ ret' = 0 /\ cap' = size /\ len' = len /\ data' \in Resized(size)
    BY <1>1, <2>1 DEF gbuff_realloc
  <2> QED
    BY <2>4, <2>5, <2>6
<1>2. CASE ~(cap < size)
  BY <1>2 DEF gbuff_ensure, Text
<1> QED
  BY <1>1, <1>2

\* A put that fits adds its bytes to the text.
LEMMA PutExtends ==
  ASSUME IInv, NEW s \in Seq(Byte), Fits(Len(s)), gbuff_put(s)
  PROVE  /\ IInv' /\ ret' >= 0
         /\ UNCHANGED <<cap, place, blocks>> /\ Text' = Text \o s
<1> USE DEF IInv, Shape, WritesInBounds
<1>1. IInv'
  BY PutStep
<1>2. /\ data' = CopyIn(data, len, s) /\ len' = len + Len(s)
      /\ ret' = Len(s) /\ UNCHANGED <<cap, place, blocks>> /\ place # "none"
  BY DEF gbuff_put
<1>3. Text \in Seq(Byte) /\ Len(Text) = len
  BY <1>2, TextType
<1>4. Text' \in Seq(Byte) /\ Len(Text') = len + Len(s)
  BY <1>1, <1>2 DEF Text
<1>5. /\ Text \o s \in Seq(Byte) /\ Len(Text \o s) = len + Len(s)
      /\ \A i \in 1 .. len + Len(s) :
           (Text \o s)[i] = IF i <= len THEN Text[i] ELSE s[i - len]
  BY <1>3, ConcatProperties
<1>6. ASSUME NEW i \in 1 .. len + Len(s)
      PROVE  Text'[i] = IF i <= len THEN Text[i] ELSE s[i - len]
  <2>1. Text'[i] = data'[i - 1]
    BY <1>2 DEF Text
  <2>2. data'[i - 1] = IF i <= len THEN data[i - 1] ELSE s[i - len]
    BY <1>2 DEF CopyIn, Fits
  <2>3. i <= len => Text[i] = data[i - 1]
    BY DEF Text
  <2> QED
    BY <2>1, <2>2, <2>3
<1>7. Text' = Text \o s
  BY <1>4, <1>5, <1>6, SeqEqual
<1> QED
  BY <1>1, <1>2, <1>7

\* The text of a buffer that has just been read into, up to its '\0'.
LEMMA TextRead ==
  ASSUME NEW n \in Nat, NEW b \in Seq(Byte), Len(b) = n, n < cap, cap \in Nat,
         data \in [0..cap-1 -> Byte],
         data' = CopyIn(data, 0, WithEnd(b)), len' = n
  PROVE  Text' = b /\ data'[len'] = NUL /\ data' \in [0..cap-1 -> Byte]
<1>1. WithEnd(b) \in Seq(Byte) /\ Len(WithEnd(b)) = n + 1
  BY DEF WithEnd, Byte
<1>2. WithEnd(b)[n + 1] = NUL /\ \A i \in 1..n : WithEnd(b)[i] = b[i]
  <2>1. <<NUL>> \in Seq(Byte) /\ Len(<<NUL>>) = 1 /\ <<NUL>>[1] = NUL
    BY DEF Byte
  <2> QED
    BY <2>1, ConcatProperties DEF WithEnd
<1>3. data' \in [0..cap-1 -> Byte]
  BY <1>1, CopyInType
<1>4. data'[n] = NUL /\ \A i \in 1..n : data'[i - 1] = b[i]
  BY <1>1, <1>2 DEF CopyIn
<1>5. Text' \in Seq(Byte) /\ Len(Text') = n /\ \A i \in 1..n : Text'[i] = b[i]
  BY <1>3, <1>4 DEF Text
<1>6. Text' = b
  BY <1>5, SeqEqual
<1> QED
  BY <1>3, <1>4, <1>6

\* The sizes and bounds as numbers.
LEMMA BodySizes ==
  /\ W \in Nat /\ MaxAlloc \in Nat /\ 2 * MaxAlloc + 2 <= W
  /\ BodySize \in 1..MaxAlloc /\ TrunkSize \in 1..MaxAlloc
  /\ MaxChunk \in Nat
  BY BodyAssumption

\* A size_t in reach of two sizes.
LEMMA SizeTIs ==
  ASSUME NEW n \in Int, -W <= n, n < 2 * W
  PROVE  /\ SizeT(n) \in 0..W-1
         /\ n \in 0..W-1 => SizeT(n) = n
         /\ n < 0 => SizeT(n) = n + W
         /\ n >= W => SizeT(n) = n - W
  BY BodySizes DEF SizeT

\* The invariant holds once http_init has succeeded.
LEMMA InitBInv == BodyInit => BInv
<1> SUFFICES ASSUME BodyInit PROVE BInv
  OBVIOUS
<1>1. data \in [0..cap-1 -> Byte] /\ <<>> \in Seq(Byte)
  BY BodySizes DEF BodyInit, Byte
<1>2. /\ cap \in 1..MaxAlloc /\ len \in Nat /\ len < cap /\ hi < cap
      /\ 0 \in 0..MaxAlloc /\ 0 \in 0..W-1 /\ -1 \in Int
  BY BodySizes DEF BodyInit
<1>5. BodyTypeOK
  BY <1>1, <1>2 DEF BodyInit, BodyTypeOK, PC
<1>3. RoomForChunk /\ Collected /\ Roomy /\ Sized /\ Written /\ Wild /\ Completed
  BY BodySizes DEF BodyInit, RoomForChunk, Collected, Roomy, Sized, Written, Wild,
                   Completed
<1>4. TrunkBlock /\ Ended
  BY DEF BodyInit, TrunkBlock, Ended
<1> QED
  BY <1>2, <1>3, <1>4, <1>5 DEF BInv

\* A step that leaves the buffer alone keeps what is known of it.
LEMMA SameBuffer ==
  ASSUME BInv, UNCHANGED vars
  PROVE  /\ cap' \in 1..MaxAlloc /\ len' \in Nat /\ len' < cap'
         /\ data' \in [0..cap'-1 -> Byte] /\ place' = "heap"
         /\ hi' \in Int /\ hi' < cap' /\ Text' = Text
         /\ cap' = cap /\ len' = len
  BY DEF BInv, BodyTypeOK, vars, Text

\* A trunk is allocated, or not.
LEMMA TrunkInitStep ==
  ASSUME BInv, TrunkInit
  PROVE  BInv'
<1>1. /\ pc = "init" /\ trunkHi' = -1
      /\ UNCHANGED <<vars, trunk, announced, eof, bodyHi,
                     kind, want, complete, odd>>
      /\ \/ tcap' = TrunkSize /\ trunks' = trunks + 1 /\ pc' = "size"
            /\ result' = result
         \/ pc' = "idle" /\ result' = "fail" /\ UNCHANGED <<tcap, trunks>>
  BY DEF TrunkInit, GoTo, Return
<1>2. BodyTypeOK' /\ (hi < cap)'
  BY <1>1, SameBuffer, BodySizes DEF BInv, BodyTypeOK, PC
<1>3. Collected' /\ RoomForChunk' /\ Roomy' /\ Sized' /\ Wild' /\ Completed'
  BY <1>1, SameBuffer DEF BInv, Collected, RoomForChunk, Roomy, Sized, Wild, Completed
<1>4. Written'
  BY <1>1, SameBuffer, BodySizes DEF BInv, BodyTypeOK, Written
<1>5. TrunkBlock' /\ Ended'
  BY <1>1 DEF BInv, TrunkBlock, Ended, BodyTypeOK
<1> QED
  BY <1>2, <1>3, <1>4, <1>5 DEF BInv

\* The lines: what they say of the size leads on, or to a failure; only one
\* that fills the trunk leads astray.
LEMMA LineStep ==
  ASSUME BInv, NEW n \in LineLens, NEW m \in 0..n, NEW next \in PC,
         http_readline(n, m, next)
  PROVE  /\ trunkHi' \in Int /\ eof' \in BOOLEAN /\ result' = result
         /\ \/ pc' = next /\ trunkHi' < tcap
            \/ pc' = "wild" /\ "long line" \in LongLine(n)
<1>1. n \in Nat /\ m \in Nat /\ m <= n /\ tcap \in Nat /\ eof \in BOOLEAN
  BY BodyAssumption, BodySizes DEF BInv, BodyTypeOK
<1>2. NulAt(m) \in Nat /\ (NulAt(m) < tcap \/ n >= tcap)
  BY <1>1 DEF NulAt
<1>3. /\ trunkHi' = NulAt(m) /\ eof' = (eof \/ m < n) /\ result' = result
      /\ pc' = IF NulAt(m) < tcap THEN next ELSE "wild"
  BY DEF http_readline, GoTo
<1> QED
  BY <1>1, <1>2, <1>3 DEF LongLine

LEMMA SizeLineStep ==
  ASSUME BInv, NEW n \in LineLens, NEW m \in 0..n, NEW s \in Sizes \cup {None},
         NEW c \in Number(s, n, m), SizeLine(s, n, m, c)
  PROVE  BInv'
<1>0. c \in 0..W-1
  BY BodyAssumption, BodySizes DEF Number
<1> DEFINE next == IF m = 0 THEN "fail" ELSE IF c = 0 THEN "last" ELSE "room"
           more == LongLine(n) \cup NoSize(s, n, m, c) \cup SizeWraps(c)
<1>1. /\ pc = "size" /\ announced' = c
      /\ complete' = (s = 0 /\ m = n) /\ odd' = odd \cup more
      /\ UNCHANGED <<vars, tcap, trunk, trunks, bodyHi, kind, want>>
      /\ http_readline(n, m, next)
  BY DEF SizeLine
<1>2. next \in PC /\ next \in {"fail", "last", "room"}
      /\ (next = "last" => c = 0)
  BY DEF PC
<1>3. /\ more \subseteq Odd
      /\ LongLine(n) \subseteq more
      /\ c + 2 >= W => "wraps" \in more
      /\ c = 0 => (s = 0 /\ m = n) \/ "no size" \in more
  BY DEF LongLine, NoSize, SizeWraps, Odd
<1> HIDE DEF next, more
<1>4. /\ trunkHi' \in Int /\ eof' \in BOOLEAN /\ result' = result
      /\ \/ pc' = next /\ trunkHi' < tcap
         \/ pc' = "wild" /\ "long line" \in LongLine(n)
  BY <1>1, <1>2, LineStep
<1>5. BodyTypeOK' /\ (hi < cap)'
  BY <1>0, <1>1, <1>2, <1>3, <1>4, SameBuffer DEF BInv, BodyTypeOK, PC
<1>6. Collected' /\ RoomForChunk' /\ Roomy'
  BY <1>1, <1>2, <1>4, SameBuffer DEF BInv, Collected, RoomForChunk, Roomy
<1>7. Sized' /\ Wild' /\ Completed'
  BY <1>1, <1>2, <1>3, <1>4 DEF Sized, Wild, Completed
<1>8. Written'
  BY <1>1, <1>4, SameBuffer DEF BInv, Written
<1>9. TrunkBlock' /\ Ended'
  BY <1>1, <1>2, <1>4 DEF BInv, TrunkBlock, Ended
<1> QED
  BY <1>5, <1>6, <1>7, <1>8, <1>9 DEF BInv

LEMMA OtherLineStep ==
  ASSUME BInv, NEW n \in LineLens, NEW m \in 0..n, ReadTail(n, m) \/ LastLine(n, m)
  PROVE  BInv'
<1>1. PICK next \in {"aborted", "size", "end"} :
        /\ \/ pc = "tail" /\ next \in {"aborted", "size"}
           \/ pc = "last" /\ next = "end"
        /\ http_readline(n, m, next)
  <2>1. CASE ReadTail(n, m)
    <3>1. http_readline(n, m, IF m # 2 /\ ~NDebug THEN "aborted" ELSE "size")
      BY <2>1 DEF ReadTail
    <3>2. http_readline(n, m, "aborted") \/ http_readline(n, m, "size")
      BY <3>1
    <3> QED
      BY <2>1, <3>2 DEF ReadTail
  <2>2. CASE LastLine(n, m)
    BY <2>2 DEF LastLine
  <2> QED
    BY <2>1, <2>2
<1>2. /\ odd' = odd \cup LongLine(n)
      /\ UNCHANGED <<vars, tcap, trunk, trunks, announced, bodyHi, kind, want, complete>>
  BY DEF ReadTail, LastLine
<1>3. LongLine(n) \subseteq Odd
  BY DEF LongLine, Odd
<1>4. /\ trunkHi' \in Int /\ eof' \in BOOLEAN /\ result' = result
      /\ \/ pc' = next /\ trunkHi' < tcap
         \/ pc' = "wild" /\ "long line" \in LongLine(n)
  <2>1. next \in PC
    BY DEF PC
  <2> QED
    BY <1>1, <2>1, LineStep
<1>5. BodyTypeOK' /\ (hi < cap)'
  BY <1>1, <1>2, <1>3, <1>4, SameBuffer DEF BInv, BodyTypeOK, PC
<1>6. Collected' /\ RoomForChunk' /\ Roomy'
  BY <1>1, <1>2, <1>4, SameBuffer DEF BInv, Collected, RoomForChunk, Roomy
<1>7. Sized' /\ Wild' /\ Completed'
  BY <1>1, <1>2, <1>4 DEF BInv, Sized, Wild, Completed
<1>8. Written'
  BY <1>1, <1>2, <1>4, SameBuffer DEF BInv, Written
<1>9. TrunkBlock' /\ Ended'
  BY <1>1, <1>2, <1>4 DEF BInv, TrunkBlock, Ended
<1> QED
  BY <1>5, <1>6, <1>7, <1>8, <1>9 DEF BInv

\* The trunk only grows, to what is announced unless that wraps around.
LEMMA GrowTrunkStep ==
  ASSUME BInv, GrowTrunk
  PROVE  BInv'
<1>1. /\ pc = "room" /\ result' = result
      /\ UNCHANGED <<vars, trunk, trunks, announced, eof, bodyHi, trunkHi,
                     kind, want, complete, odd>>
      /\ \/ tcap >= TrunkRoom /\ pc' = "chunk" /\ tcap' = tcap
         \/ tcap < TrunkRoom /\ TrunkRoom <= MaxAlloc /\ tcap' = TrunkRoom /\ pc' = "chunk"
         \/ pc' = "fail" /\ tcap' = tcap
  BY DEF GrowTrunk, GoTo
<1>2. announced \in 0..W-1 /\ tcap \in 0..MaxAlloc
  BY DEF BInv, BodyTypeOK
<1>3. /\ TrunkRoom \in 0..W-1
      /\ announced + 2 < W => TrunkRoom = announced + 2
  <2>1. announced + 2 \in Int /\ -W <= announced + 2 /\ announced + 2 < 2 * W
    BY <1>2, BodySizes
  <2>2. announced + 2 < W => announced + 2 \in 0..W-1
    BY <1>2, BodySizes
  <2> DEFINE k == announced + 2
  <2> HIDE DEF k
  <2>3. SizeT(k) \in 0..W-1 /\ (k \in 0..W-1 => SizeT(k) = k)
    BY <2>1, SizeTIs DEF k
  <2> QED
    BY <2>2, <2>3 DEF TrunkRoom, k
<1>4. /\ tcap' \in 0..MaxAlloc /\ tcap <= tcap' /\ pc' \in {"chunk", "fail"}
      /\ pc' = "chunk" => announced + 2 <= tcap' \/ announced + 2 >= W
  BY <1>1, <1>2, <1>3, BodySizes
<1>5. BodyTypeOK' /\ (hi < cap)'
  BY <1>1, <1>4, SameBuffer DEF BInv, BodyTypeOK, PC
<1>6. Roomy' /\ Sized'
  BY <1>1, <1>4 DEF BInv, Roomy, Sized
<1>7. Collected' /\ RoomForChunk' /\ Wild' /\ Completed'
  BY <1>1, <1>4, SameBuffer DEF BInv, Collected, RoomForChunk, Wild, Completed
<1>8. Written'
  <2>1. bodyHi < cap /\ trunkHi < tcap /\ trunkHi \in Int /\ tcap \in Int /\ tcap' \in Int
    BY <1>1, <1>2, <1>4, BodySizes DEF BInv, Written, BodyTypeOK
  <2> QED
    BY <1>1, <1>4, <2>1, SameBuffer DEF Written
<1>9. TrunkBlock' /\ Ended'
  BY <1>1, <1>4 DEF BInv, TrunkBlock, Ended
<1> QED
  BY <1>5, <1>6, <1>7, <1>8, <1>9 DEF BInv

\* What a read gets agrees with what is announced if it is all of it, or if
\* the read failed and the length announced is that of the -1.
LEMMA ReadIs ==
  ASSUME BInv, NEW b \in Bytes, NEW res \in {Len(b), -1},
         http_read(b, res, announced)
  PROVE  /\ b \in Seq(Byte) /\ Len(b) \in Nat /\ Len(b) <= announced
         /\ eof' \in BOOLEAN
         /\ Agrees(res) => Len(b) = announced \/ (b = <<>> /\ announced = W - 1)
<1>1. b \in Seq(Byte) /\ Len(b) \in Nat
  BY SourceTypes
<1>2. Len(b) <= announced /\ announced \in 0..W-1 /\ eof \in BOOLEAN
  BY DEF http_read, BInv, BodyTypeOK
<1>3. eof' \in BOOLEAN
  BY <1>2 DEF http_read
<1>4. CASE res = Len(b)
  <2>1. SizeT(res) = Len(b)
    BY <1>1, <1>2, <1>4, BodySizes DEF SizeT
  <2> QED
    BY <1>1, <1>2, <1>3, <2>1 DEF Agrees
<1>5. CASE res = -1 /\ b = <<>>
  <2>1. SizeT(res) = W - 1
    BY <1>5, BodySizes DEF SizeT
  <2> QED
    BY <1>1, <1>2, <1>3, <1>5, <2>1 DEF Agrees
<1> QED
  BY <1>4, <1>5 DEF http_read

LEMMA ReadChunkStep ==
  ASSUME BInv, NEW b \in Bytes, NEW res \in {Len(b), -1}, ReadChunk(b, res)
  PROVE  BInv'
<1>1. /\ pc = "chunk" /\ trunk' = b /\ trunkHi' = Len(b) - 1 /\ want' = want \o b
      /\ result' = result
      /\ UNCHANGED <<vars, tcap, trunks, announced, bodyHi, kind, complete, odd>>
      /\ pc' = IF Len(b) > tcap THEN "wild" ELSE IF Agrees(res) THEN "grow" ELSE "fail"
  BY DEF ReadChunk, GoTo
<1>2. /\ b \in Seq(Byte) /\ Len(b) \in Nat /\ Len(b) <= announced
      /\ eof' \in BOOLEAN
      /\ Agrees(res) => Len(b) = announced \/ (b = <<>> /\ announced = W - 1)
  BY ReadIs DEF ReadChunk
<1>3. /\ want = Text /\ kind = "chunked" /\ announced \in 0..W-1 /\ tcap \in 0..MaxAlloc
      /\ announced + 2 <= tcap \/ "wraps" \in odd
      /\ announced + 2 >= W => "wraps" \in odd
      /\ result # "ok" /\ want \in Seq(Byte)
  BY <1>1 DEF BInv, Collected, Roomy, Sized, Ended, BodyTypeOK
<1>4. want' \in Seq(Byte) /\ want' = Text' \o trunk'
  BY <1>1, <1>2, <1>3, SameBuffer, ConcatProperties
<1>5. \/ pc' = "wild" /\ Len(b) > tcap
      \/ pc' = "grow" /\ Len(b) <= tcap /\ Agrees(res)
      \/ pc' = "fail" /\ Len(b) <= tcap
  BY <1>1, <1>2, <1>3, BodySizes
<1>6. BodyTypeOK' /\ (hi < cap)'
  <2>1. want' \in Seq(Byte) /\ trunk' \in Seq(Byte) /\ trunkHi' \in Int /\ pc' \in PC \ {"elsewhere"}
    BY <1>1, <1>2, <1>4, <1>5 DEF PC
  <2> QED
    BY <1>1, <1>2, <2>1, SameBuffer DEF BInv, BodyTypeOK
<1>7. Collected'
  BY <1>1, <1>3, <1>4, <1>5 DEF Collected
<1>8. Roomy' /\ Sized' /\ RoomForChunk' /\ Completed'
  <2>1. announced = W - 1 => "wraps" \in odd
    BY <1>3, BodySizes
  <2> QED
    BY <1>1, <1>2, <1>5, <2>1 DEF Roomy, Sized, RoomForChunk, Completed
<1>9. Wild'
  <2>1. Len(b) > tcap => "wraps" \in odd
    BY <1>2, <1>3, BodySizes
  <2> QED
    BY <1>1, <1>5, <2>1 DEF Wild
<1>10. Written'
  <2>1. Len(b) <= tcap => trunkHi' < tcap
    BY <1>1, <1>2, <1>3, BodySizes
  <2> QED
    BY <1>1, <1>5, <2>1, SameBuffer DEF BInv, Written
<1>11. TrunkBlock' /\ Ended'
  BY <1>1, <1>3, <1>5 DEF BInv, TrunkBlock, Ended
<1> QED
  BY <1>6, <1>7, <1>8, <1>9, <1>10, <1>11 DEF BInv

\* Room for a chunk and its '\0' is made, or the response fails.
LEMMA GrowBodyStep ==
  ASSUME BInv, GrowBody
  PROVE  BInv'
<1>1. /\ pc = "grow" /\ gbuff_ensure(RoomFor) /\ cap' <= MaxAlloc /\ result' = result
      /\ pc' = IF ret' = 0 THEN "put" ELSE "fail"
      /\ UNCHANGED ownVars
  BY DEF GrowBody, GoTo
<1>2. /\ cap \in 1..MaxAlloc /\ len \in Nat /\ len < cap /\ tcap \in 0..MaxAlloc
      /\ announced \in 0..W-1 /\ hi \in Int
      /\ Len(trunk) \in Nat /\ Len(trunk) <= tcap
      /\ Len(trunk) = announced \/ (announced = W - 1 /\ "wraps" \in odd)
  <2>1. Len(trunk) \in Nat
    BY DEF BInv, BodyTypeOK
  <2> QED
    BY <1>1, <2>1 DEF BInv, BodyTypeOK, Roomy
<1>3. /\ RoomFor \in Nat /\ (RoomFor > len \/ RoomFor <= cap)
      /\ Len(trunk) = announced => RoomFor = len + Len(trunk) + 1
  BY <1>2, BodySizes DEF RoomFor, SizeT
<1>4. /\ IInv' /\ ret' \in {0, -1}
      /\ UNCHANGED <<len, place, blocks>> /\ Text' = Text
      /\ ret' = 0 => cap' >= RoomFor
      /\ cap <= cap'
  BY <1>1, <1>3, BodyIsBuffer, EnsureStep
<1>5. /\ cap' \in 1..MaxAlloc /\ len' \in Nat /\ len' < cap' /\ hi' \in Int /\ hi' < cap'
      /\ data' \in [0..cap'-1 -> Byte] /\ place' = "heap" /\ pc' \in {"put", "fail"}
  <2>1. place = "heap"
    BY DEF BInv, BodyTypeOK
  <2>2. /\ cap' \in Nat /\ len' \in Nat /\ hi' \in Int /\ data' \in [0..cap'-1 -> Byte]
        /\ place' = "heap" /\ len' < cap' /\ hi' < cap'
    BY <1>4, <2>1 DEF IInv, Shape, WritesInBounds
  <2>3. cap' \in 1..MaxAlloc
    BY <1>1, <2>2, BodySizes
  <2> QED
    BY <1>1, <2>2, <2>3
<1>6. BodyTypeOK'
  BY <1>1, <1>5 DEF BInv, BodyTypeOK, ownVars, PC
<1>7. RoomForChunk'
  <2>1. pc' = "put" => ret' = 0
    BY <1>1
  <2>2. ret' = 0 /\ Len(trunk) = announced => len' + Len(trunk) < cap'
    BY <1>2, <1>3, <1>4, <1>5
  <2> QED
    BY <1>1, <2>1, <2>2 DEF RoomForChunk, Fits, ownVars
<1>8. Collected' /\ Roomy' /\ Sized' /\ Wild' /\ Completed'
  BY <1>1, <1>4, <1>5
  DEF BInv, Collected, Roomy, Sized, Wild, Completed, ownVars
<1>9. Written'
  <2>1. bodyHi < cap /\ trunkHi < tcap /\ bodyHi \in Int
    BY <1>1 DEF BInv, Written, BodyTypeOK
  <2>2. bodyHi < cap'
    BY <1>2, <1>4, <1>5, <2>1
  <2> QED
    BY <1>1, <2>1, <2>2 DEF Written, ownVars
<1>10. TrunkBlock' /\ Ended'
  BY <1>1, <1>5 DEF BInv, TrunkBlock, Ended, ownVars
<1> QED
  BY <1>5, <1>6, <1>7, <1>8, <1>9, <1>10 DEF BInv

\* The chunk goes behind the text, and never fails to.
LEMMA PutChunkStep ==
  ASSUME BInv, PutChunk
  PROVE  BInv'
<1>1. /\ pc = "put" /\ Len(trunk) = announced /\ gbuff_put(trunk) /\ result' = result
      /\ pc' = IF ret' < 0 THEN "fail" ELSE "tail"
      /\ UNCHANGED ownVars
  BY DEF PutChunk, GoTo
<1>2. Fits(Len(trunk)) /\ trunk \in Seq(Byte)
  BY <1>1 DEF BInv, RoomForChunk, BodyTypeOK
<1>3. /\ IInv' /\ ret' \in Nat
      /\ UNCHANGED <<cap, place, blocks>> /\ Text' = Text \o trunk
  BY <1>1, <1>2, BodyIsBuffer, PutExtends DEF gbuff_put
<1>4. pc' = "tail"
  BY <1>1, <1>3
<1>5. /\ cap' \in 1..MaxAlloc /\ len' \in Nat /\ len' < cap' /\ hi' \in Int /\ hi' < cap'
      /\ data' \in [0..cap'-1 -> Byte] /\ place' = "heap"
  BY <1>3 DEF BInv, BodyTypeOK, IInv, Shape, WritesInBounds
<1>6. BodyTypeOK'
  BY <1>1, <1>4, <1>5 DEF BInv, BodyTypeOK, ownVars, PC
<1>7. /\ Collected' /\ RoomForChunk' /\ Roomy' /\ Sized' /\ Wild' /\ Completed'
      /\ Written' /\ TrunkBlock' /\ Ended'
  BY <1>1, <1>3, <1>4
  DEF BInv, Collected, RoomForChunk, Roomy, Sized, Wild, Completed, Written, TrunkBlock,
      Ended, ownVars
<1> QED
  BY <1>5, <1>6, <1>7 DEF BInv

\* A chunk whose length is that of a failed read leads astray, or to a failure.
LEMMA PutWrapsStep ==
  ASSUME BInv, PutWraps
  PROVE  BInv'
<1>1. /\ pc = "put" /\ Len(trunk) # announced /\ result' = result
      /\ \/ bodyHi' = len + announced - 1 /\ pc' = "wild"
         \/ pc' = "fail" /\ bodyHi' = bodyHi
      /\ UNCHANGED <<vars, tcap, trunk, trunks, announced, eof, trunkHi,
                     kind, want, complete, odd>>
  BY DEF PutWraps, GoTo
<1>2. "wraps" \in odd
  BY <1>1 DEF BInv, Roomy
<1>3. bodyHi' \in Int
  BY <1>1, BodySizes DEF BInv, BodyTypeOK
<1>4. BodyTypeOK' /\ (hi < cap)'
  BY <1>1, <1>3, SameBuffer DEF BInv, BodyTypeOK, PC
<1>5. /\ Collected' /\ RoomForChunk' /\ Roomy' /\ Sized' /\ Wild' /\ Completed'
      /\ Written' /\ TrunkBlock' /\ Ended'
  BY <1>1, <1>2, SameBuffer
  DEF BInv, Collected, RoomForChunk, Roomy, Sized, Wild, Completed, Written, TrunkBlock,
      Ended
<1> QED
  BY <1>4, <1>5 DEF BInv

\* Appending nothing terminates the text if there is a byte left for it, and
\* leaves it as it is.
LEMMA AppendNothing ==
  ASSUME IInv, gbuff_appendf(<<>>)
  PROVE  /\ IInv' /\ UNCHANGED <<len, cap, place, blocks>> /\ Text' = Text
         /\ len + 1 < cap => data'[len'] = NUL
<1> USE DEF IInv, Shape, WritesInBounds
<1>1. <<>> \in Seq(Byte) /\ Len(<<>>) = 0
  OBVIOUS
<1>2. IInv' /\ UNCHANGED <<cap, place, blocks>>
  BY <1>1, AppendStep DEF gbuff_appendf
<1>3. CASE len + 1 >= cap
  BY <1>2, <1>3 DEF gbuff_appendf, Text
<1>4. CASE ~(len + 1 >= cap)
  <2> DEFINE k == Printed(<<>>, cap - len)
             t == SubSeq(<<>>, 1, k) \o <<NUL>>
  <2>1. k = 0 /\ t \in Seq(Byte) /\ Len(t) = 1
    BY <1>1, <1>4, PrintedFits
  <2>2. t[1] = NUL
    BY <1>1, <1>4, <2>1, PrintedFits
  <2>3. data' = CopyIn(data, len, t) /\ len' = len
    BY <1>4, <2>1 DEF gbuff_appendf
  <2> HIDE DEF k, t
  <2>5. data'[len] = NUL /\ \A j \in 0..cap-1 : j < len => data'[j] = data[j]
    BY <1>4, <2>1, <2>2, <2>3 DEF CopyIn
  <2>6. Text' = Text
    BY <2>3, <2>5 DEF Text
  <2> QED
    BY <1>2, <2>3, <2>5, <2>6
<1> QED
  BY <1>3, <1>4

\* The last chunk has been read: the text is returned as it is.
LEMMA EndChunkedStep ==
  ASSUME BInv, EndChunked
  PROVE  BInv'
<1>1. /\ pc = "end" /\ pc' = "idle" /\ result' = "ok" /\ gbuff_appendf(<<>>)
      /\ tcap' = 0 /\ trunk' = <<>> /\ trunkHi' = -1
      /\ trunks' = IF NDebug THEN trunks ELSE trunks - 1
      /\ UNCHANGED <<announced, eof, bodyHi, kind, want, complete, odd>>
  BY DEF EndChunked, Return, FreeTrunk
<1>2. /\ IInv' /\ UNCHANGED <<len, cap, place, blocks>> /\ Text' = Text
      /\ len + 1 < cap => data'[len'] = NUL
  BY <1>1, BodyIsBuffer, AppendNothing
<1>3. /\ cap' \in 1..MaxAlloc /\ len' \in Nat /\ len' < cap' /\ hi' \in Int /\ hi' < cap'
      /\ data' \in [0..cap'-1 -> Byte] /\ place' = "heap"
  BY <1>2 DEF BInv, BodyTypeOK, IInv, Shape, WritesInBounds
<1>4. trunks' \in Nat /\ (~NDebug => trunks' = 0)
  BY <1>1, GBuffAssumption DEF BInv, BodyTypeOK, TrunkBlock
<1>5. BodyTypeOK'
  <2>1. <<>> \in Seq(Byte) /\ 0 \in 0..MaxAlloc /\ -1 \in Int
    BY BodySizes
  <2> QED
    BY <1>1, <1>3, <1>4, <2>1 DEF BInv, BodyTypeOK, PC
<1>6. /\ Collected' /\ RoomForChunk' /\ Roomy' /\ Sized' /\ Wild' /\ Completed'
      /\ TrunkBlock'
  BY <1>1, <1>4
  DEF BInv, Collected, RoomForChunk, Roomy, Sized, Wild, Completed, TrunkBlock
<1>7. Written'
  BY <1>1, <1>2 DEF BInv, Written
<1>8. Ended'
  <2>1. kind = "chunked" /\ Text = want /\ (complete \/ "no size" \in odd)
    BY <1>1 DEF BInv, Collected, Completed
  <2>2. ContentTerminated'
    BY <1>1, <1>2, <2>1 DEF ContentTerminated
  <2> QED
    BY <1>1, <1>2, <2>1, <2>2 DEF Ended
<1> QED
  BY <1>3, <1>5, <1>6, <1>7, <1>8 DEF BInv

\* The trunk is freed on the way out.
LEMMA FailStep ==
  ASSUME BInv, Fail
  PROVE  BInv'
<1>1. /\ pc = "fail" /\ pc' = "idle" /\ result' = "fail"
      /\ tcap' = 0 /\ trunk' = <<>> /\ trunkHi' = -1
      /\ trunks' = IF NDebug THEN trunks ELSE trunks - 1
      /\ UNCHANGED <<vars, announced, eof, bodyHi, kind, want, complete, odd>>
  BY DEF Fail, Return, FreeTrunk
<1>2. trunks' \in Nat /\ (~NDebug => trunks' = 0)
  BY <1>1, GBuffAssumption DEF BInv, BodyTypeOK, TrunkBlock
<1>3. BodyTypeOK' /\ (hi < cap)'
  <2>1. <<>> \in Seq(Byte) /\ 0 \in 0..MaxAlloc /\ -1 \in Int
    BY BodySizes
  <2> QED
    BY <1>1, <1>2, <2>1, SameBuffer DEF BInv, BodyTypeOK, PC
<1>4. /\ Collected' /\ RoomForChunk' /\ Roomy' /\ Sized' /\ Wild' /\ Completed'
      /\ TrunkBlock' /\ Ended' /\ Written'
  BY <1>1, <1>2, SameBuffer
  DEF BInv, Collected, RoomForChunk, Roomy, Sized, Wild, Completed, TrunkBlock,
      Ended, Written
<1> QED
  BY <1>3, <1>4 DEF BInv

\* A response begins: the buffer is emptied.
LEMMA BeginStep ==
  ASSUME BInv, NEW k \in {"chunked", "content"}, http_body(k)
  PROVE  BInv'
<1>1. <<NUL>> \in Seq(Byte) /\ Len(<<NUL>>) = 1 /\ <<>> \in Seq(Byte)
  BY DEF Byte
<1>2. /\ pc = "idle" /\ data' = CopyIn(data, 0, <<NUL>>) /\ len' = 0 /\ hi' = 0
      /\ UNCHANGED <<cap, place, blocks, tcap, trunk, trunks, announced, trunkHi>>
      /\ eof' \in BOOLEAN /\ bodyHi' = -1 /\ complete' = FALSE /\ odd' = {}
      /\ want' = <<>> /\ kind' = k /\ result' = "none"
      /\ pc' = IF k = "chunked" THEN "init" ELSE "content"
  BY DEF http_body, gbuff_clear
<1>3. data' \in [0..cap'-1 -> Byte]
  <2>1. cap \in Nat /\ data \in [0..cap-1 -> Byte]
    BY BodySizes DEF BInv, BodyTypeOK
  <2>2. CopyIn(data, 0, <<NUL>>) \in [0..cap-1 -> Byte]
    BY <1>1, <2>1, CopyInType
  <2> QED
    BY <1>2, <2>2
<1>4. BodyTypeOK' /\ (hi < cap)'
  BY <1>1, <1>2, <1>3, BodySizes DEF BInv, BodyTypeOK, PC
<1>5. Text' = <<>>
  BY <1>2 DEF Text
<1>6. /\ Collected' /\ RoomForChunk' /\ Roomy' /\ Sized' /\ Wild' /\ Completed'
      /\ Ended' /\ TrunkBlock'
  BY <1>2, <1>5
  DEF BInv, Collected, RoomForChunk, Roomy, Sized, Wild, Completed, Ended, TrunkBlock
<1>7. Written'
  <2>1. -1 < cap /\ trunkHi < tcap
    BY <1>2, BodySizes DEF BInv, Written, BodyTypeOK
  <2> QED
    BY <1>2, <2>1 DEF Written
<1> QED
  BY <1>4, <1>6, <1>7 DEF BInv

\* Room for the content and its '\0' is made, or the response fails.
LEMMA GrowContentStep ==
  ASSUME BInv, NEW h \in Lengths \cup {None}, GrowContent(h)
  PROVE  BInv'
<1> DEFINE n == header_content_length(h)
<1>1. n \in 0..W-1
  <2>1. CASE h = None
    BY <2>1, BodySizes DEF header_content_length
  <2>2. CASE h # None
    <3>1. h \in -W..W-1
      BY <2>2, BodyAssumption
    <3>2. h \in Int /\ -W <= h /\ h < 2 * W
      BY <3>1, BodySizes
    <3>3. SizeT(h) \in 0..W-1
      BY <3>2, SizeTIs
    <3> QED
      BY <2>2, <3>3 DEF header_content_length
  <2> QED
    BY <2>1, <2>2
<1>2. /\ pc = "content" /\ announced' = n /\ gbuff_ensure(ContentRoom(n))
      /\ cap' <= MaxAlloc
      /\ IF ret' = 0 THEN pc' = "read" /\ result' = result
                     ELSE pc' = "idle" /\ result' = "fail"
      /\ odd' = odd \cup NoLength(h) \cup ContentWraps(n)
      /\ UNCHANGED <<tcap, trunk, trunks, eof, bodyHi, trunkHi, kind, want, complete>>
  BY DEF GrowContent, GoTo, Return
<1> HIDE DEF n
<1>3. /\ cap \in 1..MaxAlloc /\ len = 0 /\ want = <<>> /\ len < cap /\ place = "heap"
      /\ trunkHi < tcap /\ bodyHi < cap /\ bodyHi \in Int
  BY <1>2 DEF BInv, BodyTypeOK, Collected, Written
<1>4. /\ ContentRoom(n) \in Nat /\ (ContentRoom(n) > len \/ ContentRoom(n) <= cap)
      /\ ContentRoom(n) = n + 1 \/ n + 1 >= W
  BY <1>1, <1>3, BodySizes DEF ContentRoom, SizeT
<1>5. /\ IInv' /\ ret' \in {0, -1}
      /\ UNCHANGED <<len, place, blocks>> /\ Text' = Text
      /\ ret' = 0 => cap' >= ContentRoom(n)
      /\ cap <= cap'
  BY <1>2, <1>4, BodyIsBuffer, EnsureStep
<1>6. /\ cap' \in 1..MaxAlloc /\ len' = 0 /\ len' < cap' /\ hi' \in Int /\ hi' < cap'
      /\ data' \in [0..cap'-1 -> Byte] /\ place' = "heap"
  <2>1. /\ cap' \in Nat /\ len' \in Nat /\ hi' \in Int /\ data' \in [0..cap'-1 -> Byte]
        /\ place' = "heap" /\ len' < cap' /\ hi' < cap' /\ len' = 0
    BY <1>3, <1>5 DEF IInv, Shape, WritesInBounds
  <2>2. cap' \in 1..MaxAlloc
    BY <1>2, <2>1, BodySizes
  <2> QED
    BY <2>1, <2>2
<1>7. /\ \/ pc' = "read" /\ result' = result /\ ret' = 0
         \/ pc' = "idle" /\ result' = "fail"
      /\ NoLength(h) \cup ContentWraps(n) \subseteq Odd
      /\ n + 1 >= W => "wraps" \in ContentWraps(n)
  BY <1>2 DEF NoLength, ContentWraps, Odd
<1>8. BodyTypeOK'
  BY <1>1, <1>2, <1>6, <1>7 DEF BInv, BodyTypeOK, PC
<1>9. Roomy'
  <2>1. pc' = "read" => announced' < cap' \/ "wraps" \in odd'
    BY <1>1, <1>2, <1>4, <1>5, <1>6, <1>7, BodySizes
  <2> QED
    BY <1>7, <2>1 DEF Roomy
<1>10. Written'
  <2>1. bodyHi < cap'
    BY <1>3, <1>5, <1>6
  <2> QED
    BY <1>2, <1>3, <2>1 DEF Written
<1>11. /\ Collected' /\ RoomForChunk' /\ Sized' /\ Wild' /\ Completed'
       /\ Ended' /\ TrunkBlock'
  BY <1>2, <1>3, <1>6, <1>7
  DEF BInv, Collected, RoomForChunk, Sized, Wild, Completed, Ended, TrunkBlock
<1> QED
  BY <1>6, <1>8, <1>9, <1>10, <1>11 DEF BInv

\* All of the content is read.
LEMMA ReadContentStep ==
  ASSUME BInv, NEW b \in Bytes, NEW res \in {Len(b), -1}, ReadContent(b, res)
  PROVE  BInv'
<1>1. /\ pc = "read" /\ want' = b /\ complete' = (Len(b) = announced)
      /\ bodyHi' = announced /\ hi' = -1
      /\ UNCHANGED <<cap, place, blocks, tcap, trunk, trunks, announced, trunkHi,
                     kind, odd>>
      /\ \/ /\ announced < cap /\ data' = CopyIn(data, 0, WithEnd(b))
            /\ len' = announced /\ pc' = "idle" /\ result' = "ok"
         \/ /\ ~(announced < cap) /\ pc' = "wild" /\ UNCHANGED <<data, len, result>>
  BY DEF ReadContent, GoTo, Return
<1>2. /\ b \in Seq(Byte) /\ Len(b) \in Nat /\ Len(b) <= announced
      /\ eof' \in BOOLEAN
      /\ Len(b) = announced \/ (b = <<>> /\ announced = W - 1)
  BY ReadIs DEF ReadContent
<1>3. /\ cap \in 1..MaxAlloc /\ announced \in 0..W-1 /\ data \in [0..cap-1 -> Byte]
      /\ len \in Nat /\ len < cap /\ result # "ok"
      /\ announced < cap \/ "wraps" \in odd
  BY <1>1 DEF BInv, BodyTypeOK, Roomy, Ended
<1>4. CASE announced < cap
  <2>1. /\ data' = CopyIn(data, 0, WithEnd(b)) /\ len' = announced
        /\ pc' = "idle" /\ result' = "ok" /\ Len(b) = announced
    BY <1>1, <1>2, <1>3, <1>4, BodySizes
  <2>2. announced \in Nat /\ cap \in Nat
    BY <1>3, BodySizes
  <2>3. /\ Text' = b /\ data'[len'] = NUL
        /\ data' \in [0..cap-1 -> Byte]
    BY <1>2, <1>3, <1>4, <2>1, <2>2, TextRead
  <2>4. BodyTypeOK' /\ (hi < cap)'
    BY <1>1, <1>2, <1>3, <1>4, <2>1, <2>2, <2>3, BodySizes DEF BInv, BodyTypeOK, PC
  <2>5. /\ Collected' /\ RoomForChunk' /\ Roomy' /\ Sized' /\ Wild' /\ Completed'
        /\ TrunkBlock'
    BY <1>1, <2>1
    DEF BInv, Collected, RoomForChunk, Roomy, Sized, Wild, Completed, TrunkBlock
  <2>6. Written' /\ Ended'
    BY <1>1, <1>4, <2>1, <2>3 DEF BInv, Written, Ended, ContentTerminated
  <2> QED
    BY <2>4, <2>5, <2>6 DEF BInv
<1>5. CASE ~(announced < cap)
  <2>1. pc' = "wild" /\ UNCHANGED <<data, len, result>> /\ "wraps" \in odd
    BY <1>1, <1>3, <1>5
  <2>2. announced \in Int /\ hi' < cap
    BY <1>1, <1>3, BodySizes
  <2>3. BodyTypeOK' /\ (hi < cap)'
    BY <1>1, <1>2, <1>3, <2>1, <2>2 DEF BInv, BodyTypeOK, PC
  <2>4. /\ Collected' /\ RoomForChunk' /\ Roomy' /\ Sized' /\ Wild' /\ Completed'
        /\ TrunkBlock' /\ Written' /\ Ended'
    BY <1>1, <1>3, <2>1
    DEF BInv, Collected, RoomForChunk, Roomy, Sized, Wild, Completed, TrunkBlock,
        Written, Ended
  <2> QED
    BY <2>3, <2>4 DEF BInv
<1> QED
  BY <1>4, <1>5

\* The content ends early.
LEMMA ContentFailsStep ==
  ASSUME BInv, NEW b \in Bytes, NEW res \in {Len(b), -1}, ContentFails(b, res)
  PROVE  BInv'
<1>1. /\ pc = "read" /\ want' = b /\ bodyHi' = Len(b) - 1 /\ hi' = -1
      /\ UNCHANGED <<len, cap, place, blocks, tcap, trunk, trunks, announced, trunkHi,
                     kind, complete, odd>>
      /\ \/ /\ Len(b) <= cap /\ data' = CopyIn(data, 0, b)
            /\ pc' = "idle" /\ result' = "fail"
         \/ /\ ~(Len(b) <= cap) /\ pc' = "wild" /\ UNCHANGED <<data, result>>
  BY DEF ContentFails, GoTo, Return
<1>2. /\ b \in Seq(Byte) /\ Len(b) \in Nat /\ Len(b) <= announced /\ eof' \in BOOLEAN
  BY ReadIs DEF ContentFails
<1>3. /\ cap \in 1..MaxAlloc /\ announced \in 0..W-1 /\ data \in [0..cap-1 -> Byte]
      /\ len \in Nat /\ len < cap /\ result # "ok"
      /\ announced < cap \/ "wraps" \in odd
  BY <1>1 DEF BInv, BodyTypeOK, Roomy, Ended
<1>4. /\ cap \in Nat /\ Len(b) - 1 \in Int /\ hi' < cap
      /\ Len(b) <= cap => Len(b) - 1 < cap
      /\ ~(Len(b) <= cap) => "wraps" \in odd
  BY <1>1, <1>2, <1>3, BodySizes
<1>5. data' \in [0..cap-1 -> Byte]
  BY <1>1, <1>2, <1>3, <1>4, CopyInType
<1>6. BodyTypeOK' /\ (hi < cap)'
  BY <1>1, <1>2, <1>3, <1>4, <1>5 DEF BInv, BodyTypeOK, PC
<1>7. /\ Collected' /\ RoomForChunk' /\ Roomy' /\ Sized' /\ Wild' /\ Completed'
      /\ TrunkBlock' /\ Written' /\ Ended'
  BY <1>1, <1>3, <1>4
  DEF BInv, Collected, RoomForChunk, Roomy, Sized, Wild, Completed, TrunkBlock,
      Written, Ended
<1> QED
  BY <1>6, <1>7 DEF BInv

\* Every step keeps the invariant.
LEMMA StepBInv == BInv /\ [BodyNext]_bodyVars => BInv'
<1> SUFFICES ASSUME BInv, [BodyNext]_bodyVars PROVE BInv'
  OBVIOUS
<1>1. CASE BodyNext
  <2>1. CASE \E k \in {"chunked", "content"} : http_body(k)
    BY <2>1, BeginStep
  <2>2. CASE TrunkInit \/ GrowTrunk \/ GrowBody
    BY <2>2, TrunkInitStep, GrowTrunkStep, GrowBodyStep
  <2>3. CASE PutChunk \/ PutWraps \/ EndChunked \/ Fail
    BY <2>3, PutChunkStep, PutWrapsStep, EndChunkedStep, FailStep
  <2>4. ASSUME NEW n \in LineLens, NEW m \in 0..n,
               \/ ReadTail(n, m) \/ LastLine(n, m)
               \/ \E s \in Sizes \cup {None} : \E c \in Number(s, n, m) :
                    SizeLine(s, n, m, c)
        PROVE  BInv'
    BY <2>4, OtherLineStep, SizeLineStep
  <2>5. CASE \E h \in Lengths \cup {None} : GrowContent(h)
    BY <2>5, GrowContentStep
  <2>6. ASSUME NEW b \in Bytes, NEW res \in {Len(b), -1},
               ReadChunk(b, res) \/ ReadContent(b, res) \/ ContentFails(b, res)
        PROVE  BInv'
    BY <2>6, ReadChunkStep, ReadContentStep, ContentFailsStep
  <2> QED
    BY <1>1, <2>1, <2>2, <2>3, <2>4, <2>5, <2>6 DEF BodyNext
<1>2. CASE UNCHANGED bodyVars
  <2>1. UNCHANGED vars /\ UNCHANGED <<pc, result>> /\ UNCHANGED ownVars
    BY <1>2 DEF bodyVars
  <2>2. BodyTypeOK' /\ (hi < cap)'
    BY <2>1, SameBuffer DEF ownVars, BInv, BodyTypeOK
  <2>3. RoomForChunk' /\ ContentTerminated' = ContentTerminated
    BY <2>1 DEF ownVars, vars, BInv, RoomForChunk, Fits, ContentTerminated
  <2>4. Collected' /\ Roomy' /\ Sized' /\ Completed' /\ TrunkBlock'
    <3>1. Collected'
      BY <2>1, SameBuffer DEF ownVars, BInv, Collected
    <3>2. Roomy' /\ Sized' /\ Completed' /\ TrunkBlock'
      BY <2>1, SameBuffer DEF ownVars, BInv, Roomy, Sized, Completed, TrunkBlock
    <3> QED
      BY <3>1, <3>2
  <2>6. Written' /\ Wild'
    BY <2>1, SameBuffer DEF ownVars, BInv, Written, Wild
  <2>5. Ended'
    BY <2>1, <2>3, SameBuffer DEF ownVars, BInv, Ended
  <2> QED
    BY <2>2, <2>3, <2>4, <2>5, <2>6 DEF BInv
<1> QED
  BY <1>1, <1>2

\* The invariant holds for ever.
LEMMA BodyInvariant == BodySpec => []BInv
<1> QED
  BY InitBInv, StepBInv, PTL DEF BodySpec

\* http_body keeps the shape every operation of the buffer relies on, also
\* through its own writes past those operations.
THEOREM BodyTypes == BodySpec => []BodyTypeOK
<1>1. BInv => BodyTypeOK
  BY DEF BInv
<1> QED
  BY <1>1, BodyInvariant, PTL

\* Whatever lengths, lines and cuts, and however allocations fail: a write
\* leaves its block only after a length whose room wraps around or a line that
\* fills the trunk.
THEOREM BodyBounded == BodySpec => []BodyInBounds
<1>1. BInv => BodyInBounds
  BY DEF BInv, Written, Wild, BodyInBounds
<1> QED
  BY <1>1, BodyInvariant, PTL

\* A body returned for a regular response is the one the server has sent, to
\* its end.
THEOREM BodyIsWhole == BodySpec => []BodyWhole
<1>1. BInv => BodyWhole
  BY DEF BInv, Ended, BodyWhole
<1> QED
  BY <1>1, BodyInvariant, PTL

\* The room asked for a chunk is always enough for it.
THEOREM BodyHasRoom == BodySpec => []RoomForChunk
<1>1. BInv => RoomForChunk
  BY DEF BInv
<1> QED
  BY <1>1, BodyInvariant, PTL

\* The trunk is freed on every path of a debug build.
THEOREM BodyFreesTrunk == BodySpec => []TrunkFreed
<1>1. BInv => TrunkFreed
  BY DEF BInv, TrunkBlock, TrunkFreed
<1> QED
  BY <1>1, BodyInvariant, PTL

\* Content is terminated, and so are chunks while a byte is left for the '\0'.
THEOREM BodyTerminated == BodySpec => []ContentTerminated
<1>1. BInv => ContentTerminated
  BY DEF BInv, Ended, ContentTerminated
<1> QED
  BY <1>1, BodyInvariant, PTL
=============================================================================
