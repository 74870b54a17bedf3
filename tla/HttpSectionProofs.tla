-------------------------- MODULE HttpSectionProofs --------------------------
(***************************************************************************)
(* Proofs about HttpSection, for any response and any size of the buffer.  *)
(* As long as a complete section that fits is being read, what was stored  *)
(* is what was read, the line began where the last CRLF read ended, and    *)
(* the CRLFs up to there are the lines counted.                            *)
(***************************************************************************)
EXTENDS HttpSection, FiniteSetTheorems, WellFoundedInduction, TLAPS

------------------------------------------------------------------------------
(* the bytes stored *)

Shape == /\ sent \in Seq(Byte) /\ Len(sent) \in Nat
         /\ read \in 0..Len(sent)
         /\ buf \in Seq(Byte) /\ Len(buf) \in Nat
         /\ used \in 0..Len(buf)
         /\ pc \in {"line", "done"}

\* Only a full buffer lags behind what was read.
Follows == /\ PrefixStored
           /\ Len(buf) <= read
           /\ Len(buf) < MaxLen => read = Len(buf)

PInv == Shape /\ Follows

\* One byte more of what was sent.
LEMMA OneByteMore ==
  ASSUME NEW s \in Seq(Byte), NEW n \in Nat, n < Len(s),
         NEW b \in Seq(Byte), Len(b) = n, b = SubSeq(s, 1, n)
  PROVE  /\ Append(b, s[n + 1]) = SubSeq(s, 1, n + 1)
         /\ Append(b, s[n + 1]) \in Seq(Byte)
         /\ Len(Append(b, s[n + 1])) = n + 1
<1>1. s[n + 1] \in Byte
  OBVIOUS
<1>2. Append(b, s[n + 1]) \in Seq(Byte) /\ Len(Append(b, s[n + 1])) = n + 1
  BY <1>1
<1>3. SubSeq(s, 1, n + 1) \in Seq(Byte) /\ Len(SubSeq(s, 1, n + 1)) = n + 1
  OBVIOUS
<1>4. \A i \in 1..n+1 : Append(b, s[n + 1])[i] = SubSeq(s, 1, n + 1)[i]
  OBVIOUS
<1> QED
  BY <1>2, <1>3, <1>4

\* What a Store adds.
LEMMA StoreAdds ==
  ASSUME PInv, pc = "line", read < Len(sent), Fits
  PROVE  /\ read = Len(buf)
         /\ Append(buf, sent[read + 1]) = SubSeq(sent, 1, read + 1)
         /\ Append(buf, sent[read + 1]) \in Seq(Byte)
         /\ Len(Append(buf, sent[read + 1])) = read + 1
<1>1. read = Len(buf) /\ buf = SubSeq(sent, 1, read)
  BY DEF PInv, Shape, Follows, PrefixStored, Fits
<1> QED
  BY <1>1, OneByteMore DEF PInv, Shape

LEMMA InitPInv == Init => PInv
<1> SUFFICES ASSUME Init PROVE PInv
  OBVIOUS
<1>1. PICK n \in 0..MaxSent : sent \in [1..n -> Byte]
  BY DEF Init
<1>2. sent \in Seq(Byte) /\ Len(sent) = n
  BY <1>1, SectionAssumption
<1>3. buf = <<>> /\ Len(buf) = 0 /\ SubSeq(sent, 1, 0) = <<>>
  BY <1>2 DEF Init
<1> QED
  BY <1>2, <1>3 DEF Init, PInv, Shape, Follows, PrefixStored

LEMMA StepPInv == PInv /\ [Next]_vars => PInv'
<1> SUFFICES ASSUME PInv, [Next]_vars PROVE PInv'
  OBVIOUS
<1>1. CASE Store
  <2>1. /\ read = Len(buf)
        /\ Append(buf, sent[read + 1]) = SubSeq(sent, 1, read + 1)
        /\ Append(buf, sent[read + 1]) \in Seq(Byte)
        /\ Len(Append(buf, sent[read + 1])) = read + 1
    BY <1>1, StoreAdds DEF Store
  <2>2. /\ buf' = Append(buf, sent[read + 1]) /\ read' = read + 1 /\ sent' = sent
        /\ used' \in {used, Len(Append(buf, sent[read + 1]))}
        /\ pc' \in {"line", "done"} /\ read < Len(sent)
    BY <1>1 DEF Store, LineEnds
  <2>3. Len(buf') = read + 1 /\ read + 1 \in 0..Len(sent)
    BY <2>1, <2>2 DEF PInv, Shape
  <2>4. used' \in 0..read + 1
    BY <2>1, <2>2 DEF PInv, Shape
  <2> QED
    BY <2>1, <2>2, <2>3, <2>4 DEF PInv, Shape, Follows, PrefixStored
<1>2. CASE Drop
  <2>1. /\ buf' = buf /\ read' = read + 1 /\ sent' = sent /\ used' = Len(buf)
        /\ pc' \in {"line", "done"} /\ read < Len(sent) /\ ~(Len(buf) < MaxLen)
    BY <1>2 DEF Drop, LineEnds, Fits
  <2>2. read + 1 \in 0..Len(sent) /\ Len(buf) <= read + 1
    BY <2>1 DEF PInv, Shape, Follows
  <2>3. Len(buf) \in 0..Len(buf)
    BY DEF PInv, Shape
  <2>4. Shape'
    BY <2>1, <2>2, <2>3 DEF PInv, Shape
  <2>5. Follows'
    BY <2>1, <2>2 DEF PInv, Follows, PrefixStored
  <2> QED
    BY <2>4, <2>5 DEF PInv
<1>3. CASE Eof
  <2>1. /\ buf' = buf /\ read' = read /\ sent' = sent /\ used' = Len(buf)
        /\ pc' \in {"line", "done"}
    BY <1>3 DEF Eof, LineEnds
  <2>2. Len(buf) \in 0..Len(buf)
    BY DEF PInv, Shape
  <2>3. Shape'
    BY <2>1, <2>2 DEF PInv, Shape
  <2>4. Follows'
    BY <2>1 DEF PInv, Follows, PrefixStored
  <2> QED
    BY <2>3, <2>4 DEF PInv
<1>4. CASE UNCHANGED vars
  BY <1>4 DEF vars, PInv, Shape, Follows, PrefixStored
<1> QED
  BY <1>1, <1>2, <1>3, <1>4 DEF Next

\* Whatever is sent, and wherever the buffer is full or the connection ends,
\* what is stored is the beginning of what was sent.
THEOREM SectionPrefixStored == Spec => []PrefixStored
<1>1. PInv => PrefixStored
  BY DEF PInv, Follows
<1> QED
  BY <1>1, InitPInv, StepPInv, PTL DEF Spec

------------------------------------------------------------------------------
(* a complete section that fits *)

\* A set of numbers that has one has a least one.
LEMMA LeastNumber ==
  ASSUME NEW S \in SUBSET Nat, S # {}
  PROVE  \E k \in S : \A j \in S : k <= j
<1> DEFINE R == OpToRel(<, Nat)
<1>1. IsWellFoundedOn(R, Nat)
  BY NatLessThanWellFounded
<1>2. \A x, y \in Nat : x < y => <<x, y>> \in R
  BY DEF OpToRel
<1> HIDE DEF R
<1>3. PICK k \in S : \A j \in S : ~ (<<j, k>> \in R)
  BY <1>1, WFMin
<1>4. ASSUME NEW j \in S PROVE k <= j
  <2>1. j \in Nat /\ k \in Nat /\ ~(<<j, k>> \in R)
    BY <1>3
  <2>2. ~(j < k)
    BY <1>2, <2>1
  <2> QED
    BY <2>1, <2>2
<1> QED
  BY <1>4

\* Where a CRLF can be.
LEMMA CrlfPlaces ==
  ASSUME NEW s \in Seq(Byte)
  PROVE  /\ \A j \in Crlf(s) : /\ j \in Nat /\ j >= 1 /\ j + 1 <= Len(s)
                               /\ s[j] = CR /\ s[j + 1] = LF
         /\ \A j \in Nat : j >= 1 /\ j + 1 <= Len(s) /\ s[j] = CR /\ s[j + 1] = LF
                             => j \in Crlf(s)
         /\ Blank(s) \subseteq Crlf(s)
  BY DEF Crlf, Blank

\* The first blank line of a complete section.
IsFirstBlank(k) ==
  /\ k \in Nat /\ k > 1 /\ k + 1 <= Len(sent) /\ SectionEnd = k + 1
  /\ k \in Crlf(sent) /\ k - 2 \in Crlf(sent) /\ k \in Blank(sent)
  /\ \A j \in Blank(sent) : j \in Nat /\ k <= j

LEMMA FirstBlank ==
  ASSUME Shape, Complete
  PROVE  \E k : IsFirstBlank(k)
<1> DEFINE k == CHOOSE i \in Blank(sent) : \A j \in Blank(sent) : i <= j
<1>1. /\ \A j \in Crlf(sent) : j \in Nat /\ j >= 1 /\ j + 1 <= Len(sent)
      /\ Blank(sent) \subseteq Crlf(sent)
  BY CrlfPlaces DEF Shape
<1>2. Blank(sent) \in SUBSET Nat /\ Blank(sent) # {} /\ 1 \notin Blank(sent)
  BY <1>1 DEF Complete
<1>3. \E i \in Blank(sent) : \A j \in Blank(sent) : i <= j
  BY <1>2, LeastNumber
<1>4. k \in Blank(sent) /\ \A j \in Blank(sent) : k <= j
  BY <1>3
<1>5. SectionEnd = k + 1
  BY DEF SectionEnd
<1> HIDE DEF k
<1>6. k # 1 /\ k \in Crlf(sent) /\ k \in Nat /\ k >= 1 /\ k + 1 <= Len(sent)
  BY <1>1, <1>2, <1>4
<1>7. k - 2 \in Crlf(sent)
  BY <1>4, <1>6 DEF Blank
<1> QED
  BY <1>2, <1>4, <1>5, <1>6, <1>7 DEF IsFirstBlank

\* The CRLFs of the lines that have ended when the next one begins at u.
EndsBy(u) == {j \in Crlf(sent) : j + 1 <= u}

\* The next line begins behind the last CRLF read, the flag is up behind a CR,
\* the section is not over, and each line that ended was counted.
LineAt(r, u, f, n) ==
  /\ r < SectionEnd
  /\ u = 0 \/ u - 1 \in Crlf(sent)
  /\ \A j \in Crlf(sent) : j + 1 <= r => j + 1 <= u
  /\ f \in {0, 1} /\ (f = 1 <=> r > 0 /\ sent[r] = CR)
  /\ n = Cardinality(EndsBy(u))

Whole == Complete /\ SectionEnd <= MaxLen

InLine == pc = "line" /\ Whole => LineAt(read, used, flag, count)

SInv == PInv /\ InLine /\ SectionWhole

\* The numbers in a set up to a bound are finitely many.
LEMMA EndsFinite ==
  ASSUME Shape, NEW u \in Nat
  PROVE  IsFiniteSet(EndsBy(u)) /\ Cardinality(EndsBy(u)) \in Nat
<1>1. EndsBy(u) \in SUBSET Nat /\ \A j \in EndsBy(u) : j <= u
  BY CrlfPlaces DEF EndsBy, Shape
<1>2. IsFiniteSet(EndsBy(u))
  BY <1>1, FS_BoundedSetOfNaturals
<1> QED
  BY <1>2, FS_CardinalityType

\* The line whose CRLF has been read ends: it is the next one.
LEMMA EndsGrows ==
  ASSUME Shape, NEW u \in Nat, NEW r \in Crlf(sent), u <= r,
         \A j \in Crlf(sent) : j + 1 <= r => j + 1 <= u
  PROVE  Cardinality(EndsBy(r + 1)) = Cardinality(EndsBy(u)) + 1
<1>1. \A j \in Crlf(sent) : j \in Nat
  BY CrlfPlaces DEF Shape
<1>2. EndsBy(r + 1) = EndsBy(u) \cup {r}
  <2>1. ASSUME NEW j \in Crlf(sent), j + 1 <= r + 1 PROVE j = r \/ j + 1 <= u
    BY <1>1, <2>1
  <2>2. ASSUME NEW j \in Crlf(sent), j + 1 <= u PROVE j + 1 <= r + 1
    BY <1>1, <2>2
  <2>3. r + 1 <= r + 1
    BY <1>1
  <2> QED
    BY <2>1, <2>2, <2>3 DEF EndsBy
<1>3. r \notin EndsBy(u)
  BY <1>1 DEF EndsBy
<1> QED
  BY <1>2, <1>3, EndsFinite, FS_AddElement

\* Before the first blank line has been read its CR is not one that ends a line
\* here, unless the line that began last is empty.
LEMMA NotBlankYet ==
  ASSUME Shape, Whole, LineAt(read, used, flag, count), used <= read,
         read \in Crlf(sent), read + 1 - used # 2
  PROVE  read + 1 < SectionEnd
<1>1. PICK k : IsFirstBlank(k)
  BY FirstBlank DEF Whole
<1>2. /\ k \in Nat /\ read \in Nat /\ used \in Nat /\ SectionEnd = k + 1
      /\ read < k + 1 /\ k - 2 \in Crlf(sent)
  BY <1>1, CrlfPlaces DEF IsFirstBlank, LineAt, Shape
<1>3. ASSUME read = k PROVE FALSE
  <2>1. (k - 2) + 1 <= read
    BY <1>2, <1>3
  <2>2. (k - 2) + 1 <= used
    BY <1>2, <2>1 DEF LineAt
  <2>3. used # read
    <3>1. CASE used = 0
      BY <1>1, <1>3, <3>1 DEF IsFirstBlank
    <3>2. CASE used - 1 \in Crlf(sent)
      <4>1. sent[(used - 1) + 1] = LF /\ sent[read] = CR
        BY <3>2, CrlfPlaces DEF Shape
      <4> QED
        BY <1>2, <4>1, SectionAssumption
    <3> QED
      BY <3>1, <3>2 DEF LineAt
  <2> QED
    BY <1>2, <1>3, <2>2, <2>3
<1> QED
  BY <1>2, <1>3

\* A line that is not blank ends: the next one begins, and it is counted.
LEMMA LineCounted ==
  ASSUME Shape, Whole, LineAt(read, used, flag, count), used <= read,
         read \in Crlf(sent), read + 1 - used # 2
  PROVE  LineAt(read + 1, read + 1, 0, count + 1)
<1>1. read + 1 < SectionEnd
  BY NotBlankYet
<1>2. read \in Nat /\ used \in Nat
  BY DEF Shape
<1>3. sent[read + 1] = LF
  BY CrlfPlaces DEF Shape
<1>4. count + 1 = Cardinality(EndsBy(read + 1))
  BY <1>2, EndsGrows DEF LineAt
<1>5. (read + 1) - 1 \in Crlf(sent)
  BY <1>2
<1> QED
  BY <1>1, <1>3, <1>4, <1>5, SectionAssumption DEF LineAt

\* A byte that ends no line leaves its beginning and the count.
LEMMA LineGoesOn ==
  ASSUME Shape, Whole, LineAt(read, used, flag, count), used <= read,
         read < Len(sent), read \notin Crlf(sent)
  PROVE  LineAt(read + 1, used, FlagAfter(sent[read + 1]), count)
<1>1. PICK k : IsFirstBlank(k)
  BY FirstBlank DEF Whole
<1>2. read \in Nat /\ used \in Nat /\ \A j \in Crlf(sent) : j \in Nat
  BY CrlfPlaces DEF Shape
<1>3. read + 1 < SectionEnd
  BY <1>1, <1>2 DEF IsFirstBlank, LineAt
<1>4. ASSUME NEW j \in Crlf(sent), j + 1 <= read + 1 PROVE j + 1 <= used
  <2>1. j + 1 <= read
    BY <1>2, <1>4
  <2> QED
    BY <2>1 DEF LineAt
<1>5. read + 1 > 0
  BY <1>2
<1> QED
  BY <1>3, <1>4, <1>5 DEF LineAt, FlagAfter

\* The flag tells whether a LF ends the line.
LEMMA FlagTells ==
  ASSUME Shape, LineAt(read, used, flag, count), read < Len(sent)
  PROVE  flag = 1 /\ sent[read + 1] = LF <=> read \in Crlf(sent)
<1>1. read \in Nat /\ Len(sent) \in Nat
  BY DEF Shape
<1>2. read \in Crlf(sent) => read >= 1 /\ sent[read] = CR /\ sent[read + 1] = LF
  BY CrlfPlaces DEF Shape
<1>3. read >= 1 /\ sent[read] = CR /\ sent[read + 1] = LF => read \in Crlf(sent)
  BY <1>1, CrlfPlaces DEF Shape
<1> QED
  BY <1>1, <1>2, <1>3 DEF LineAt

\* The lines counted up to the blank one are the status line and those
\* http_headers finds.
LEMMA HeadersCounted ==
  ASSUME Shape, NEW k, IsFirstBlank(k)
  PROVE  /\ Cardinality(EndsBy(k - 1)) # 0
         /\ HeaderLines(SubSeq(sent, 1, k + 1)) = Cardinality(EndsBy(k - 1)) - 1
<1> DEFINE s == SubSeq(sent, 1, k + 1)
<1>0. /\ k \in Nat /\ k > 1 /\ k + 1 <= Len(sent) /\ Len(sent) \in Nat
      /\ k \in Crlf(sent) /\ k - 2 \in Crlf(sent) /\ k \in Blank(sent)
      /\ \A j \in Blank(sent) : j \in Nat /\ k <= j
      /\ sent \in Seq(Byte)
  BY DEF IsFirstBlank, Shape
<1>1. s \in Seq(Byte) /\ Len(s) = k + 1 /\ \A j \in 1..k+1 : s[j] = sent[j]
  BY <1>0
<1> HIDE DEF s
<1>2. Crlf(s) = {j \in Crlf(sent) : j <= k}
  <2>1. ASSUME NEW j \in Crlf(s) PROVE j \in Crlf(sent) /\ j <= k
    <3>1. j \in Nat /\ j >= 1 /\ j + 1 <= k + 1 /\ s[j] = CR /\ s[j + 1] = LF
      BY <1>1, CrlfPlaces
    <3>2. j \in 1..k+1 /\ j + 1 \in 1..k+1 /\ j + 1 <= Len(sent)
      BY <1>0, <3>1
    <3>3. sent[j] = CR /\ sent[j + 1] = LF
      BY <1>1, <3>1, <3>2
    <3> QED
      BY <1>0, <3>1, <3>2, <3>3, CrlfPlaces
  <2>2. ASSUME NEW j \in Crlf(sent), j <= k PROVE j \in Crlf(s)
    <3>1. j \in Nat /\ j >= 1 /\ sent[j] = CR /\ sent[j + 1] = LF
      BY <1>0, CrlfPlaces
    <3>2. j \in 1..k+1 /\ j + 1 \in 1..k+1 /\ j + 1 <= Len(s)
      BY <1>0, <1>1, <2>2, <3>1
    <3>3. s[j] = CR /\ s[j + 1] = LF
      BY <1>1, <3>1, <3>2
    <3> QED
      BY <1>1, <3>1, <3>2, <3>3, CrlfPlaces
  <2> QED
    BY <2>1, <2>2
<1>3. \A j \in Crlf(sent) : j \in Nat /\ j >= 1
  BY <1>0, CrlfPlaces
<1>4. k \in Crlf(s) /\ k - 2 \in Crlf(s)
  BY <1>0, <1>2
<1>5. k \in Blank(s) /\ \A j \in Blank(s) : k <= j
  <2>1. k \in Blank(s)
    BY <1>4 DEF Blank
  <2>2. ASSUME NEW j \in Blank(s) PROVE k <= j
    <3>1. j \in Crlf(s) /\ (j = 1 \/ j - 2 \in Crlf(s))
      BY DEF Blank
    <3>2. j \in Blank(sent)
      BY <1>2, <3>1 DEF Blank
    <3> QED
      BY <1>0, <3>2
  <2> QED
    BY <2>1, <2>2
<1>6. PICK e \in Crlf(sent) : \A j \in Crlf(sent) : e <= j
  <2>1. Crlf(sent) \in SUBSET Nat /\ Crlf(sent) # {}
    BY <1>0, <1>3
  <2> QED
    BY <2>1, LeastNumber
<1>7. e <= k - 2
  BY <1>0, <1>6
<1>8. {i \in Crlf(s) : /\ \E j \in Crlf(s) : j < i
                       /\ \A j \in Blank(s) : j # 1 => i < j}
        = EndsBy(k - 1) \ {e}
  <2>1. ASSUME NEW i \in Crlf(s), NEW j \in Crlf(s), j < i,
               \A b \in Blank(s) : b # 1 => i < b
        PROVE  i \in EndsBy(k - 1) \ {e}
    <3>1. i \in Crlf(sent) /\ i \in Nat /\ j \in Crlf(sent) /\ j \in Nat /\ i < k
      BY <1>0, <1>2, <1>3, <1>5, <2>1
    <3>2. i # e
      BY <1>3, <1>6, <2>1, <3>1
    <3>3. i # k - 1
      <4>1. sent[i] = CR
        BY <1>0, <3>1, CrlfPlaces
      <4>2. sent[(k - 2) + 1] = LF
        BY <1>0, CrlfPlaces
      <4> QED
        BY <1>0, <4>1, <4>2, SectionAssumption
    <3>4. i + 1 <= k - 1
      BY <1>0, <3>1, <3>3
    <3> QED
      BY <3>1, <3>2, <3>4 DEF EndsBy
  <2>2. ASSUME NEW i \in EndsBy(k - 1), i # e
        PROVE  /\ i \in Crlf(s) /\ \E j \in Crlf(s) : j < i
               /\ \A j \in Blank(s) : j # 1 => i < j
    <3>1. i \in Crlf(sent) /\ i \in Nat /\ i + 1 <= k - 1
      BY <1>3 DEF EndsBy
    <3>2. i \in Crlf(s) /\ e \in Crlf(s)
      BY <1>0, <1>2, <1>3, <1>6, <1>7, <3>1
    <3>3. e < i
      BY <1>3, <1>6, <2>2, <3>1
    <3>4. \A j \in Blank(s) : j \in Nat
      BY <1>2, <1>3 DEF Blank
    <3>5. \A j \in Blank(s) : i < j
      BY <1>0, <1>5, <3>1, <3>4
    <3> QED
      BY <3>2, <3>3, <3>5
  <2> QED
    BY <2>1, <2>2
<1>9. e \in EndsBy(k - 1)
  BY <1>0, <1>3, <1>6, <1>7 DEF EndsBy
<1>10. IsFiniteSet(EndsBy(k - 1)) /\ Cardinality(EndsBy(k - 1)) \in Nat
  <2>1. k - 1 \in Nat
    BY <1>0
  <2> QED
    BY <2>1, EndsFinite
<1>11. Cardinality(EndsBy(k - 1)) # 0
  BY <1>9, <1>10, FS_EmptySet
<1>12. Cardinality(EndsBy(k - 1) \ {e}) = Cardinality(EndsBy(k - 1)) - 1
  BY <1>9, <1>10, FS_RemoveElement
<1>13. HeaderLines(s) = Cardinality(EndsBy(k - 1)) - 1
  BY <1>8, <1>12 DEF HeaderLines
<1> QED
  BY <1>11, <1>13 DEF s

\* A line of two characters behind another line is the blank one: the section
\* ends there.
LEMMA SectionEnds ==
  ASSUME Shape, Whole, LineAt(read, used, flag, count), used <= read,
         read \in Crlf(sent), read + 1 - used = 2
  PROVE  /\ read + 1 = SectionEnd /\ count # 0
         /\ HeaderLines(SubSeq(sent, 1, read + 1)) = count - 1
<1>1. PICK k : IsFirstBlank(k)
  BY FirstBlank DEF Whole
<1>2. /\ read \in Nat /\ used \in Nat /\ used = read - 1 /\ k \in Nat
      /\ SectionEnd = k + 1 /\ read < k + 1 /\ \A j \in Blank(sent) : k <= j
  BY <1>1 DEF IsFirstBlank, LineAt, Shape
<1>3. read \in Blank(sent)
  <2>1. CASE used = 0
    BY <1>2, <2>1 DEF Blank
  <2>2. CASE used - 1 \in Crlf(sent)
    <3>1. used - 1 = read - 2
      BY <1>2
    <3> QED
      BY <2>2, <3>1 DEF Blank
  <2> QED
    BY <2>1, <2>2 DEF LineAt
<1>4. read = k
  BY <1>2, <1>3
<1>5. count = Cardinality(EndsBy(k - 1))
  BY <1>2, <1>4 DEF LineAt
<1>6. /\ Cardinality(EndsBy(k - 1)) # 0
      /\ HeaderLines(SubSeq(sent, 1, k + 1)) = Cardinality(EndsBy(k - 1)) - 1
  BY <1>1, HeadersCounted
<1> QED
  BY <1>2, <1>4, <1>5, <1>6

\* Where the section ends does not change.
LEMMA SameSection ==
  ASSUME sent' = sent
  PROVE  Complete' = Complete /\ SectionEnd' = SectionEnd /\ Whole' = Whole
<1>1. Blank(sent)' = Blank(sent)
  BY DEF Blank, Crlf
<1>2. SectionEnd' = SectionEnd
  BY <1>1 DEF SectionEnd
<1>3. Complete' = Complete
  BY <1>1 DEF Complete
<1> QED
  BY <1>2, <1>3 DEF Whole

LEMMA SameLine ==
  ASSUME sent' = sent, NEW r, NEW u, NEW f, NEW n, LineAt(r, u, f, n),
         read' = r, used' = u, flag' = f, count' = n
  PROVE  InLine'
<1>1. SectionEnd' = SectionEnd
  BY SameSection
<1>2. EndsBy(u)' = EndsBy(u) /\ Crlf(sent)' = Crlf(sent)
  BY DEF EndsBy, Crlf
<1>3. EndsBy(used)' = EndsBy(u)
  BY <1>2 DEF EndsBy
<1> QED
  BY <1>1, <1>2, <1>3 DEF InLine, LineAt

\* Nothing more is to show of a section that does not fit or does not end.
LEMMA NotWhole ==
  ASSUME sent' = sent, ~Whole
  PROVE  InLine' /\ SectionWhole'
<1>1. ~Whole'
  BY SameSection
<1> QED
  BY <1>1 DEF InLine, SectionWhole, Whole

LEMMA StoreSInv ==
  ASSUME SInv, Whole, Store
  PROVE  InLine' /\ SectionWhole'
<1> DEFINE c == sent[read + 1]
           b == Append(buf, c)
<1>1. /\ pc = "line" /\ read < Len(sent) /\ Fits /\ sent' = sent
      /\ read' = read + 1
      /\ IF flag = 1 /\ c = LF
         THEN LineEnds(b)
         ELSE /\ flag' = FlagAfter(c) /\ UNCHANGED <<used, count, pc>>
  BY DEF Store
<1>2. /\ Shape /\ LineAt(read, used, flag, count)
  BY <1>1 DEF SInv, PInv, InLine
<1>3. read = Len(buf) /\ b = SubSeq(sent, 1, read + 1) /\ Len(b) = read + 1
  BY <1>1, StoreAdds DEF SInv
<1>4. used <= read /\ read \in Nat /\ used \in Nat
  BY <1>2, <1>3 DEF Shape
<1>5. flag = 1 /\ c = LF <=> read \in Crlf(sent)
  BY <1>1, <1>2, FlagTells
<1> HIDE DEF c, b
<1>6. CASE ~(flag = 1 /\ c = LF)
  <2>1. LineAt(read + 1, used, FlagAfter(c), count)
    BY <1>1, <1>2, <1>4, <1>5, <1>6, LineGoesOn DEF c
  <2>2. InLine'
    BY <1>1, <1>6, <2>1, SameLine
  <2>3. pc' = "line"
    BY <1>1, <1>6
  <2> QED
    BY <2>2, <2>3 DEF SectionWhole
<1>7. CASE flag = 1 /\ c = LF
  <2>1. /\ buf' = b /\ hi' = Len(b) /\ count' = Ended(Len(b) - used)
        /\ pc' = IF Len(b) - used \in {0, 2} THEN "done" ELSE "line"
        /\ used' = Len(b) /\ flag' = 0
    BY <1>1, <1>7 DEF LineEnds, Terminator
  <2>2. Len(b) - used # 0
    BY <1>3, <1>4
  <2>3. CASE Len(b) - used = 2
    <3>1. pc' = "done" /\ count' = IF count = 0 THEN SizeMax ELSE count - 1
      BY <2>1, <2>2, <2>3 DEF Ended
    <3>2. /\ read + 1 = SectionEnd /\ count # 0
          /\ HeaderLines(SubSeq(sent, 1, read + 1)) = count - 1
      BY <1>2, <1>3, <1>4, <1>5, <1>7, <2>3, SectionEnds
    <3>3. InLine'
      BY <3>1 DEF InLine
    <3>4. SectionEnd' = SectionEnd
      BY <1>1, SameSection
    <3>5. /\ buf' = SubSeq(sent', 1, SectionEnd') /\ read' = SectionEnd'
          /\ hi' = SectionEnd'
      BY <1>1, <1>3, <2>1, <3>2, <3>4
    <3>6. HeaderLines(buf)' = count - 1
      BY <1>3, <2>1, <3>2 DEF HeaderLines, Crlf, Blank
    <3> QED
      BY <3>1, <3>2, <3>3, <3>5, <3>6 DEF SectionWhole
  <2>4. CASE Len(b) - used # 2
    <3>1. /\ pc' = "line" /\ count' = count + 1 /\ used' = read + 1
      BY <1>3, <2>1, <2>2, <2>4 DEF Ended
    <3>2. LineAt(read + 1, read + 1, 0, count + 1)
      BY <1>2, <1>3, <1>4, <1>5, <1>7, <2>4, LineCounted
    <3>3. InLine'
      BY <1>1, <2>1, <3>1, <3>2, SameLine
    <3> QED
      BY <3>1, <3>3 DEF SectionWhole
  <2> QED
    BY <2>3, <2>4
<1> QED
  BY <1>6, <1>7

LEMMA StepSInv == SInv /\ [Next]_vars => SInv'
<1> SUFFICES ASSUME SInv, [Next]_vars PROVE InLine' /\ SectionWhole'
  BY StepPInv DEF SInv
<1>1. CASE UNCHANGED vars
  <2>1. sent' = sent /\ SectionEnd' = SectionEnd /\ Whole' = Whole /\ Complete' = Complete
    BY <1>1, SameSection DEF vars
  <2>2. CASE ~Whole
    BY <2>1, <2>2, NotWhole
  <2>3. CASE Whole /\ pc = "line"
    <3>1. LineAt(read, used, flag, count) /\ pc' = "line"
      BY <1>1, <2>3 DEF SInv, InLine, vars
    <3>2. InLine'
      BY <1>1, <3>1, SameLine DEF vars
    <3> QED
      BY <3>1, <3>2 DEF SectionWhole
  <2>4. CASE Whole /\ pc # "line"
    <3>1. pc' # "line"
      BY <1>1, <2>4 DEF vars
    <3>2. HeaderLines(buf)' = HeaderLines(buf)
      BY <1>1 DEF vars, HeaderLines, Crlf, Blank
    <3> QED
      BY <1>1, <2>1, <3>1, <3>2 DEF vars, SInv, InLine, SectionWhole
  <2> QED
    BY <2>2, <2>3, <2>4
<1>2. CASE Next
  <2>1. sent' = sent /\ pc = "line"
    BY <1>2 DEF Next, Store, Drop, Eof
  <2>2. CASE ~Whole
    BY <2>1, <2>2, NotWhole
  <2>3. CASE Whole
    <3>1. PICK k : IsFirstBlank(k)
      BY <2>3, FirstBlank DEF Whole, SInv, PInv
    <3>2. read < SectionEnd /\ SectionEnd <= Len(sent) /\ SectionEnd <= MaxLen
      BY <2>1, <2>3, <3>1 DEF SInv, InLine, LineAt, IsFirstBlank, Whole
    <3>3. read < Len(sent) /\ Len(buf) < MaxLen
      <4>1. /\ SectionEnd \in Nat /\ read \in Nat /\ Len(sent) \in Nat
            /\ MaxLen \in Nat /\ Len(buf) \in Nat /\ Len(buf) <= read
        BY <3>1, SectionAssumption DEF IsFirstBlank, SInv, PInv, Shape, Follows
      <4> QED
        BY <3>2, <4>1
    <3>4. Store
      BY <1>2, <3>3 DEF Next, Drop, Eof, Fits, SInv, PInv, Shape
    <3> QED
      BY <2>3, <3>4, StoreSInv
  <2> QED
    BY <2>2, <2>3
<1> QED
  BY <1>1, <1>2

LEMMA InitSInv == Init => SInv
<1> SUFFICES ASSUME Init PROVE InLine /\ SectionWhole
  BY InitPInv DEF SInv
<1>0. Shape /\ pc = "line" /\ read = 0 /\ used = 0 /\ flag = 0 /\ count = 0
  BY InitPInv DEF Init, PInv
<1>1. ASSUME Whole PROVE LineAt(0, 0, 0, 0)
  <2>1. PICK k : IsFirstBlank(k)
    BY <1>0, <1>1, FirstBlank DEF Whole
  <2>2. 0 < SectionEnd
    BY <2>1 DEF IsFirstBlank
  <2>3. \A j \in Crlf(sent) : ~(j + 1 <= 0)
    BY <1>0, CrlfPlaces DEF Shape
  <2>4. EndsBy(0) = {}
    BY <2>3 DEF EndsBy
  <2>5. Cardinality(EndsBy(0)) = 0
    BY <2>4, FS_EmptySet
  <2> QED
    BY <2>2, <2>3, <2>5 DEF LineAt
<1> QED
  BY <1>0, <1>1 DEF InLine, SectionWhole

\* A complete section that fits is read exactly and its lines are counted as
\* http_headers will find them, whatever the lines are, CRs and LFs that end no
\* line among them.
THEOREM SectionIsWhole == Spec => []SectionWhole
<1>1. SInv => SectionWhole
  BY DEF SInv
<1> QED
  BY <1>1, InitSInv, StepSInv, PTL DEF Spec
=============================================================================
