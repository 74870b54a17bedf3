--------------------------- MODULE CookiejarProofs ---------------------------
(***************************************************************************)
(* Proofs about Cookiejar, for any header, any size of the jar and any     *)
(* number of cookies.                                                      *)
(***************************************************************************)
EXTENDS Cookiejar, SequenceTheorems, WellFoundedInduction, TLAPS

------------------------------------------------------------------------------
(* the operators that cut a header *)

\* The first place that differs from c is the one with only c before it.
LEMMA SkipLeftIs ==
  ASSUME NEW s \in Seq(Char), NEW c, NEW k \in 1..Len(s), s[k] # c,
         \A i \in 1..k-1 : s[i] = c
  PROVE  SkipLeft(s, c) = SubSeq(s, k, Len(s))
<1> DEFINE I == {i \in 1..Len(s) : s[i] # c}
<1>1. k \in I /\ \A i \in I : k <= i
  OBVIOUS
<1>2. SelectInSeq(s, LAMBDA d : d # c) = IF I # {} THEN Min(I) ELSE 0
  BY DEF SelectInSeq
<1>3. Min(I) = k
  <2>1. \A j \in I : (\A i \in I : j <= i) => j = k
    BY <1>1
  <2> HIDE DEF I
  <2> QED
    BY <1>1, <2>1 DEF Min
<1> HIDE DEF I
<1>4. SelectInSeq(s, LAMBDA d : d # c) = k
  BY <1>1, <1>2, <1>3
<1>5. k # 0
  OBVIOUS
<1> QED
  BY <1>4, <1>5 DEF SkipLeft

LEMMA SkipLeftAll ==
  ASSUME NEW s \in Seq(Char), NEW c, \A i \in 1..Len(s) : s[i] = c
  PROVE  SkipLeft(s, c) = <<>>
<1>1. {i \in 1..Len(s) : s[i] # c} = {}
  OBVIOUS
<1> QED
  BY <1>1 DEF SkipLeft, SelectInSeq

\* A nonempty set of naturals has a least element.
LEMMA LeastNumber ==
  ASSUME NEW S \in SUBSET Nat, S # {}
  PROVE  \E k \in S : \A j \in S : k <= j
<1> DEFINE R == OpToRel(<, Nat)
<1>1. IsWellFoundedOn(R, Nat)
  BY NatLessThanWellFounded
<1>2. \A x, y \in Nat : x < y => <<x, y>> \in R
  BY DEF OpToRel
<1> HIDE DEF R
<1>3. PICK k \in S : \A j \in S : ~ (<<j, k>> \in R)
  BY <1>1, WFMin
<1>4. ASSUME NEW j \in S PROVE k <= j
  <2>1. j \in Nat /\ k \in Nat /\ ~(<<j, k>> \in R)
    BY <1>3
  <2>2. ~(j < k)
    BY <1>2, <2>1
  <2> QED
    BY <2>1, <2>2
<1> QED
  BY <1>4

\* A nonempty set of places has a first one and a last one.
LEMMA MinOfPlaces ==
  ASSUME NEW n \in Nat, NEW I \in SUBSET (1..n), I # {}
  PROVE  Min(I) \in I /\ \A i \in I : Min(I) <= i
<1>1. PICK k \in I : \A i \in I : k <= i
  BY LeastNumber
<1> QED
  BY <1>1 DEF Min

LEMMA MaxOfPlaces ==
  ASSUME NEW n \in Nat, NEW I \in SUBSET (1..n), I # {}
  PROVE  Max(I) \in I /\ \A i \in I : i <= Max(I)
<1> DEFINE J == {n - i : i \in I}
<1>1. J \in SUBSET Nat /\ J # {}
  <2>1. \A i \in I : n - i \in Nat
    OBVIOUS
  <2> QED
    BY <2>1
<1>2. PICK j \in J : \A i \in J : j <= i
  <2> HIDE DEF J
  <2> QED
    BY <1>1, LeastNumber
<1>3. PICK k \in I : j = n - k
  BY <1>2
<1>4. ASSUME NEW i \in I PROVE k >= i
  <2>1. n - i \in J
    OBVIOUS
  <2>2. n - k <= n - i /\ i \in 1..n /\ k \in 1..n
    BY <1>2, <1>3, <2>1
  <2> QED
    BY <2>2
<1> QED
  BY <1>3, <1>4 DEF Max

\* A part of a part is a part.
LEMMA PartOfPart ==
  ASSUME NEW s \in Seq(Char), NEW a \in 1..Len(s)+1, NEW b \in a-1..Len(s),
         NEW c \in 1..b-a+2, NEW d \in c-1..b-a+1
  PROVE  SubSeq(SubSeq(s, a, b), c, d) = SubSeq(s, a + c - 1, a + d - 1)
<1> DEFINE t == SubSeq(s, a, b)
           u == SubSeq(t, c, d)
           w == SubSeq(s, a + c - 1, a + d - 1)
<1>1. t \in Seq(Char) /\ Len(t) = b - a + 1 /\ \A i \in 1..b-a+1 : t[i] = s[a + i - 1]
  OBVIOUS
<1>2. u \in Seq(Char) /\ Len(u) = d - c + 1 /\ \A i \in 1..d-c+1 : u[i] = t[c + i - 1]
  <2> HIDE DEF t
  <2> QED
    BY <1>1
<1>3. w \in Seq(Char) /\ Len(w) = d - c + 1
      /\ \A i \in 1..d-c+1 : w[i] = s[a + c - 1 + i - 1]
  OBVIOUS
<1> HIDE DEF t, u, w
<1>4. \A i \in 1..d-c+1 : u[i] = w[i]
  <2> TAKE i \in 1..d-c+1
  <2>1. c + i - 1 \in 1..b-a+1
    OBVIOUS
  <2>2. t[c + i - 1] = s[a + (c + i - 1) - 1]
    BY <1>1, <2>1
  <2>3. a + (c + i - 1) - 1 = a + c - 1 + i - 1
    OBVIOUS
  <2> QED
    BY <1>2, <1>3, <2>2, <2>3
<1>5. u = w
  BY <1>2, <1>3, <1>4
<1> QED
  BY <1>5 DEF t, u, w

LEMMA CutRightIs ==
  ASSUME NEW s \in Seq(Char), NEW c, NEW k \in 0..Len(s), k = 0 \/ s[k] # c,
         \A i \in k+1..Len(s) : s[i] = c
  PROVE  CutRight(s, c) = SubSeq(s, 1, k)
<1> DEFINE I == {i \in 1..Len(s) : s[i] # c}
<1>1. SelectLastInSeq(s, LAMBDA d : d # c) = IF I # {} THEN Max(I) ELSE 0
  BY DEF SelectLastInSeq
<1>2. I \in SUBSET (1..Len(s)) /\ (\A i \in I : i <= k) /\ (k # 0 => k \in I)
  OBVIOUS
<1> HIDE DEF I
<1>3. CASE I = {}
  BY <1>1, <1>2, <1>3 DEF CutRight
<1>4. CASE I # {}
  <2>1. k \in I
    <3>1. PICK i \in I : TRUE
      BY <1>4
    <3>2. i \in 1..Len(s) /\ i <= k
      BY <1>2, <3>1
    <3> QED
      BY <1>2, <3>2
  <2>2. Max(I) \in I /\ \A i \in I : i <= Max(I)
    <3>1. Len(s) \in Nat
      OBVIOUS
    <3> QED
      BY <1>2, <1>4, <3>1, MaxOfPlaces
  <2>3. Max(I) = k
    <3>1. Max(I) <= k /\ k <= Max(I) /\ Max(I) \in 1..Len(s)
      BY <1>2, <2>1, <2>2
    <3> QED
      BY <3>1
  <2> QED
    BY <1>1, <1>4, <2>3 DEF CutRight
<1> QED
  BY <1>3, <1>4

FirstOf(s, c, k) == k \in 1..Len(s) /\ s[k] = c /\ \A i \in 1..k-1 : s[i] # c

LEMMA BeforeIs ==
  ASSUME NEW s \in Seq(Char), NEW c, NEW k, FirstOf(s, c, k)
  PROVE  /\ Before(s, c) = SubSeq(s, 1, k - 1)
         /\ After(s, c) = SubSeq(s, k + 1, Len(s))
<1> DEFINE I == {i \in 1..Len(s) : s[i] = c}
<1>1. SelectInSeq(s, LAMBDA d : d = c) = IF I # {} THEN Min(I) ELSE 0
  BY DEF SelectInSeq
<1>2. I \in SUBSET (1..Len(s)) /\ k \in I /\ \A i \in I : k <= i
  BY DEF FirstOf
<1> HIDE DEF I
<1>3. Min(I) \in I /\ \A i \in I : Min(I) <= i
  <2>1. Len(s) \in Nat /\ I # {}
    BY <1>2
  <2> QED
    BY <1>2, <2>1, MinOfPlaces
<1>4. Min(I) = k /\ I # {}
  <2>1. Min(I) <= k /\ k <= Min(I) /\ Min(I) \in 1..Len(s)
    BY <1>2, <1>3
  <2> QED
    BY <1>2, <2>1
<1>5. SelectInSeq(s, LAMBDA d : d = c) = k
  BY <1>1, <1>4
<1>6. k # 0
  BY DEF FirstOf
<1> QED
  BY <1>5, <1>6 DEF Before, After

LEMMA BeforeAll ==
  ASSUME NEW s \in Seq(Char), NEW c, \A i \in 1..Len(s) : s[i] # c
  PROVE  Before(s, c) = s
<1>1. {i \in 1..Len(s) : s[i] = c} = {}
  OBVIOUS
<1> QED
  BY <1>1 DEF Before, SelectInSeq

\* No cut makes a text longer.
LEMMA CutsShorten ==
  ASSUME NEW s \in Seq(Char), NEW c
  PROVE  /\ SkipLeft(s, c) \in Seq(Char) /\ Len(SkipLeft(s, c)) <= Len(s)
         /\ CutRight(s, c) \in Seq(Char) /\ Len(CutRight(s, c)) <= Len(s)
         /\ Before(s, c) \in Seq(Char) /\ Len(Before(s, c)) <= Len(s)
<1> DEFINE I == {i \in 1..Len(s) : s[i] # c}
           J == {i \in 1..Len(s) : s[i] = c}
<1>1. SelectInSeq(s, LAMBDA d : d # c) \in 0..Len(s)
  <2>1. SelectInSeq(s, LAMBDA d : d # c) = IF I # {} THEN Min(I) ELSE 0
    BY DEF SelectInSeq
  <2>2. I # {} => Min(I) \in 1..Len(s)
    <3>1. Len(s) \in Nat /\ I \in SUBSET (1..Len(s))
      OBVIOUS
    <3> HIDE DEF I
    <3> QED
      BY <3>1, MinOfPlaces
  <2> QED
    BY <2>1, <2>2
<1>2. SelectLastInSeq(s, LAMBDA d : d # c) \in 0..Len(s)
  <2>1. SelectLastInSeq(s, LAMBDA d : d # c) = IF I # {} THEN Max(I) ELSE 0
    BY DEF SelectLastInSeq
  <2>2. I # {} => Max(I) \in 1..Len(s)
    <3>1. Len(s) \in Nat /\ I \in SUBSET (1..Len(s))
      OBVIOUS
    <3> HIDE DEF I
    <3> QED
      BY <3>1, MaxOfPlaces
  <2> QED
    BY <2>1, <2>2
<1>3. SelectInSeq(s, LAMBDA d : d = c) \in 0..Len(s)
  <2>1. SelectInSeq(s, LAMBDA d : d = c) = IF J # {} THEN Min(J) ELSE 0
    BY DEF SelectInSeq
  <2>2. J # {} => Min(J) \in 1..Len(s)
    <3>1. Len(s) \in Nat /\ J \in SUBSET (1..Len(s))
      OBVIOUS
    <3> HIDE DEF J
    <3> QED
      BY <3>1, MinOfPlaces
  <2> QED
    BY <2>1, <2>2
<1> HIDE DEF I, J
<1>4. ASSUME NEW k \in 0..Len(s)
      PROVE  /\ SubSeq(s, 1, k) \in Seq(Char) /\ Len(SubSeq(s, 1, k)) <= Len(s)
             /\ k > 0 => /\ SubSeq(s, k, Len(s)) \in Seq(Char)
                         /\ Len(SubSeq(s, k, Len(s))) <= Len(s)
                         /\ SubSeq(s, 1, k - 1) \in Seq(Char)
                         /\ Len(SubSeq(s, 1, k - 1)) <= Len(s)
  OBVIOUS
<1>5. SkipLeft(s, c) \in Seq(Char) /\ Len(SkipLeft(s, c)) <= Len(s)
  <2> DEFINE k == SelectInSeq(s, LAMBDA d : d # c)
  <2>1. SkipLeft(s, c) = IF k = 0 THEN <<>> ELSE SubSeq(s, k, Len(s))
    BY DEF SkipLeft
  <2>2. k \in 0..Len(s)
    BY <1>1
  <2> HIDE DEF k
  <2> QED
    BY <1>4, <2>1, <2>2
<1>6. CutRight(s, c) \in Seq(Char) /\ Len(CutRight(s, c)) <= Len(s)
  BY <1>2, <1>4 DEF CutRight
<1>7. Before(s, c) \in Seq(Char) /\ Len(Before(s, c)) <= Len(s)
  <2> DEFINE k == SelectInSeq(s, LAMBDA d : d = c)
  <2>1. Before(s, c) = IF k = 0 THEN s ELSE SubSeq(s, 1, k - 1)
    BY DEF Before
  <2>2. k \in 0..Len(s)
    BY <1>3
  <2> HIDE DEF k
  <2> QED
    BY <1>4, <2>1, <2>2
<1> QED
  BY <1>5, <1>6, <1>7

------------------------------------------------------------------------------
(* what is cut out of a header *)

LEMMA FirstExists ==
  ASSUME NEW h \in Seq(Char), NEW c, \E k \in 1..Len(h) : h[k] = c
  PROVE  \E e \in 1..Len(h) : FirstOf(h, c, e)
<1> DEFINE I == {i \in 1..Len(h) : h[i] = c}
<1>1. I \in SUBSET Nat /\ I # {}
  OBVIOUS
<1>2. PICK e \in I : \A j \in I : e <= j
  <2> HIDE DEF I
  <2> QED
    BY <1>1, LeastNumber
<1>3. e \in 1..Len(h) /\ h[e] = c
  OBVIOUS
<1>4. ASSUME NEW i \in 1..e-1 PROVE h[i] # c
  <2>1. i \in 1..Len(h) /\ ~(e <= i)
    BY <1>3
  <2> QED
    BY <1>2, <2>1
<1> QED
  BY <1>3, <1>4 DEF FirstOf

\* The first character that is not a space, up to the first '='.
LEMMA SkipsTo ==
  ASSUME NEW h \in Seq(Char), NEW e, FirstOf(h, Eq, e)
  PROVE  \E q \in 1..e : h[q] # Sp /\ \A i \in 1..q-1 : h[i] = Sp
<1> DEFINE I == {i \in 1..Len(h) : h[i] # Sp}
<1>1. I \in SUBSET Nat /\ e \in I
  BY CookieAssumption DEF FirstOf
<1>2. PICK q \in I : \A j \in I : q <= j
  <2> HIDE DEF I
  <2> QED
    BY <1>1, LeastNumber
<1>3. q \in 1..Len(h) /\ h[q] # Sp /\ q <= e
  BY <1>1, <1>2
<1>4. ASSUME NEW i \in 1..q-1 PROVE h[i] = Sp
  <2>1. i \in 1..Len(h) /\ ~(q <= i)
    BY <1>3
  <2> QED
    BY <1>2, <2>1
<1>5. e \in Nat
  BY DEF FirstOf
<1> QED
  BY <1>3, <1>4, <1>5

\* Behind the spaces, the name ends at the '=' and the value begins behind it.
LEMMA CutAtEq ==
  ASSUME NEW h \in Seq(Char), NEW e, FirstOf(h, Eq, e),
         NEW q \in 1..e, h[q] # Sp, \A i \in 1..q-1 : h[i] = Sp
  PROVE  /\ SkipLeft(h, Sp) = SubSeq(h, q, Len(h))
         /\ Before(SkipLeft(h, Sp), Eq) = SubSeq(h, q, e - 1)
         /\ After(SkipLeft(h, Sp), Eq) = SubSeq(h, e + 1, Len(h))
<1> DEFINE p == SubSeq(h, q, Len(h))
           k == e - q + 1
<1>0. e \in 1..Len(h) /\ h[e] = Eq /\ (\A i \in 1..e-1 : h[i] # Eq) /\ q \in 1..Len(h)
  BY DEF FirstOf
<1>1. SkipLeft(h, Sp) = p
  BY <1>0, SkipLeftIs
<1>2. p \in Seq(Char) /\ Len(p) = Len(h) - q + 1
      /\ \A i \in 1..Len(h)-q+1 : p[i] = h[q + i - 1]
  BY <1>0
<1>3. k \in 1..Len(p) /\ p[k] = Eq /\ \A i \in 1..k-1 : p[i] # Eq
  <2> HIDE DEF p
  <2>1. k \in 1..Len(p) /\ q + k - 1 = e
    BY <1>0, <1>2
  <2>2. p[k] = Eq
    BY <1>0, <1>2, <2>1
  <2>3. ASSUME NEW i \in 1..k-1 PROVE p[i] # Eq
    <3>1. q + i - 1 \in 1..e-1 /\ i \in 1..Len(h)-q+1
      BY <1>0, <2>1
    <3> QED
      BY <1>0, <1>2, <3>1
  <2> QED
    BY <2>1, <2>2, <2>3
<1>4. Before(p, Eq) = SubSeq(p, 1, k - 1) /\ After(p, Eq) = SubSeq(p, k + 1, Len(p))
  <2> HIDE DEF p, k
  <2>1. FirstOf(p, Eq, k)
    BY <1>3 DEF FirstOf
  <2> QED
    BY <1>2, <2>1, BeforeIs
<1>5. SubSeq(p, 1, k - 1) = SubSeq(h, q, e - 1)
  <2>1. /\ q \in 1..Len(h)+1 /\ Len(h) \in q-1..Len(h) /\ 1 \in 1..Len(h)-q+2
        /\ k - 1 \in 1-1..Len(h)-q+1 /\ q + 1 - 1 = q /\ q + (k - 1) - 1 = e - 1
    BY <1>0
  <2> HIDE DEF k
  <2> QED
    BY <2>1, PartOfPart
<1>6. SubSeq(p, k + 1, Len(p)) = SubSeq(h, e + 1, Len(h))
  <2>1. /\ q \in 1..Len(h)+1 /\ Len(h) \in q-1..Len(h) /\ k + 1 \in 1..Len(h)-q+2
        /\ Len(h) - q + 1 \in (k+1)-1..Len(h)-q+1
        /\ q + (k + 1) - 1 = e + 1 /\ q + (Len(h) - q + 1) - 1 = Len(h)
    BY <1>0
  <2>2. Len(p) = Len(h) - q + 1
    BY <1>2
  <2> HIDE DEF k
  <2>3. SubSeq(SubSeq(h, q, Len(h)), k + 1, Len(h) - q + 1)
          = SubSeq(h, q + (k + 1) - 1, q + (Len(h) - q + 1) - 1)
    BY <2>1, PartOfPart
  <2> QED
    BY <2>1, <2>2, <2>3
<1> QED
  BY <1>1, <1>4, <1>5, <1>6

\* The key and the value are shorter than what they are cut from.
LEMMA CutsFit ==
  ASSUME NEW h \in Seq(Char), HasPair(h)
  PROVE  /\ KeyOf(SkipLeft(h, Sp)) \in Seq(Char)
         /\ ValueOf(SkipLeft(h, Sp)) \in Seq(Char)
         /\ Len(KeyOf(SkipLeft(h, Sp))) < Len(SkipLeft(h, Sp))
         /\ Len(ValueOf(SkipLeft(h, Sp))) < Len(SkipLeft(h, Sp))
<1> DEFINE p == SkipLeft(h, Sp)
           b == Before(p, Eq)
           a == After(p, Eq)
<1>1. \E k \in 1..Len(h) : h[k] = Eq
  BY DEF HasPair
<1>2. PICK e \in 1..Len(h) : FirstOf(h, Eq, e)
  BY <1>1, FirstExists
<1>3. PICK q \in 1..e : h[q] # Sp /\ \A i \in 1..q-1 : h[i] = Sp
  BY <1>2, SkipsTo
<1>4. p = SubSeq(h, q, Len(h)) /\ b = SubSeq(h, q, e - 1) /\ a = SubSeq(h, e + 1, Len(h))
  BY <1>2, <1>3, CutAtEq
<1>5. /\ b \in Seq(Char) /\ Len(b) = e - q
      /\ a \in Seq(Char) /\ Len(a) = Len(h) - e
      /\ Len(p) = Len(h) - q + 1
      /\ Len(b) < Len(p) /\ Len(a) < Len(p)
  <2> HIDE DEF p, b, a
  <2> QED
    BY <1>4
<1>6. /\ KeyOf(p) = CutRight(b, Sp)
      /\ ValueOf(p) = CutRight(Before(SkipLeft(a, Sp), Semi), Eq)
  BY DEF KeyOf, ValueOf
<1> HIDE DEF p, b, a
<1>7. KeyOf(p) \in Seq(Char) /\ Len(KeyOf(p)) <= Len(b)
  BY <1>5, <1>6, CutsShorten
<1>8. ValueOf(p) \in Seq(Char) /\ Len(ValueOf(p)) <= Len(a)
  <2>1. SkipLeft(a, Sp) \in Seq(Char) /\ Len(SkipLeft(a, Sp)) <= Len(a)
    BY <1>5, CutsShorten
  <2>2. /\ Before(SkipLeft(a, Sp), Semi) \in Seq(Char)
        /\ Len(Before(SkipLeft(a, Sp), Semi)) <= Len(SkipLeft(a, Sp))
    BY <2>1, CutsShorten
  <2>3. /\ ValueOf(p) \in Seq(Char)
        /\ Len(ValueOf(p)) <= Len(Before(SkipLeft(a, Sp), Semi))
    BY <1>6, <2>2, CutsShorten
  <2>4. /\ Len(a) \in Nat /\ Len(SkipLeft(a, Sp)) \in Nat
        /\ Len(Before(SkipLeft(a, Sp), Semi)) \in Nat /\ Len(ValueOf(p)) \in Nat
    BY <1>5, <2>1, <2>2, <2>3
  <2> QED
    BY <2>1, <2>2, <2>3, <2>4
<1>9. Len(a) \in Nat /\ Len(b) \in Nat /\ Len(p) \in Nat
      /\ Len(KeyOf(p)) \in Nat /\ Len(ValueOf(p)) \in Nat
  BY <1>5, <1>7, <1>8
<1>10. Len(KeyOf(p)) < Len(p) /\ Len(ValueOf(p)) < Len(p)
  BY <1>5, <1>7, <1>8, <1>9
<1> QED
  BY <1>7, <1>8, <1>10 DEF p

\* The key of Sp* k Sp* =.
LEMMA KeyFound ==
  ASSUME NEW h \in Seq(Char), NEW e, FirstOf(h, Eq, e),
         NEW k2 \in 0..e-1, NEW k1 \in 1..k2+1,
         \A i \in 1..k1-1 : h[i] = Sp, \A i \in k2+1..e-1 : h[i] = Sp,
         k1 <= k2 => h[k1] # Sp /\ h[k2] # Sp
  PROVE  KeyOf(SkipLeft(h, Sp)) = SubSeq(h, k1, k2)
<1>0. e \in 1..Len(h) /\ h[e] = Eq /\ Eq # Sp
  BY CookieAssumption DEF FirstOf
<1>1. CASE k1 <= k2
  <2> DEFINE b == SubSeq(h, k1, e - 1)
             n == k2 - k1 + 1
  <2>1. k1 \in 1..e /\ h[k1] # Sp /\ \A i \in 1..k1-1 : h[i] = Sp
    BY <1>0, <1>1
  <2>2. Before(SkipLeft(h, Sp), Eq) = b
    BY <2>1, CutAtEq
  <2>3. b \in Seq(Char) /\ Len(b) = e - k1
        /\ \A i \in 1..e-k1 : b[i] = h[k1 + i - 1]
    <3>1. k1 \in 1..Len(h) /\ e - 1 \in k1-1..Len(h)
      BY <1>0, <2>1
    <3> QED
      BY <1>0, <3>1
  <2>4. n \in 0..Len(b) /\ b[n] # Sp
    <3> HIDE DEF b
    <3>1. n \in 1..e-k1 /\ k1 + n - 1 = k2
      BY <1>0, <1>1
    <3> QED
      BY <1>1, <2>3, <3>1
  <2>5. ASSUME NEW i \in n+1..Len(b) PROVE b[i] = Sp
    <3> HIDE DEF b
    <3>1. i \in 1..e-k1 /\ k1 + i - 1 \in k2+1..e-1
      BY <1>0, <1>1, <2>3
    <3> QED
      BY <2>3, <3>1
  <2>6. CutRight(b, Sp) = SubSeq(b, 1, n)
    <3> HIDE DEF b, n
    <3> QED
      BY <2>3, <2>4, <2>5, CutRightIs
  <2>7. SubSeq(b, 1, n) = SubSeq(h, k1, k2)
    <3>1. /\ k1 \in 1..Len(h)+1 /\ e - 1 \in k1-1..Len(h)
          /\ 1 \in 1..e-1-k1+2 /\ n \in 1-1..e-1-k1+1
          /\ k1 + 1 - 1 = k1 /\ k1 + n - 1 = k2
      BY <1>0, <1>1, <2>1
    <3> HIDE DEF n
    <3> QED
      BY <3>1, PartOfPart
  <2> QED
    BY <2>2, <2>6, <2>7 DEF KeyOf
<1>2. CASE k1 > k2
  <2>1. ASSUME NEW i \in 1..e-1 PROVE h[i] = Sp
    <3>1. i \in 1..k1-1 \/ i \in k2+1..e-1
      BY <1>0, <1>2
    <3> QED
      BY <3>1
  <2>2. e \in 1..e /\ h[e] # Sp
    BY <1>0
  <2>3. Before(SkipLeft(h, Sp), Eq) = SubSeq(h, e, e - 1)
    BY <2>1, <2>2, CutAtEq
  <2>4. SubSeq(h, e, e - 1) = <<>> /\ SubSeq(h, k1, k2) = <<>>
    BY <1>0, <1>2
  <2>5. KeyOf(SkipLeft(h, Sp)) = CutRight(<<>>, Sp)
    BY <2>3, <2>4 DEF KeyOf
  <2>6. CutRight(<<>>, Sp) \in Seq(Char) /\ Len(CutRight(<<>>, Sp)) <= 0
    <3> DEFINE n == <<>>
    <3>1. n \in Seq(Char) /\ Len(n) = 0
      OBVIOUS
    <3> HIDE DEF n
    <3>2. CutRight(n, Sp) \in Seq(Char) /\ Len(CutRight(n, Sp)) <= Len(n)
      BY <3>1, CutsShorten
    <3> QED
      BY <3>1, <3>2 DEF n
  <2> QED
    BY <2>4, <2>5, <2>6
<1> QED
  BY <1>1, <1>2

\* The value of = Sp* v, up to the end or a ';'.
LEMMA ValueFound ==
  ASSUME NEW h \in Seq(Char), NEW e, FirstOf(h, Eq, e),
         NEW v1 \in e+1..Len(h)+1, NEW v2 \in v1-1..Len(h),
         \A i \in e+1..v1-1 : h[i] = Sp,
         v1 <= v2 => h[v1] # Sp /\ h[v2] # Eq,
         \A i \in v1..v2 : h[i] # Semi,
         v2 < Len(h) => h[v2 + 1] = Semi
  PROVE  ValueOf(SkipLeft(h, Sp)) = SubSeq(h, v1, v2)
<1> DEFINE a == SubSeq(h, e + 1, Len(h))
           r == SubSeq(h, v1, Len(h))
           v == SubSeq(h, v1, v2)
<1>0. e \in 1..Len(h) /\ Eq # Sp /\ Semi # Sp /\ Eq # Semi
  BY CookieAssumption DEF FirstOf
<1>1. After(SkipLeft(h, Sp), Eq) = a
  <2>1. PICK q \in 1..e : h[q] # Sp /\ \A i \in 1..q-1 : h[i] = Sp
    BY SkipsTo
  <2> QED
    BY <2>1, CutAtEq
<1>2. a \in Seq(Char) /\ Len(a) = Len(h) - e
      /\ \A i \in 1..Len(h)-e : a[i] = h[e + i]
  BY <1>0
<1>3. r \in Seq(Char) /\ Len(r) = Len(h) - v1 + 1
      /\ \A i \in 1..Len(h)-v1+1 : r[i] = h[v1 + i - 1]
  BY <1>0
<1>4. v \in Seq(Char) /\ Len(v) = v2 - v1 + 1
      /\ \A i \in 1..v2-v1+1 : v[i] = h[v1 + i - 1]
  BY <1>0
<1>5. SkipLeft(a, Sp) = r
  <2>1. CASE v1 = Len(h) + 1
    <3> HIDE DEF a
    <3>1. ASSUME NEW i \in 1..Len(a) PROVE a[i] = Sp
      <4>1. i \in 1..Len(h)-e /\ e + i \in e+1..v1-1
        BY <1>0, <1>2, <2>1
      <4> QED
        BY <1>2, <4>1
    <3>2. SkipLeft(a, Sp) = <<>>
      BY <1>2, <3>1, SkipLeftAll
    <3>3. r = <<>>
      BY <1>0, <2>1
    <3> QED
      BY <3>2, <3>3
  <2>2. CASE v1 <= Len(h)
    <3> DEFINE k == v1 - e
    <3>1. h[v1] # Sp
      <4>1. CASE v1 <= v2
        BY <4>1
      <4>2. CASE v1 > v2
        <5>1. v2 + 1 = v1 /\ v2 < Len(h)
          BY <1>0, <2>2, <4>2
        <5> QED
          BY <1>0, <5>1
      <4> QED
        BY <1>0, <4>1, <4>2
    <3>2. k \in 1..Len(a) /\ a[k] # Sp
      <4> HIDE DEF a
      <4>1. k \in 1..Len(h)-e /\ e + k = v1
        BY <1>0, <2>2
      <4> QED
        BY <1>2, <3>1, <4>1
    <3>3. ASSUME NEW i \in 1..k-1 PROVE a[i] = Sp
      <4> HIDE DEF a
      <4>1. i \in 1..Len(h)-e /\ e + i \in e+1..v1-1
        BY <1>0, <2>2
      <4> QED
        BY <1>2, <4>1
    <3>4. SkipLeft(a, Sp) = SubSeq(a, k, Len(a))
      <4> HIDE DEF a, k
      <4> QED
        BY <1>2, <3>2, <3>3, SkipLeftIs
    <3>5. SubSeq(a, k, Len(a)) = r
      <4> DEFINE f == e + 1
                 m == Len(h) - e
      <4>1. /\ f \in 1..Len(h)+1 /\ Len(h) \in f-1..Len(h)
            /\ k \in 1..Len(h)-f+2 /\ m \in k-1..Len(h)-f+1
            /\ f + k - 1 = v1 /\ f + m - 1 = Len(h) /\ m = Len(a)
        BY <1>0, <1>2, <2>2
      <4>2. a = SubSeq(h, f, Len(h))
        OBVIOUS
      <4> HIDE DEF k, f, m, a
      <4>3. SubSeq(SubSeq(h, f, Len(h)), k, m) = SubSeq(h, f + k - 1, f + m - 1)
        BY <4>1, PartOfPart
      <4> QED
        BY <4>1, <4>2, <4>3
    <3> QED
      BY <3>4, <3>5
  <2> QED
    BY <1>0, <2>1, <2>2
<1>6. Before(r, Semi) = v
  <2>1. CASE v2 = Len(h)
    <3>1. r = v
      BY <2>1
    <3>2. ASSUME NEW i \in 1..Len(v) PROVE v[i] # Semi
      <4> HIDE DEF v
      <4>1. i \in 1..v2-v1+1 /\ v1 + i - 1 \in v1..v2
        BY <1>0, <1>4
      <4> QED
        BY <1>4, <4>1
    <3> HIDE DEF r, v
    <3> QED
      BY <1>4, <3>1, <3>2, BeforeAll
  <2>2. CASE v2 < Len(h)
    <3> DEFINE k == v2 - v1 + 2
    <3>1. k \in 1..Len(h)-v1+1 /\ v1 + k - 1 = v2 + 1
      BY <1>0, <2>2
    <3>2. FirstOf(r, Semi, k)
      <4> HIDE DEF r, k
      <4>1. k \in 1..Len(r) /\ r[k] = Semi
        BY <1>3, <2>2, <3>1
      <4>2. ASSUME NEW i \in 1..k-1 PROVE r[i] # Semi
        <5>1. i \in 1..Len(h)-v1+1 /\ v1 + i - 1 \in v1..v2
          BY <1>0, <3>1, <2>2 DEF k
        <5> QED
          BY <1>3, <5>1
      <4> QED
        BY <4>1, <4>2 DEF FirstOf
    <3>3. Before(r, Semi) = SubSeq(r, 1, k - 1)
      <4> HIDE DEF r, k
      <4> QED
        BY <1>3, <3>2, BeforeIs
    <3>4. SubSeq(r, 1, k - 1) = v
      <4>1. /\ v1 \in 1..Len(h)+1 /\ Len(h) \in v1-1..Len(h)
            /\ 1 \in 1..Len(h)-v1+2 /\ k - 1 \in 1-1..Len(h)-v1+1
            /\ v1 + 1 - 1 = v1 /\ v1 + (k - 1) - 1 = v2
        BY <1>0, <2>2
      <4> HIDE DEF k
      <4> QED
        BY <4>1, PartOfPart
    <3> QED
      BY <3>3, <3>4
  <2> QED
    BY <1>0, <2>1, <2>2
<1>7. CutRight(v, Eq) = v
  <2>1. Len(v) \in 0..Len(v) /\ SubSeq(v, 1, Len(v)) = v
    BY <1>4
  <2>2. Len(v) = 0 \/ v[Len(v)] # Eq
    <3> HIDE DEF v
    <3>1. CASE v1 <= v2
      <4>1. v2 - v1 + 1 \in 1..v2-v1+1 /\ v1 + (v2 - v1 + 1) - 1 = v2
        BY <1>0, <3>1
      <4> QED
        BY <1>4, <3>1, <4>1
    <3>2. CASE v1 > v2
      BY <1>0, <1>4, <3>2
    <3> QED
      BY <1>0, <3>1, <3>2
  <2>3. \A i \in Len(v)+1..Len(v) : v[i] = Eq
    BY <1>4
  <2> HIDE DEF v
  <2> QED
    BY <1>4, <2>1, <2>2, <2>3, CutRightIs
<1> QED
  <2> HIDE DEF a, r, v
  <2>1. ValueOf(SkipLeft(h, Sp)) = v
    BY <1>1, <1>5, <1>6, <1>7 DEF ValueOf
  <2> QED
    BY <2>1 DEF v

------------------------------------------------------------------------------
(* the jar *)

AtEnsure == pc = "ensure" =>
  /\ line \in Seq(Char) /\ HasPair(line)
  /\ key = KeyOf(SkipLeft(line, Sp)) /\ value = ValueOf(SkipLeft(line, Sp))

\* Room for the pair once it was asked for.
AtAppend == pc = "append" /\ ~short => cap >= Len(text) + AppendLen

CInv == TypeOK /\ AtEnsure /\ AtAppend

LEMMA LinesAreTexts ==
  ASSUME TypeOK, NEW h \in Lines
  PROVE  h \in Seq(Char)
<1>1. PICK n \in 0 .. MaxLine \div (Len(cookies) + 1) : h \in [1..n -> Char]
  BY DEF Lines
<1> QED
  BY <1>1, SeqDef

LEMMA InitCInv == Init => CInv
<1> SUFFICES ASSUME Init PROVE CInv
  OBVIOUS
<1>1. text = <<>> /\ key = <<>> /\ value = <<>> /\ line = <<>> /\ cookies = <<>>
  BY DEF Init
<1>2. Len(text) = 0 /\ text \in Seq(Char) /\ cookies \in Seq(Seq(Char) \X Seq(Char))
  BY <1>1
<1>3. cap \in Nat /\ Len(text) < cap /\ count \in Nat
  BY <1>2, CookieAssumption DEF Init
<1>4. line \in Seq(Char) /\ key \in Seq(Char) /\ value \in Seq(Char)
  BY <1>1
<1>5. pc = "idle" /\ short = FALSE
  BY DEF Init
<1>6. TypeOK
  BY <1>2, <1>3, <1>4, <1>5 DEF TypeOK
<1> QED
  BY <1>5, <1>6 DEF CInv, AtEnsure, AtAppend

\* What is appended: a prefix that fits.
LEMMA AppendFits ==
  ASSUME TypeOK, NEW s \in Seq(Char)
  PROVE  LET n == IF Len(s) < Room THEN Len(s) ELSE Room
         IN  /\ n \in 0..Len(s)
             /\ text \o SubSeq(s, 1, n) \in Seq(Char)
             /\ Len(text \o SubSeq(s, 1, n)) < cap
             /\ Len(s) <= Room => text \o SubSeq(s, 1, n) = text \o s
<1> DEFINE n == IF Len(s) < Room THEN Len(s) ELSE Room
<1>1. Room \in Nat /\ Room = cap - 1 - Len(text) /\ cap \in Nat
      /\ text \in Seq(Char) /\ Len(text) \in Nat /\ Len(s) \in Nat
  BY DEF TypeOK, Room
<1>2. n \in 0..Len(s) /\ n <= Room /\ (Len(s) <= Room => n = Len(s))
  BY <1>1
<1> HIDE DEF n
<1>3. SubSeq(s, 1, n) \in Seq(Char) /\ Len(SubSeq(s, 1, n)) = n
  BY <1>2
<1>4. /\ text \o SubSeq(s, 1, n) \in Seq(Char)
      /\ Len(text \o SubSeq(s, 1, n)) = Len(text) + n
  BY <1>1, <1>3
<1>5. Len(text \o SubSeq(s, 1, n)) < cap
  BY <1>1, <1>2, <1>4
<1>6. Len(s) <= Room => SubSeq(s, 1, n) = s
  BY <1>2
<1> QED
  BY <1>2, <1>4, <1>5, <1>6 DEF n

LEMMA PairIsText ==
  ASSUME TypeOK
  PROVE  /\ Pair \in Seq(Char) /\ Len(Pair) = Len(key) + Len(value) + 1
         /\ Separated(Pair) \in Seq(Char) /\ Len(Separated(Pair)) <= AppendLen - 1
<1>1. /\ key \in Seq(Char) /\ value \in Seq(Char) /\ <<Eq>> \in Seq(Char)
      /\ <<Semi, Sp>> \in Seq(Char) /\ Len(<<Eq>>) = 1 /\ Len(<<Semi, Sp>>) = 2
      /\ Len(key) \in Nat /\ Len(value) \in Nat
  BY DEF TypeOK, Char
<1>2. Pair \in Seq(Char) /\ Len(Pair) = Len(key) + Len(value) + 1
  <2>1. key \o <<Eq>> \in Seq(Char) /\ Len(key \o <<Eq>>) = Len(key) + 1
    BY <1>1
  <2> QED
    BY <1>1, <2>1 DEF Pair
<1>3. <<Semi, Sp>> \o Pair \in Seq(Char) /\ Len(<<Semi, Sp>> \o Pair) = Len(Pair) + 2
  BY <1>1, <1>2
<1>4. Separated(Pair) \in Seq(Char) /\ Len(Separated(Pair)) <= Len(Pair) + 2
  BY <1>1, <1>2, <1>3 DEF Separated
<1> QED
  BY <1>1, <1>2, <1>4 DEF AppendLen

LEMMA StepCInv == CInv /\ [Next]_vars => CInv'
<1> SUFFICES ASSUME CInv, [Next]_vars PROVE CInv'
  OBVIOUS
<1>1. ASSUME NEW h \in Lines, cookiejar_from_header(h) PROVE CInv'
  <2>1. h \in Seq(Char) /\ HasPair(h)
    BY <1>1, LinesAreTexts DEF CInv, cookiejar_from_header
  <2>2. KeyOf(SkipLeft(h, Sp)) \in Seq(Char) /\ ValueOf(SkipLeft(h, Sp)) \in Seq(Char)
    BY <2>1, CutsFit
  <2>3. TypeOK'
    BY <1>1, <2>1, <2>2 DEF CInv, TypeOK, cookiejar_from_header
  <2>4. AtEnsure'
    BY <1>1, <2>1 DEF cookiejar_from_header, AtEnsure
  <2>5. AtAppend'
    BY <1>1 DEF cookiejar_from_header, AtAppend
  <2> QED
    BY <2>3, <2>4, <2>5 DEF CInv
<1>2. CASE Ensure
  <2>1. /\ Len(text) \in Nat /\ Len(key) \in Nat /\ Len(value) \in Nat
        /\ AppendLen \in Nat /\ cap \in Nat
    BY DEF CInv, TypeOK, AppendLen
  <2>2. /\ cap' \in Nat /\ cap' >= cap
        /\ ~short' => ~short /\ cap' >= Len(text) + AppendLen
        /\ short' \in BOOLEAN
    <3> DEFINE size == Len(text) + AppendLen
    <3>1. /\ \/ cap >= size /\ cap' = cap /\ short' = short
             \/ cap < size /\ cap' = size /\ short' = short
             \/ cap < size /\ short' = TRUE /\ cap' = cap
          /\ short \in BOOLEAN
      BY <1>2 DEF Ensure, CInv, TypeOK
    <3>2. size \in Nat
      BY <2>1
    <3> HIDE DEF size
    <3>3. CASE cap >= size /\ cap' = cap /\ short' = short
      BY <2>1, <3>1, <3>3 DEF size
    <3>4. CASE cap < size /\ cap' = size /\ short' = short
      <4>1. size >= cap
        BY <2>1, <3>2, <3>4
      <4> QED
        BY <2>1, <3>1, <3>2, <3>4, <4>1 DEF size
    <3>5. CASE cap < size /\ short' = TRUE /\ cap' = cap
      BY <2>1, <3>5
    <3> QED
      BY <3>1, <3>3, <3>4, <3>5
  <2>3. Len(text) < cap'
    BY <2>1, <2>2 DEF CInv, TypeOK
  <2>4. <<>> \in Seq(Char)
    OBVIOUS
  <2>5. TypeOK'
    BY <1>2, <2>2, <2>3, <2>4 DEF Ensure, CInv, TypeOK
  <2>6. AtEnsure' /\ AtAppend'
    BY <1>2, <2>2 DEF Ensure, AtEnsure, AtAppend, AppendLen
  <2> QED
    BY <2>5, <2>6 DEF CInv
<1>3. CASE AppendPair
  <2>1. Separated(Pair) \in Seq(Char)
    BY PairIsText DEF CInv
  <2>2. text' \in Seq(Char) /\ Len(text') < cap
    BY <1>3, <2>1, AppendFits DEF CInv, AppendPair
  <2>3. cookies' \in Seq(Seq(Char) \X Seq(Char))
    <3>1. <<key, value>> \in Seq(Char) \X Seq(Char)
      BY DEF CInv, TypeOK
    <3> QED
      BY <1>3, <3>1 DEF CInv, TypeOK, AppendPair
  <2>4. TypeOK'
    BY <1>3, <2>2, <2>3 DEF CInv, TypeOK, AppendPair
  <2>5. AtEnsure' /\ AtAppend'
    BY <1>3 DEF AppendPair, AtEnsure, AtAppend
  <2> QED
    BY <2>4, <2>5 DEF CInv
<1>4. CASE UNCHANGED vars
  <2>1. TypeOK'
    BY <1>4 DEF CInv, TypeOK, vars
  <2>2. AtEnsure' /\ AtAppend'
    BY <1>4 DEF CInv, AtEnsure, AtAppend, AppendLen, vars
  <2> QED
    BY <2>1, <2>2 DEF CInv
<1> QED
  BY <1>1, <1>2, <1>3, <1>4 DEF Next, NoPair

LEMMA CookieCInv == Spec => []CInv
<1>1. Init => CInv
  BY InitCInv
<1>2. CInv /\ [Next]_vars => CInv'
  BY StepCInv
<1> QED
  BY <1>1, <1>2, PTL DEF Spec

\* Key and value, each with its '\0', fit in the blocks of cookiejar.c:58, as
\* long as the header without its leading spaces and with nothing to spare.
THEOREM CookieCopiesFit == Spec => []CopiesFit
<1>1. CInv => CopiesFit
  <2> SUFFICES ASSUME CInv, pc = "ensure"
               PROVE  /\ Len(key) < BlockSize(SkipLeft(line, Sp))
                      /\ Len(value) < BlockSize(SkipLeft(line, Sp))
    BY DEF CopiesFit
  <2>1. /\ line \in Seq(Char) /\ HasPair(line)
        /\ key = KeyOf(SkipLeft(line, Sp)) /\ value = ValueOf(SkipLeft(line, Sp))
    BY DEF CInv, AtEnsure
  <2> QED
    BY <2>1, CutsFit DEF BlockSize
<1> QED
  BY <1>1, CookieCInv, PTL

\* cookiejar_from_header finds the cookie of every header of the right form,
\* whatever spaces stand around its key and before its value, either may be
\* empty, as long as the value does not end with a '='.
THEOREM CookieParsed == Spec => []ParsesCookie
<1>1. CInv => ParsesCookie
  <2> SUFFICES ASSUME CInv, pc = "ensure", NEW e \in FirstEq,
                      NEW k2 \in 0 .. e - 1, NEW v1 \in e + 1 .. Len(line) + 1,
                      NEW k1 \in 1 .. k2 + 1, NEW v2 \in v1 - 1 .. Len(line),
                      Splits(k1, k2, e, v1, v2), v1 <= v2 => line[v2] # Eq
               PROVE  key = Part(k1, k2) /\ value = Part(v1, v2)
    BY DEF ParsesCookie
  <2>1. /\ line \in Seq(Char)
        /\ key = KeyOf(SkipLeft(line, Sp)) /\ value = ValueOf(SkipLeft(line, Sp))
    BY DEF CInv, AtEnsure
  <2>2. FirstOf(line, Eq, e) /\ e \in 1..Len(line)
    BY <2>1 DEF FirstEq, FirstOf
  <2>3. ASSUME NEW a \in 1..Len(line)+1, NEW b \in a-1..Len(line)
        PROVE  /\ Part(a, b) \in Seq(Char) /\ Len(Part(a, b)) = b - a + 1
               /\ \A i \in a..b : Part(a, b)[i - a + 1] = line[i]
    BY <2>1 DEF Part
  <2>4. ASSUME NEW a \in 1..Len(line)+1, NEW b \in a-1..Len(line), Blanks(Part(a, b))
        PROVE  \A i \in a..b : line[i] = Sp
    <3> TAKE i \in a..b
    <3>1. i - a + 1 \in DOMAIN Part(a, b) /\ Part(a, b)[i - a + 1] = line[i]
      BY <2>3
    <3> QED
      BY <2>4, <3>1 DEF Blanks
  <2>5. ASSUME NEW a \in 1..Len(line)+1, NEW b \in a-1..Len(line),
               Trimmed(Part(a, b)), a <= b
        PROVE  line[a] # Sp /\ line[b] # Sp
    <3>1. Part(a, b) # <<>> /\ a \in a..b /\ b \in a..b /\ a - a + 1 = 1
      BY <2>3, <2>5
    <3>2. Part(a, b)[1] = line[a] /\ Part(a, b)[Len(Part(a, b))] = line[b]
      BY <2>3, <3>1
    <3> QED
      BY <2>5, <3>1, <3>2 DEF Trimmed
  <2>6. key = Part(k1, k2)
    <3>1. /\ \A i \in 1..k1-1 : line[i] = Sp
          /\ \A i \in k2+1..e-1 : line[i] = Sp
          /\ k1 <= k2 => line[k1] # Sp /\ line[k2] # Sp
      <4>1. /\ 1 \in 1..Len(line)+1 /\ k1 - 1 \in 1-1..Len(line)
            /\ k2 + 1 \in 1..Len(line)+1 /\ e - 1 \in (k2+1)-1..Len(line)
            /\ k1 \in 1..Len(line)+1 /\ k2 \in k1-1..Len(line)
        BY <2>1, <2>2
      <4>2. Blanks(Part(1, k1 - 1)) /\ Blanks(Part(k2 + 1, e - 1)) /\ Trimmed(Part(k1, k2))
        BY DEF Splits
      <4> QED
        BY <2>4, <2>5, <4>1, <4>2
    <3> QED
      BY <2>1, <2>2, <3>1, KeyFound DEF Part
  <2>7. value = Part(v1, v2)
    <3>1. /\ \A i \in e+1..v1-1 : line[i] = Sp
          /\ v1 <= v2 => line[v1] # Sp
      <4>1. /\ e + 1 \in 1..Len(line)+1 /\ v1 - 1 \in (e+1)-1..Len(line)
            /\ v1 \in 1..Len(line)+1 /\ v2 \in v1-1..Len(line)
        BY <2>1, <2>2
      <4>2. Blanks(Part(e + 1, v1 - 1)) /\ Trimmed(Part(v1, v2))
        BY DEF Splits
      <4> QED
        BY <2>4, <2>5, <4>1, <4>2
    <3>2. (\A i \in v1..v2 : line[i] # Semi) /\ (v2 < Len(line) => line[v2 + 1] = Semi)
      BY DEF Splits
    <3> QED
      BY <2>1, <2>2, <3>1, <3>2, ValueFound DEF Part
  <2> QED
    BY <2>6, <2>7
<1> QED
  BY <1>1, CookieCInv, PTL

------------------------------------------------------------------------------
(* the header of a sequence of cookies *)

NextJoined(cs, p, k) ==
  IF k = 0 THEN <<>>
  ELSE (IF k = 1 THEN <<>> ELSE p \o <<Semi, Sp>>) \o cs[k][1] \o <<Eq>> \o cs[k][2]

Joins(cs, n, f) == f = [k \in 0..n |-> NextJoined(cs, f[k - 1], k)]

LEMMA JoinExists == \A cs : \A n \in Nat : \E f : Joins(cs, n, f)
<1> SUFFICES ASSUME NEW cs PROVE \A n \in Nat : \E f : Joins(cs, n, f)
  OBVIOUS
<1> DEFINE Bad == {n \in Nat : ~ \E f : Joins(cs, n, f)}
<1>1. \E f : Joins(cs, 0, f)
  <2>1. Joins(cs, 0, [k \in 0..0 |-> <<>>])
    BY DEF Joins, NextJoined
  <2> QED
    BY <2>1
<1>2. ASSUME NEW n \in Nat, NEW f, Joins(cs, n, f)
      PROVE  \E g : Joins(cs, n + 1, g)
  <2> DEFINE g == [k \in 0..n+1 |-> IF k <= n THEN f[k]
                                     ELSE NextJoined(cs, f[n], n + 1)]
  <2>1. ASSUME NEW k \in 0..n+1 PROVE g[k] = NextJoined(cs, g[k - 1], k)
    <3>1. CASE k = 0
      <4>1. g[k] = f[0] /\ f[0] = <<>>
        BY <1>2, <3>1 DEF Joins, NextJoined
      <4> QED
        BY <3>1, <4>1 DEF NextJoined
    <3>2. CASE k \in 1..n
      <4>1. g[k] = f[k] /\ g[k - 1] = f[k - 1] /\ k \in 0..n
        BY <3>2
      <4>2. f[k] = NextJoined(cs, f[k - 1], k)
        BY <1>2, <4>1 DEF Joins
      <4> QED
        BY <4>1, <4>2
    <3>3. CASE k = n + 1
      <4>1. ~(k <= n) /\ k - 1 = n /\ n \in 0..n+1 /\ n <= n
        BY <3>3
      <4>2. g[k - 1] = f[n] /\ g[k] = NextJoined(cs, f[n], n + 1)
        BY <4>1
      <4> QED
        BY <3>3, <4>2
    <3>4. k = 0 \/ k \in 1..n \/ k = n + 1
      OBVIOUS
    <3> QED
      BY <3>1, <3>2, <3>3, <3>4
  <2>2. g = [k \in 0..n+1 |-> g[k]]
    OBVIOUS
  <2> HIDE DEF g
  <2>3. Joins(cs, n + 1, g)
    BY <2>1, <2>2 DEF Joins
  <2> QED
    BY <2>3
<1>3. Bad = {}
  <2> SUFFICES ASSUME Bad # {} PROVE FALSE
    OBVIOUS
  <2>1. Bad \in SUBSET Nat
    OBVIOUS
  <2>2. PICK n \in Bad : \A m \in Bad : n <= m
    <3> HIDE DEF Bad
    <3> QED
      BY <2>1, LeastNumber
  <2>3. n \in Nat /\ ~ \E f : Joins(cs, n, f)
    OBVIOUS
  <2>4. n # 0
    BY <1>1, <2>3
  <2>5. n - 1 \in Nat /\ ~(n <= n - 1) /\ (n - 1) + 1 = n
    BY <2>3, <2>4
  <2>6. PICK f : Joins(cs, n - 1, f)
    BY <2>2, <2>5
  <2>7. \E g : Joins(cs, (n - 1) + 1, g)
    BY <1>2, <2>5, <2>6
  <2> QED
    BY <2>3, <2>5, <2>7
<1> QED
  BY <1>3

SameUpTo(cs, ds, n) == \A k \in 1..n : cs[k] = ds[k]

\* Cookies that agree up to n are joined to the same text up to n.
LEMMA JoinAgrees ==
  ASSUME NEW cs, NEW ds, NEW n \in Nat, NEW m \in Nat, n <= m,
         NEW f, Joins(cs, n, f), NEW g, Joins(ds, m, g),
         SameUpTo(cs, ds, n)
  PROVE  f[n] = g[n]
<1> DEFINE Bad == {k \in 0..n : f[k] # g[k]}
<1>1. \A k \in 0..n : f[k] = NextJoined(cs, f[k - 1], k)
  BY DEF Joins
<1>2. \A k \in 0..n : g[k] = NextJoined(ds, g[k - 1], k)
  <2> TAKE k \in 0..n
  <2>1. k \in 0..m
    OBVIOUS
  <2> QED
    BY <2>1 DEF Joins
<1>3. Bad = {}
  <2> SUFFICES ASSUME Bad # {} PROVE FALSE
    OBVIOUS
  <2>1. Bad \in SUBSET Nat
    OBVIOUS
  <2>2. PICK k \in Bad : \A j \in Bad : k <= j
    <3> HIDE DEF Bad
    <3> QED
      BY <2>1, LeastNumber
  <2>3. k \in 0..n /\ f[k] # g[k]
    OBVIOUS
  <2>4. k # 0
    BY <1>1, <1>2, <2>3 DEF NextJoined
  <2>5. k - 1 \in 0..n /\ ~(k <= k - 1) /\ k \in 1..n
    BY <2>3, <2>4
  <2>6. f[k - 1] = g[k - 1]
    BY <2>2, <2>5
  <2>7. cs[k] = ds[k]
    BY <2>5 DEF SameUpTo
  <2>8. NextJoined(cs, f[k - 1], k) = NextJoined(ds, g[k - 1], k)
    BY <2>6, <2>7 DEF NextJoined
  <2> QED
    BY <1>1, <1>2, <2>3, <2>8
<1> QED
  BY <1>3

Pairs == Seq(Seq(Char) \X Seq(Char))

LEMMA JoinedIs ==
  ASSUME NEW cs \in Pairs
  PROVE  \E f : Joins(cs, Len(cs), f) /\ Joined(cs) = f[Len(cs)]
<1> DEFINE f == CHOOSE f : Joins(cs, Len(cs), f)
<1>1. Len(cs) \in Nat
  BY DEF Pairs
<1>2. \E g : Joins(cs, Len(cs), g)
  BY <1>1, JoinExists
<1>3. Joins(cs, Len(cs), f)
  BY <1>2
<1>4. Joined(cs) = f[Len(cs)]
  BY DEF Joined, Joins, NextJoined
<1> QED
  BY <1>3, <1>4

LEMMA JoinedOne ==
  ASSUME NEW cs \in Pairs, NEW c \in Seq(Char) \X Seq(Char)
  PROVE  Joined(Append(cs, c)) =
           (IF Len(cs) = 0 THEN <<>> ELSE Joined(cs) \o <<Semi, Sp>>)
             \o c[1] \o <<Eq>> \o c[2]
<1> DEFINE ds == Append(cs, c)
           n == Len(cs)
<1>1. /\ ds \in Pairs /\ n \in Nat /\ Len(ds) = n + 1 /\ ds[n + 1] = c
      /\ SameUpTo(cs, ds, n)
  BY DEF Pairs, SameUpTo
<1> HIDE DEF ds
<1>2. PICK f : Joins(cs, n, f) /\ Joined(cs) = f[n]
  BY JoinedIs
<1>3. PICK g : Joins(ds, n + 1, g) /\ Joined(ds) = g[n + 1]
  BY <1>1, JoinedIs
<1> HIDE DEF n
<1>4. f[n] = g[n]
  <2>1. n + 1 \in Nat /\ n <= n + 1
    BY <1>1
  <2> QED
    BY <1>1, <1>2, <1>3, <2>1, JoinAgrees
<1>5. g[n + 1] = NextJoined(ds, g[n], n + 1)
  <2>1. n + 1 \in 0..n+1 /\ (n + 1) - 1 = n
    BY <1>1
  <2> QED
    BY <1>3, <2>1 DEF Joins
<1>6. n + 1 # 0 /\ (n + 1 = 1 <=> n = 0)
  BY <1>1
<1>7. Joined(ds) = (IF n = 0 THEN <<>> ELSE Joined(cs) \o <<Semi, Sp>>)
                      \o c[1] \o <<Eq>> \o c[2]
  BY <1>1, <1>2, <1>3, <1>4, <1>5, <1>6 DEF NextJoined
<1> QED
  BY <1>7 DEF ds, n

LEMMA JoinedNone == Joined(<<>>) = <<>>
<1> DEFINE cs == <<>>
<1>1. cs \in Pairs /\ Len(cs) = 0
  BY DEF Pairs
<1> HIDE DEF cs
<1>2. PICK f : Joins(cs, 0, f) /\ Joined(cs) = f[0]
  BY <1>1, JoinedIs
<1>3. f[0] = <<>>
  BY <1>2 DEF Joins, NextJoined
<1> QED
  BY <1>2, <1>3 DEF cs

LEMMA TextsAssociate ==
  \A s, t, u \in Seq(Char) : (s \o t) \o u = s \o (t \o u)
  BY ConcatAssociative

------------------------------------------------------------------------------

\* While memory lasts the text is the cookies joined, and the count is theirs.
JInv == count = Len(cookies) /\ (~short => text = Joined(cookies))

LEMMA StepJInv == CInv /\ JInv /\ [Next]_vars => JInv'
<1> SUFFICES ASSUME CInv, JInv, [Next]_vars PROVE JInv'
  OBVIOUS
<1>1. CASE AppendPair
  <2> DEFINE c == <<key, value>>
             sep == <<Semi, Sp>>
  <2>0. /\ key \in Seq(Char) /\ value \in Seq(Char) /\ text \in Seq(Char)
        /\ cookies \in Pairs /\ c \in Seq(Char) \X Seq(Char)
        /\ sep \in Seq(Char) /\ <<Eq>> \in Seq(Char)
        /\ c[1] = key /\ c[2] = value /\ Len(cookies) \in Nat
    BY DEF CInv, TypeOK, Pairs, Char
  <2>1. cookies' = Append(cookies, c) /\ count' = count + 1 /\ short' = short
    BY <1>1 DEF AppendPair
  <2>2. count' = Len(cookies')
    <3>1. Len(Append(cookies, c)) = Len(cookies) + 1
      BY <2>0 DEF Pairs
    <3> QED
      BY <2>1, <3>1 DEF JInv
  <2>3. ASSUME ~short PROVE text' = Joined(cookies')
    <3>1. /\ Separated(Pair) \in Seq(Char) /\ Pair \in Seq(Char)
          /\ Len(Separated(Pair)) <= AppendLen - 1
      BY PairIsText DEF CInv
    <3>2. Len(Separated(Pair)) <= Room
      <4>1. /\ cap >= Len(text) + AppendLen /\ cap \in Nat /\ Len(text) \in Nat
            /\ AppendLen \in Nat /\ Len(Separated(Pair)) \in Nat
        BY <1>1, <2>0, <2>3, <3>1 DEF CInv, AtAppend, TypeOK, AppendLen, AppendPair
      <4> QED
        BY <3>1, <4>1 DEF Room
    <3>3. text' = text \o Separated(Pair)
      BY <1>1, <3>1, <3>2, AppendFits DEF CInv, AppendPair
    <3>4. text = Joined(cookies) /\ count = Len(cookies)
      BY <2>3 DEF JInv
    <3>5. Joined(cookies') =
            (IF count = 0 THEN <<>> ELSE text \o sep) \o key \o <<Eq>> \o value
      BY <2>0, <2>1, <3>4, JoinedOne
    <3> HIDE DEF c, sep
    <3>6. CASE count = 0
      <4>1. cookies = <<>>
        <5>1. Len(cookies) = 0
          BY <3>4, <3>6
        <5> QED
          BY <2>0, <5>1 DEF Pairs
      <4>2. text = <<>>
        BY <3>4, <4>1, JoinedNone
      <4>3. Separated(Pair) = Pair
        BY <3>6 DEF Separated
      <4>4. <<>> \o Pair = Pair /\ <<>> \o key = key
        BY <2>0, <3>1
      <4>5. text' = Pair /\ Joined(cookies') = key \o <<Eq>> \o value
        BY <3>3, <3>5, <3>6, <4>2, <4>3, <4>4
      <4> QED
        BY <4>5 DEF Pair
    <3>7. CASE count # 0
      <4>1. Separated(Pair) = sep \o Pair
        BY <2>0, <3>4, <3>7 DEF Separated, sep
      <4>2. /\ text \in Seq(Char) /\ sep \in Seq(Char) /\ Pair \in Seq(Char)
            /\ key \in Seq(Char) /\ value \in Seq(Char) /\ <<Eq>> \in Seq(Char)
            /\ key \o <<Eq>> \in Seq(Char) /\ text \o sep \in Seq(Char)
        BY <2>0, <3>1
      <4>3. text \o (sep \o Pair) = (text \o sep) \o Pair
        <5>1. text \in Seq(Char) /\ sep \in Seq(Char) /\ Pair \in Seq(Char)
          BY <4>2
        <5> QED
          BY <5>1, TextsAssociate, Zenon
      <4>4. (text \o sep) \o ((key \o <<Eq>>) \o value)
              = ((text \o sep) \o (key \o <<Eq>>)) \o value
        <5>1. text \o sep \in Seq(Char) /\ key \o <<Eq>> \in Seq(Char) /\ value \in Seq(Char)
          BY <4>2
        <5> QED
          BY <5>1, TextsAssociate, Zenon
      <4>5. (text \o sep) \o (key \o <<Eq>>) = ((text \o sep) \o key) \o <<Eq>>
        <5>1. text \o sep \in Seq(Char) /\ key \in Seq(Char) /\ <<Eq>> \in Seq(Char)
          BY <4>2
        <5> QED
          BY <5>1, TextsAssociate, Zenon
      <4>6. Pair = (key \o <<Eq>>) \o value
        BY DEF Pair
      <4> QED
        BY <3>3, <3>5, <3>7, <4>1, <4>3, <4>4, <4>5, <4>6
    <3> QED
      BY <3>6, <3>7
  <2> QED
    BY <2>1, <2>2, <2>3 DEF JInv
<1>2. CASE Ensure
  <2>1. text' = text /\ cookies' = cookies /\ count' = count /\ (~short' => ~short)
    BY <1>2 DEF Ensure
  <2> QED
    BY <2>1 DEF JInv
<1>3. ASSUME UNCHANGED <<text, count, cookies, short>> PROVE JInv'
  BY <1>3 DEF JInv
<1> QED
  BY <1>1, <1>2, <1>3 DEF Next, NoPair, cookiejar_from_header, vars

\* While memory lasts, the Cookie header sent is every cookie set, in order and
\* whole: the room cookiejar_add asks for is enough for the pair, its separator
\* and the '\0'.
THEOREM CookieJarWhole == Spec => []JarWhole
<1>1. Init => JInv
  BY JoinedNone DEF Init, JInv
<1>2. CInv /\ JInv /\ [Next]_vars => JInv'
  BY StepJInv
<1>3. JInv => JarWhole
  BY DEF JInv, JarWhole
<1> QED
  BY <1>1, <1>2, <1>3, CookieCInv, PTL DEF Spec
=============================================================================
