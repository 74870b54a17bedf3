--------------------------- MODULE CommandsProofs ---------------------------
(***************************************************************************)
(* Proofs about Request, Account and Page, as Commands composes them: for  *)
(* any lengths of the texts sent and any page shown.                       *)
(***************************************************************************)
EXTENDS Commands, FiniteSetTheorems, TLAPS

------------------------------------------------------------------------------
(* Request: the invariant says how much of the buffer may be in use before *)
(* each part is appended.                                                  *)

Lengths ==
  /\ path \in Nat /\ domain \in Nat /\ cookie \in Nat /\ data \in Nat
  /\ form \in {"GET", "POST"} /\ port \in 0..5
  /\ pc \in {"size", "line", "cookie", "type", "length", "host", "end",
             "data", "done"}
  /\ req_len \in Nat /\ used \in Nat

Cookies == IF cookie > 0 THEN cookie + 10 ELSE 0
Form(n) == IF form = "POST" THEN n ELSE 0

\* What has been appended, at most, when the part pc is next.
Budget ==
  CASE pc = "size" -> 0
    [] pc = "line" -> 0
    [] pc = "cookie" -> path + 15 + Form(1)
    [] pc = "type" -> path + 15 + Cookies + Form(1)
    [] pc = "length" -> path + 15 + Cookies + Form(50)
    [] pc = "host" -> path + 15 + Cookies + Form(77)
    [] pc = "end" -> path + domain + 29 + Cookies + Form(77)
    [] pc = "data" -> path + domain + 31 + Cookies + Form(77)
    [] OTHER -> path + domain + 31 + Cookies + Form(data + 81)

RInv == /\ Lengths /\ RequestWhole
        /\ pc # "size" => req_len = path + domain + 33 + Cookies + Form(data + 80)
        /\ used <= Budget

\* A number below 10^9 has one to nine digits.
LEMMA DigitsBound ==
  ASSUME NEW n \in Nat
  PROVE  DigitsOf(n) \in 1..9
<1> DEFINE D == {j \in 1..8 : n >= 10^j}
<1>1. IsFiniteSet(1..8) /\ Cardinality(1..8) = 8
  <2>1. 1 \in Int /\ 8 \in Int
    OBVIOUS
  <2>2. IsFiniteSet(1..8) /\ Cardinality(1..8) = IF 1 > 8 THEN 0 ELSE 8 - 1 + 1
    BY <2>1, FS_Interval, Zenon
  <2> QED
    BY <2>2
<1>2. D \subseteq 1..8
  OBVIOUS
<1>3. Cardinality(D) \in Nat /\ Cardinality(D) <= 8
  BY <1>1, <1>2, FS_Subset, FS_CardinalityType
<1> QED
  BY <1>3 DEF DigitsOf

\* An append that fits puts all of its characters.
LEMMA PutWhole ==
  ASSUME NEW n \in Nat, req_len \in Nat, used \in Nat, cut = 0,
         used + n < req_len, Put(n)
  PROVE  used' = used + n /\ cut' = 0
  BY DEF Put

LEMMA InitRInv == Init => RInv
  BY RequestAssumption DEF Init, RInv, Lengths, RequestWhole, Budget

\* A part that fits is appended whole.
LEMMA PartStep ==
  ASSUME RInv, NEW here, NEW next, NEW n \in Nat, used + n < req_len,
         AppendPart(here, n, next)
  PROVE  /\ used' = used + n /\ cut' = 0
         /\ pc = here /\ pc' = next /\ UNCHANGED <<inputs, req_len>>
<1>1. Put(n) /\ pc = here /\ pc' = next /\ UNCHANGED <<inputs, req_len>>
  BY DEF AppendPart
<1>2. used' = used + n /\ cut' = 0
  BY <1>1, PutWhole DEF RInv, Lengths, RequestWhole
<1> QED
  BY <1>1, <1>2

LEMMA StepRInv == RInv /\ [Next]_vars => RInv'
<1> SUFFICES ASSUME RInv, [Next]_vars PROVE RInv'
  OBVIOUS
<1>0. /\ path \in Nat /\ domain \in Nat /\ cookie \in Nat /\ data \in Nat
      /\ port \in 0..5 /\ DigitsOf(data) \in 1..9
      /\ used \in Nat /\ req_len \in Nat
  BY DigitsBound DEF RInv, Lengths
<1> USE <1>0 DEF RInv, Lengths, RequestWhole, Budget, Cookies, Form, inputs
<1>1. CASE Size
  BY <1>1 DEF Size, Base, HasCookies
<1>2. CASE Line
  <2>1. PICK n \in Nat : n = path + 15 + Form(1) /\ AppendPart("line", n, "cookie")
    BY <1>2 DEF Line
  <2>2. pc = "line" /\ used + n < req_len
    BY <2>1 DEF AppendPart
  <2>3. /\ used' = used + n /\ cut' = 0 /\ pc' = "cookie"
        /\ UNCHANGED <<inputs, req_len>>
    BY <2>1, <2>2, PartStep
  <2> QED
    BY <2>1, <2>2, <2>3
<1>3. CASE CookieLine
  <2>1. CASE cookie > 0 /\ AppendPart("cookie", cookie + 10, "type")
    <3>1. pc = "cookie" /\ cookie + 10 \in Nat /\ used + (cookie + 10) < req_len
      BY <2>1 DEF AppendPart
    <3>2. /\ used' = used + (cookie + 10) /\ cut' = 0 /\ pc' = "type"
          /\ UNCHANGED <<inputs, req_len>>
      BY <2>1, <3>1, PartStep
    <3> QED
      BY <2>1, <3>1, <3>2
  <2> QED
    BY <1>3, <2>1 DEF CookieLine, HasCookies, Skip
<1>4. CASE FormType
  <2>1. CASE form = "POST" /\ AppendPart("type", 49, "length")
    <3>1. pc = "type" /\ 49 \in Nat /\ used + (49) < req_len
      BY <2>1 DEF AppendPart
    <3>2. /\ used' = used + (49) /\ cut' = 0 /\ pc' = "length"
          /\ UNCHANGED <<inputs, req_len>>
      BY <2>1, <3>1, PartStep
    <3> QED
      BY <2>1, <3>1, <3>2
  <2> QED
    BY <1>4, <2>1 DEF FormType, Skip
<1>5. CASE FormLength
  <2>1. CASE form = "POST" /\ AppendPart("length", 18 + DigitsOf(data), "host")
    <3>1. pc = "length" /\ 18 + DigitsOf(data) \in Nat /\ used + (18 + DigitsOf(data)) < req_len
      BY <2>1 DEF AppendPart
    <3>2. /\ used' = used + (18 + DigitsOf(data)) /\ cut' = 0 /\ pc' = "host"
          /\ UNCHANGED <<inputs, req_len>>
      BY <2>1, <3>1, PartStep
    <3> QED
      BY <2>1, <3>1, <3>2
  <2> QED
    BY <1>5, <2>1 DEF FormLength, Skip
<1>6. CASE Host
  <2>1. PICK n \in Nat : n = domain + (IF port > 0 THEN 9 + port ELSE 8) /\ AppendPart("host", n, "end")
    BY <1>6 DEF Host
  <2>2. pc = "host" /\ used + n < req_len
    BY <2>1 DEF AppendPart
  <2>3. /\ used' = used + n /\ cut' = 0 /\ pc' = "end"
        /\ UNCHANGED <<inputs, req_len>>
    BY <2>1, <2>2, PartStep
  <2> QED
    BY <2>1, <2>2, <2>3
<1>7. CASE End
  <2>1. PICK n \in Nat : n = 2 /\ AppendPart("end", n, "data")
    BY <1>7 DEF End
  <2>2. pc = "end" /\ used + n < req_len
    BY <2>1 DEF AppendPart
  <2>3. /\ used' = used + n /\ cut' = 0 /\ pc' = "data"
        /\ UNCHANGED <<inputs, req_len>>
    BY <2>1, <2>2, PartStep
  <2> QED
    BY <2>1, <2>2, <2>3
<1>8. CASE Data
  <2>1. CASE form = "POST" /\ AppendPart("data", data + 4, "done")
    <3>1. pc = "data" /\ data + 4 \in Nat /\ used + (data + 4) < req_len
      BY <2>1 DEF AppendPart
    <3>2. /\ used' = used + (data + 4) /\ cut' = 0 /\ pc' = "done"
          /\ UNCHANGED <<inputs, req_len>>
      BY <2>1, <3>1, PartStep
    <3> QED
      BY <2>1, <3>1, <3>2
  <2> QED
    BY <1>8, <2>1 DEF Data, Skip
<1>9. CASE UNCHANGED vars
  BY <1>9 DEF vars
<1> QED
  BY <1>1, <1>2, <1>3, <1>4, <1>5, <1>6, <1>7, <1>8, <1>9 DEF Next

\* No part of a request is cut, whatever the lengths of path, domain, cookies
\* and data, and whatever the port.
THEOREM RequestIsWhole == Spec => []RequestWhole
<1>1. RInv => RequestWhole
  BY DEF RInv
<1> QED
  BY <1>1, InitRInv, StepRInv, PTL DEF Spec

------------------------------------------------------------------------------
(* Account *)

AccountType ==
  /\ at \in {"none", "ipv6", "env", "encode", "path", "form", "post", "send",
            "failed"}
  /\ file \in [Name -> Nat] /\ account \in [Name -> Nat]
  /\ remain \in Nat /\ encoded \in Nat /\ colons \in Nat /\ code \in Nat
  /\ usev6 \in BOOLEAN /\ wild \in BOOLEAN

\* Nothing of a request is made before it is sent.
NotYet == at \notin {"send", "failed", "none"} => pc = "size" /\ used = 0

\* The address comes first, and only a login has one.
AtFirst == /\ at = "ipv6" => cmd = "login" /\ encoded = 0
           /\ cmd = "devices" /\ at = "env" => ~wild

\* A value is cut once, whatever lines it comes from.
AccountIsCut == ~wild => \A v \in Name : account[v] = Cut(file[v], InfoVarLen)

\* A colon makes the address longer by two.
EncodedSoFar == ~wild => /\ encoded + remain <= InfoVarLen - 1 + 2 * colons
                         /\ colons <= MaxColons

\* The check code is in its array.
CodeFits == ~wild => code <= CodeSize - 1

AInv == /\ RInv /\ AccountType /\ NotYet /\ AtFirst
        /\ AccountIsCut /\ EncodedSoFar /\ CodeFits
        /\ ~wild => text = whole

LEMMA CutBounds ==
  ASSUME NEW n \in Nat, NEW cap \in Nat \ {0}
  PROVE  /\ Cut(n, cap) \in Nat /\ Cut(n, cap) <= cap - 1
         /\ n < cap => Cut(n, cap) = n
  BY DEF Cut

LEMMA CutAgain ==
  ASSUME NEW n \in Nat, NEW m \in Nat, NEW cap \in Nat \ {0}
  PROVE  Cut(Cut(n, cap) + m, cap) = Cut(n + m, cap)
  BY DEF Cut

LEMMA TextLengths ==
  ASSUME AInv
  PROVE  /\ PathLen \in Nat /\ FormLen \in Nat
         /\ ~wild => PathLen < MaxPathLen /\ FormLen < FormBuffer
<1>1. /\ account["username"] \in Nat /\ account["password"] \in Nat
      /\ file["username"] \in Nat /\ file["password"] \in Nat
      /\ encoded \in Nat /\ remain \in Nat /\ colons \in Nat /\ code \in Nat
  BY DEF AInv, AccountType, Name
<1>2. PathLen \in Nat /\ FormLen \in Nat
  BY <1>1 DEF PathLen, FormLen
<1>3. ASSUME ~wild
      PROVE  PathLen < MaxPathLen /\ FormLen < FormBuffer
  <2>1. account["username"] <= InfoVarLen - 1 /\ account["password"] <= InfoVarLen - 1
    <3>1. /\ account["username"] = Cut(file["username"], InfoVarLen)
          /\ account["password"] = Cut(file["password"], InfoVarLen)
      BY <1>3 DEF AInv, AccountIsCut, Name
    <3> QED
      BY <1>1, <3>1, CutBounds, AccountAssumption
  <2>2. encoded <= EncodedLen - 1
    <3>1. encoded + remain <= InfoVarLen - 1 + 2 * colons /\ colons <= MaxColons
      BY <1>3 DEF AInv, EncodedSoFar
    <3> QED
      BY <1>1, <3>1, AccountAssumption, SizesAssumption
  <2>3. PathLen <= 51 + 2 * (InfoVarLen - 1) + (6 + (EncodedLen - 1))
    <3>1. PathLen <= 51 + account["username"] + account["password"] + (6 + encoded)
      BY <1>1 DEF PathLen
    <3> QED
      BY <1>1, <1>2, <2>1, <2>2, <3>1, AccountAssumption
  <2>4. /\ FormLen = 77 + code + 2 * account["username"] + account["password"]
        /\ code <= CodeSize - 1
    BY <1>1, <1>3 DEF FormLen, AInv, CodeFits
  <2>5. CodeSize \in Nat /\ InfoVarLen \in Nat /\ EncodedLen \in Nat /\ MaxPathLen \in Nat
    BY AccountAssumption
  <2> QED
    BY <1>1, <1>2, <2>1, <2>3, <2>4, <2>5, SizesAssumption DEF FormBuffer
<1> QED
  BY <1>2, <1>3

LEMMA InitAInv == AccountInit \/ NoAccount => AInv
<1> SUFFICES ASSUME AccountInit \/ NoAccount PROVE AInv
  OBVIOUS
<1>1. RInv
  <2>1. CASE Init
    BY <2>1, InitRInv
  <2>2. CASE NoRequest
    BY <2>2 DEF NoRequest, RInv, Lengths, RequestWhole, Budget
  <2> QED
    BY <2>1, <2>2 DEF AccountInit, NoAccount
<1>2. /\ file = [v \in Name |-> 0] /\ account = [v \in Name |-> 0]
      /\ remain = 0 /\ encoded = 0 /\ colons = 0 /\ code = 0
      /\ text = 0 /\ whole = 0
      /\ wild = FALSE
  BY DEF AccountInit, NoAccount
<1>3. /\ usev6 \in BOOLEAN
      /\ at \in {"none", "ipv6", "env", "send"}
      /\ at = "ipv6" => cmd = "login"
  BY DEF AccountInit, NoAccount
<1>4. AccountType
  <2>1. [v \in Name |-> 0] \in [Name -> Nat]
    OBVIOUS
  <2> QED
    BY <1>2, <1>3, <2>1 DEF AccountType
<1>5. NotYet /\ AtFirst
  BY <1>2, <1>3 DEF AccountInit, NoAccount, NoRequest, NotYet, AtFirst
<1>6. AccountIsCut
  <2>1. Cut(0, InfoVarLen) = 0
    BY AccountAssumption DEF Cut
  <2> QED
    BY <1>2, <2>1 DEF AccountIsCut
<1>7. EncodedSoFar /\ CodeFits /\ text = whole
  <2>1. InfoVarLen - 1 \in Nat /\ CodeSize - 1 \in Nat /\ MaxColons \in Nat
    BY AccountAssumption
  <2> QED
    BY <1>2, <2>1 DEF EncodedSoFar, CodeFits
<1> QED
  BY <1>1, <1>4, <1>5, <1>6, <1>7 DEF AInv

\* A step that leaves the request alone.
LEMMA NotSent ==
  ASSUME RInv, NotYet, UNCHANGED vars, at \notin {"send", "none"},
         at = "failed" => at' = "failed"
  PROVE  RInv' /\ NotYet'
<1>1. RInv'
  BY StepRInv
<1>2. NotYet'
  BY DEF NotYet, vars
<1> QED
  BY <1>1, <1>2

LEMMA StepAInv == AInv /\ [AccountNext]_allVars => AInv'
<1> SUFFICES ASSUME AInv, [AccountNext]_allVars PROVE AInv'
  OBVIOUS
<1>0. RInv /\ AccountType /\ NotYet /\ AtFirst /\ AccountIsCut /\ EncodedSoFar
      /\ CodeFits /\ (~wild => text = whole)
  BY DEF AInv
<1>1. CASE NoAddress
  <2>1. RInv' /\ NotYet'
    BY <1>0, <1>1, NotSent DEF NoAddress
  <2>2. AccountType' /\ AtFirst' /\ AccountIsCut' /\ EncodedSoFar' /\ CodeFits'
    BY <1>0, <1>1 DEF NoAddress, AccountType, AtFirst, AccountIsCut, EncodedSoFar, CodeFits
  <2> QED
    BY <1>0, <1>1, <2>1, <2>2 DEF NoAddress, AInv
<1>2. ASSUME NEW n \in AddressLens, Address(n) PROVE AInv'
  <2>1. RInv' /\ NotYet'
    BY <1>0, <1>2, NotSent DEF Address
  <2>2. AccountType' /\ AtFirst' /\ AccountIsCut'
    <3>1. n \in Nat
      BY AccountAssumption
    <3> QED
      BY <1>0, <1>2, <3>1 DEF Address, AccountType, AtFirst, AccountIsCut
  <2>3. EncodedSoFar' /\ CodeFits'
    <3>1. n \in Nat /\ n <= InfoVarLen - 1 /\ encoded = 0 /\ colons \in Nat
      BY <1>0, <1>2, AccountAssumption DEF Address, AtFirst, AccountType
    <3>2. encoded + n <= InfoVarLen - 1 + 2 * colons
      BY <3>1, AccountAssumption
    <3> QED
      BY <1>0, <1>2, <3>2 DEF Address, EncodedSoFar, CodeFits
  <2> QED
    BY <1>0, <1>2, <2>1, <2>2, <2>3 DEF Address, AInv
<1>3. ASSUME NEW n \in GarbageLens, EmptyAddress(n) PROVE AInv'
  <2>1. RInv' /\ NotYet'
    BY <1>0, <1>3, NotSent DEF EmptyAddress
  <2>2. AccountType' /\ AtFirst' /\ AccountIsCut' /\ EncodedSoFar' /\ CodeFits' /\ wild'
    <3>1. n \in Nat
      BY AccountAssumption
    <3> QED
      BY <1>0, <1>3, <3>1
      DEF EmptyAddress, AccountType, AtFirst, AccountIsCut, EncodedSoFar, CodeFits
  <2> QED
    BY <2>1, <2>2 DEF AInv
<1>4. ASSUME NEW here \in {"ipv6", "env", "form"}, Fails(here) PROVE AInv'
  <2>1. RInv' /\ NotYet'
    BY <1>0, <1>4, NotSent DEF Fails
  <2>2. AccountType' /\ AtFirst' /\ AccountIsCut' /\ EncodedSoFar' /\ CodeFits'
    BY <1>0, <1>4 DEF Fails, AccountType, AtFirst, AccountIsCut, EncodedSoFar, CodeFits
  <2> QED
    BY <1>0, <1>4, <2>1, <2>2 DEF Fails, AInv
<1>5. ASSUME NEW v \in Name, NEW n \in ValueLens, ReadLine(v, n) PROVE AInv'
  <2>1. RInv' /\ NotYet'
    BY <1>0, <1>5, NotSent DEF ReadLine
  <2>2. /\ n \in Nat /\ account[v] \in Nat /\ file[v] \in Nat
        /\ Cut(account[v] + n, InfoVarLen) \in Nat /\ file[v] + n \in Nat
    BY <1>0, CutBounds, AccountAssumption DEF AccountType
  <2>3. AccountType' /\ AtFirst'
    BY <1>0, <1>5, <2>2 DEF ReadLine, AccountType, AtFirst
  <2>4. AccountIsCut'
    <3> SUFFICES ASSUME ~wild', NEW u \in Name
                 PROVE  account'[u] = Cut(file'[u], InfoVarLen)
      BY AccountAssumption DEF AccountIsCut
    <3>1. account[u] = Cut(file[u], InfoVarLen) /\ account[v] = Cut(file[v], InfoVarLen)
      BY <1>0, <1>5 DEF ReadLine, AccountIsCut
    <3>2. CASE u = v
      <4>1. account'[u] = Cut(account[v] + n, InfoVarLen) /\ file'[u] = file[v] + n
        BY <1>0, <1>5, <3>2 DEF ReadLine, AccountType
      <4> QED
        <5>1. Cut(Cut(file[v], InfoVarLen) + n, InfoVarLen) = Cut(file[v] + n, InfoVarLen)
          BY <2>2, CutAgain, AccountAssumption
        <5> QED
          BY <3>1, <3>2, <4>1, <5>1
    <3>3. CASE u # v
      BY <1>0, <1>5, <3>1, <3>3 DEF ReadLine, AccountType
    <3> QED
      BY <3>2, <3>3
  <2>5. EncodedSoFar' /\ CodeFits' /\ (~wild' => text' = whole')
    BY <1>0, <1>5 DEF ReadLine, EncodedSoFar, CodeFits
  <2> QED
    BY <2>1, <2>3, <2>4, <2>5 DEF AInv
<1>6. CASE LoginReady
  <2>1. RInv' /\ NotYet'
    BY <1>0, <1>6, NotSent DEF LoginReady
  <2>2. AccountType' /\ AtFirst' /\ AccountIsCut' /\ EncodedSoFar' /\ CodeFits'
    BY <1>0, <1>6 DEF LoginReady, AccountType, AtFirst, AccountIsCut, EncodedSoFar, CodeFits
  <2> QED
    BY <1>0, <1>6, <2>1, <2>2 DEF LoginReady, AInv
<1>7. ASSUME NEW g \in GarbageLens, DevicesReady(g) PROVE AInv'
  <2>1. RInv' /\ NotYet'
    BY <1>0, <1>7, NotSent DEF DevicesReady
  <2>2. g \in Nat
    BY AccountAssumption
  <2>3. account' \in [Name -> Nat]
    BY <1>0, <1>7, <2>2 DEF DevicesReady, AccountType
  <2>4. AccountType' /\ AtFirst'
    BY <1>0, <1>7, <2>3 DEF DevicesReady, AccountType, AtFirst
  <2>5. ~wild /\ (~wild' => account' = account)
    <3>1. ~wild
      BY <1>0, <1>7 DEF DevicesReady, AtFirst
    <3>2. ASSUME ~wild' PROVE account' = account
      <4>1. \A v \in Name : account[v] # 0
        BY <1>7, <3>2 DEF DevicesReady
      <4>2. account' = [v \in Name |-> account[v]]
        BY <1>7, <4>1 DEF DevicesReady
      <4> QED
        BY <1>0, <4>2 DEF AccountType
    <3> QED
      BY <3>1, <3>2
  <2>6. AccountIsCut' /\ EncodedSoFar' /\ CodeFits' /\ (~wild' => text' = whole')
    BY <1>0, <1>7, <2>5 DEF DevicesReady, AccountIsCut, EncodedSoFar, CodeFits
  <2> QED
    BY <2>1, <2>4, <2>6 DEF AInv
<1>8. ASSUME NEW chunk \in Chunks, EncodeColon(chunk) PROVE AInv'
  <2>1. RInv' /\ NotYet'
    BY <1>0, <1>8, NotSent DEF EncodeColon
  <2>2. /\ chunk \in Nat /\ remain - chunk - 1 \in Nat /\ encoded + chunk + 3 \in Nat
        /\ colons + 1 \in Nat /\ colons + 1 <= MaxColons
        /\ (encoded + chunk + 3) + (remain - chunk - 1) = encoded + remain + 2
        /\ 2 * (colons + 1) = 2 * colons + 2
        /\ remain \in Nat /\ encoded \in Nat /\ colons \in Nat
    BY <1>0, <1>8, AccountAssumption DEF EncodeColon, AccountType
  <2>3. AccountType' /\ AtFirst' /\ AccountIsCut'
    BY <1>0, <1>8, <2>2 DEF EncodeColon, AccountType, AtFirst, AccountIsCut
  <2>4. EncodedSoFar' /\ CodeFits'
    <3>1. ~wild => encoded + remain + 2 <= InfoVarLen - 1 + (2 * colons + 2)
      BY <1>0, <2>2, AccountAssumption DEF EncodedSoFar
    <3> QED
      BY <1>8, <1>0, <2>2, <3>1 DEF EncodeColon, EncodedSoFar, CodeFits
  <2> QED
    BY <1>0, <1>8, <2>1, <2>3, <2>4 DEF EncodeColon, AInv
<1>9. CASE EncodeRest
  <2>1. RInv' /\ NotYet'
    BY <1>0, <1>9, NotSent DEF EncodeRest
  <2>2. /\ encoded + remain \in Nat /\ (encoded + remain) + 0 = encoded + remain
    BY <1>0 DEF AccountType
  <2>3. AccountType' /\ AtFirst' /\ AccountIsCut' /\ EncodedSoFar' /\ CodeFits'
    BY <1>0, <1>9, <2>2 DEF EncodeRest, AccountType, AtFirst, AccountIsCut, EncodedSoFar, CodeFits
  <2> QED
    BY <1>0, <1>9, <2>1, <2>3 DEF EncodeRest, AInv
<1>10. CASE login_url_path
  <2>1. /\ PathLen \in Nat /\ Cut(PathLen, MaxPathLen) \in Nat
        /\ ~wild => Cut(PathLen, MaxPathLen) = PathLen
    BY TextLengths, CutBounds, AccountAssumption
  <2>2. PICK p \in Nat : p = Cut(PathLen, MaxPathLen)
    BY <2>1
  <2>3. path' = p /\ text' = p /\ whole' = PathLen
    BY <1>10, <2>2 DEF login_url_path
  <2>4. pc = "size" /\ used = 0
    BY <1>0, <1>10 DEF login_url_path, NotYet
  <2>5. RInv'
    BY <1>0, <1>10, <2>3, <2>4 DEF login_url_path, RInv, Lengths, RequestWhole, Budget
  <2>6. AccountType' /\ AtFirst' /\ AccountIsCut' /\ EncodedSoFar' /\ CodeFits' /\ NotYet'
    BY <1>0, <1>10
    DEF login_url_path, AccountType, AtFirst, AccountIsCut, EncodedSoFar, CodeFits, NotYet
  <2>7. ~wild' => text' = whole'
    BY <1>10, <2>1, <2>2, <2>3 DEF login_url_path
  <2> QED
    BY <2>5, <2>6, <2>7 DEF AInv
<1>11. CASE device_login
  <2>0. FormBuffer \in Nat \ {0}
    BY AccountAssumption DEF FormBuffer
  <2>1. /\ FormLen \in Nat /\ Cut(FormLen, FormBuffer) \in Nat
        /\ ~wild => Cut(FormLen, FormBuffer) = FormLen
    BY <2>0, TextLengths, CutBounds
  <2>2. PICK p \in Nat : p = Cut(FormLen, FormBuffer)
    BY <2>1
  <2>3. data' = p /\ text' = p /\ whole' = FormLen
    BY <1>11, <2>2 DEF device_login
  <2>4. pc = "size" /\ used = 0 /\ cookie' \in Nat
    BY <1>0, <1>11, RequestAssumption DEF device_login, NotYet
  <2>5. RInv'
    BY <1>0, <1>11, <2>3, <2>4 DEF device_login, RInv, Lengths, RequestWhole, Budget
  <2>6. AccountType' /\ AtFirst' /\ AccountIsCut' /\ EncodedSoFar' /\ CodeFits' /\ NotYet'
    BY <1>0, <1>11
    DEF device_login, AccountType, AtFirst, AccountIsCut, EncodedSoFar, CodeFits, NotYet
  <2>7. ~wild' => text' = whole'
    BY <1>11, <2>1, <2>2, <2>3 DEF device_login
  <2> QED
    BY <2>5, <2>6, <2>7 DEF AInv
<1>12. ASSUME NEW n \in CheckCodes, device_get_form(n) PROVE AInv'
  <2>1. RInv' /\ NotYet'
    BY <1>0, <1>12, NotSent DEF device_get_form
  <2>2. n \in Nat /\ n <= CodeSize - 1
    BY <1>12, AccountAssumption DEF device_get_form
  <2>3. AccountType' /\ AtFirst' /\ AccountIsCut' /\ EncodedSoFar' /\ CodeFits'
    BY <1>0, <1>12, <2>2
    DEF device_get_form, AccountType, AtFirst, AccountIsCut, EncodedSoFar, CodeFits
  <2> QED
    BY <1>0, <1>12, <2>1, <2>3 DEF device_get_form, AInv
<1>13. ASSUME NEW n \in CheckCodes, NEW g \in GarbageLens, WildCode(n, g)
       PROVE  AInv'
  <2>1. RInv' /\ NotYet'
    BY <1>0, <1>13, NotSent DEF WildCode
  <2>2. g \in Nat
    BY AccountAssumption
  <2>3. /\ AccountType' /\ AtFirst' /\ AccountIsCut' /\ EncodedSoFar'
        /\ CodeFits' /\ wild'
    BY <1>0, <1>13, <2>2
    DEF WildCode, AccountType, AtFirst, AccountIsCut, EncodedSoFar, CodeFits
  <2> QED
    BY <2>1, <2>3 DEF AInv
<1>14. ASSUME [Next]_vars, UNCHANGED accountVars, at = "send" \/ UNCHANGED vars
       PROVE  AInv'
  <2>1. RInv'
    BY <1>0, <1>14, StepRInv
  <2>2. AccountType' /\ AtFirst' /\ AccountIsCut' /\ EncodedSoFar' /\ CodeFits'
        /\ (~wild' => text' = whole')
    BY <1>0, <1>14 DEF accountVars, AccountType, AtFirst, AccountIsCut, EncodedSoFar, CodeFits
  <2>3. NotYet'
    BY <1>0, <1>14 DEF accountVars, vars, NotYet
  <2> QED
    BY <2>1, <2>2, <2>3 DEF AInv
<1>15. CASE UNCHANGED allVars
  BY <1>14, <1>15 DEF allVars
<1>16. CASE Send
  BY <1>14, <1>16 DEF Send
<1> QED
  BY <1>1, <1>2, <1>3, <1>4, <1>5, <1>6, <1>7, <1>8, <1>9, <1>10, <1>11, <1>12,
     <1>13, <1>15, <1>16
  DEF AccountNext, AddressCrashes

------------------------------------------------------------------------------
(* Page *)

\* The largest number that, times d, is at most a.
LEMMA DivIsFloor ==
  ASSUME NEW a \in Nat, NEW d \in Nat \ {0}, NEW r \in Nat
  PROVE  r <= a \div d <=> r * d <= a
<1> DEFINE q == a \div d
           m == a % d
<1>1. q \in Nat /\ m \in 0..d-1 /\ a = d * q + m
  OBVIOUS
<1> HIDE DEF q, m
<1>2. CASE r <= q
  <2>1. PICK e \in Nat : q = r + e
    <3>1. q - r \in Nat /\ q = r + (q - r)
      BY <1>1, <1>2
    <3> QED
      BY <3>1
  <2>2. d * q = d * r + d * e
    BY <1>1, <2>1
  <2>3. d * e \in Nat /\ d * r = r * d /\ d * r \in Nat
    BY <2>1
  <2>4. r * d <= a
    BY <1>1, <2>2, <2>3
  <2> QED
    BY <1>2, <2>4 DEF q
<1>3. CASE ~(r <= q)
  <2>1. PICK e \in Nat : r = q + 1 + e
    <3>1. r - q - 1 \in Nat /\ r = q + 1 + (r - q - 1)
      BY <1>1, <1>3
    <3> QED
      BY <3>1
  <2>2. d * r = d * q + d + d * e
    BY <1>1, <2>1
  <2>3. d * e \in Nat /\ d * r = r * d /\ d * q \in Nat
    BY <1>1, <2>1
  <2>4. r * d > a
    BY <1>1, <2>2, <2>3
  <2>5. r * d \in Nat
    BY <2>3
  <2> QED
    BY <1>3, <2>4, <2>5 DEF q
<1> QED
  BY <1>2, <1>3

\* What has been read is what the page says, and IPv6 is divided once, at the end.
PInv ==
  /\ k \in Nat \ {0}
  /\ info \in [Variable -> Nat] /\ says \in [Variable -> Nat]
  /\ step = "get" => says = Zero /\ k = 1
  /\ step = "extract" => info = says
  /\ step \in {"print", "done", "crashed"} =>
       info["flow"] = says["flow"] /\ info["v6df"] = says["v6df"] \div 4
  /\ step = "crashed" => Total = 0
  /\ step = "done" /\ command = "info" => Total > 0 /\ shown = <<saving_rate>>

LEMMA VariablesRead ==
  /\ Len(Order) = 8
  /\ \A j \in 1..8 : Order[j] \in Variable
  /\ "flow" \in Variable /\ "v6df" \in Variable
<1>1. Len(Order) = 8 /\ Order[3] = "flow" /\ Order[4] = "v6df"
  BY DEF Order
<1>2. \A j \in 1..8 : Order[j] \in Variable
  BY <1>1 DEF Variable
<1> QED
  BY <1>1, <1>2

LEMMA ValuesAreNumbers == \A v \in Variable : Values(v) \subseteq Nat
  BY PageAssumption DEF Values

LEMMA ZeroIs == Zero \in [Variable -> Nat]
  BY DEF Zero

LEMMA InitPInv == PageInit \/ NoPage => PInv
<1> SUFFICES ASSUME PageInit \/ NoPage PROVE PInv
  OBVIOUS
<1>1. info \in [Variable -> Nat] /\ says = Zero
  BY ZeroIs DEF PageInit, NoPage
<1> QED
  BY <1>1, ZeroIs DEF PageInit, NoPage, PInv

LEMMA StepPInv == PInv /\ [PageNext]_pageVars => PInv'
<1> SUFFICES ASSUME PInv, [PageNext]_pageVars PROVE PInv'
  OBVIOUS
<1>0. info \in [Variable -> Nat] /\ says \in [Variable -> Nat] /\ k \in Nat \ {0}
  BY DEF PInv
<1>1. CASE GetFails \/ ExtractFails \/ Incomplete
  <2>1. step' \in {"failed", "incomplete", "login"}
    BY <1>1 DEF GetFails, ExtractFails, Incomplete
  <2>2. UNCHANGED <<command, k, info, shown, hi, says>>
    BY <1>1 DEF GetFails, ExtractFails, Incomplete
  <2> QED
    BY <2>1, <2>2 DEF PInv
<1>2. CASE GetPage
  <2>1. /\ info' = Zero /\ says' = says /\ says = Zero /\ k' = k
        /\ step' \in {"extract", "incomplete"}
    BY <1>2 DEF GetPage, Cleared, PInv
  <2> QED
    BY <1>0, <2>1 DEF PInv
<1>3. ASSUME k <= Len(Order), NEW value \in Values(Order[k]), ExtractOk(value)
      PROVE  PInv'
  <2>1. Order[k] \in Variable
    <3>1. k \in 1..8
      BY <1>0, <1>3, VariablesRead
    <3> QED
      BY <3>1, VariablesRead
  <2>2. value \in Nat
    BY <2>1, ValuesAreNumbers
  <2>3. /\ info' = [info EXCEPT ![Order[k]] = value]
        /\ says' = [says EXCEPT ![Order[k]] = value]
        /\ info = says /\ step' = "extract" /\ k' = k + 1
    BY <1>3 DEF ExtractOk, PInv
  <2>4. info' \in [Variable -> Nat] /\ says' = info' /\ k + 1 \in Nat \ {0}
    BY <1>0, <2>1, <2>2, <2>3
  <2> QED
    BY <2>3, <2>4 DEF PInv
<1>4. CASE ExtractDone
  <2>1. /\ info' = [info EXCEPT !["v6df"] = @ \div 4] /\ says' = says /\ info = says
        /\ step' = "print" /\ k' = k
    BY <1>4 DEF ExtractDone, PInv
  <2>2. info["v6df"] \in Nat /\ info["v6df"] \div 4 \in Nat
    <3>1. info["v6df"] \in Nat
      BY <1>0, VariablesRead
    <3> QED
      BY <3>1
  <2>3. /\ info' \in [Variable -> Nat] /\ info'["flow"] = info["flow"]
        /\ info'["v6df"] = info["v6df"] \div 4
    BY <1>0, <2>1, <2>2, VariablesRead
  <2> QED
    BY <1>0, <2>1, <2>3 DEF PInv
<1>5. CASE info_print
  BY <1>5 DEF info_print, Shows, PInv, Total, saving_rate
<1>6. CASE InfoCrashes
  BY <1>6 DEF InfoCrashes, PInv, Total
<1>7. CASE cmd_fee
  <2>1. /\ command = "fee" /\ step = "print" /\ step' = "done"
        /\ UNCHANGED <<command, k, info, says>>
    BY <1>7 DEF cmd_fee, Shows
  <2> QED
    BY <2>1 DEF PInv
<1>8. CASE cmd_whoami
  <2>1. /\ command = "whoami" /\ step = "print" /\ step' \in {"done", "failed"}
        /\ UNCHANGED <<command, k, info, says>>
    BY <1>8 DEF cmd_whoami, Shows
  <2> QED
    BY <2>1 DEF PInv
<1>9. CASE UNCHANGED pageVars
  BY <1>9 DEF pageVars, PInv, Total, saving_rate
<1> QED
  BY <1>1, <1>2, <1>3, <1>4, <1>5, <1>6, <1>7, <1>8, <1>9 DEF PageNext

LEMMA PInvShows == PInv => ShareShown
<1> DEFINE v6 == says["v6df"] \div 4
           all == says["flow"] + v6
<1> SUFFICES ASSUME PInv PROVE ShareShown
  OBVIOUS
<1>1. says["flow"] \in Nat /\ says["v6df"] \in Nat
  BY VariablesRead DEF PInv
<1>2. v6 \in Nat /\ all \in Nat /\ 100 * v6 \in Nat
  BY <1>1
<1>3. step = "crashed" => all = 0
  BY DEF PInv, Total
<1>4. ASSUME step = "done", command = "info", NEW rate \in 0..100
      PROVE  rate <= shown[1] <=> rate * all <= 100 * v6
  <2>1. all > 0 /\ shown[1] = (100 * v6) \div all
    BY <1>4 DEF PInv, Total, saving_rate
  <2> HIDE DEF v6, all
  <2>2. all \in Nat \ {0} /\ rate \in Nat
    BY <1>2, <2>1
  <2> QED
    BY <1>2, <2>1, <2>2, DivIsFloor
<1> QED
  BY <1>3, <1>4 DEF ShareShown

------------------------------------------------------------------------------
(* Page: the digits of a number, and what assign_decimal makes of them. *)

\* q[j] is the number its first j digits are, of w.
Leading(q, w) == /\ q \in [0..w -> Nat] /\ q[0] = 0
                 /\ \A j \in 0..w-1 : q[j + 1] = 10 * q[j] + (q[j + 1] % 10)

\* They are written with a point behind the first s, and two digits after it.
TextOf(q, s) == [j \in 1 .. s + 3 |-> IF j <= s THEN q[j] % 10
                                      ELSE IF j = s + 1 THEN Dot ELSE q[j - 1] % 10]

\* How Hundredths reads a text.
IsValue(h, t, n) ==
  h = [j \in 0..n |-> IF j = 0 THEN 0 ELSE IF t[j] = Dot THEN h[j - 1]
                                           ELSE 10 * h[j - 1] + t[j]]

\* Two more digits than s, and the point, are worth what q says.
LEMMA HundredthsOf ==
  ASSUME NEW w \in Nat, NEW s \in 1..7, s + 3 <= w, NEW q, Leading(q, w)
  PROVE  /\ Len(TextOf(q, s)) = s + 3 /\ TextOf(q, s)[s + 1] = Dot
         /\ Hundredths(TextOf(q, s)) = q[s + 2]
<1> DEFINE t == TextOf(q, s)
           h == CHOOSE f : IsValue(f, t, Len(t))
           g == [j \in 0 .. s + 3 |-> IF j <= s THEN q[j] ELSE q[j - 1]]
<1>1. /\ \A j \in 0..w : q[j] \in Nat
      /\ \A j \in 0..w-1 : q[j + 1] = 10 * q[j] + (q[j + 1] % 10)
      /\ q[0] = 0
  BY DEF Leading
<1>2. /\ t \in [1 .. s + 3 -> Nat] /\ Len(t) = s + 3
      /\ \A j \in 1..s : t[j] = q[j] % 10 /\ t[j] \in 0..9
      /\ t[s + 1] = Dot
      /\ t[s + 2] = q[s + 1] % 10 /\ t[s + 2] \in 0..9
      /\ t[s + 3] = q[s + 2] % 10 /\ t[s + 3] \in 0..9
      /\ \A j \in 1 .. s + 3 : j # s + 1 => t[j] # Dot
  <2>0. \A x \in Nat : x % 10 \in 0..9
    OBVIOUS
  <2>1. \A j \in 0..w : q[j] % 10 \in 0..9
    BY <1>1, <2>0
  <2>2. \A j \in 1 .. s + 3 : t[j] = IF j <= s THEN q[j] % 10
                                      ELSE IF j = s + 1 THEN Dot ELSE q[j - 1] % 10
    BY DEF TextOf
  <2>3. t = [j \in 1 .. s + 3 |-> t[j]]
    BY DEF TextOf
  <2> HIDE DEF t
  <2>4. \A j \in 1..s : t[j] = q[j] % 10 /\ t[j] \in 0..9
    BY <2>1, <2>2
  <2>5. t[s + 1] = Dot
    BY <2>2
  <2>6. /\ t[s + 2] = q[s + 1] % 10 /\ t[s + 2] \in 0..9
        /\ t[s + 3] = q[s + 2] % 10 /\ t[s + 3] \in 0..9
    BY <2>1, <2>2
  <2>7. \A j \in 1 .. s + 3 : t[j] \in Nat
    <3> TAKE j \in 1 .. s + 3
    <3>1. j \in 1..s \/ j = s + 1 \/ j = s + 2 \/ j = s + 3
      OBVIOUS
    <3> QED
      BY <2>4, <2>5, <2>6, <3>1 DEF Dot
  <2>8. t \in [1 .. s + 3 -> Nat]
    BY <2>3, <2>7
  <2>9. Len(t) = s + 3
    BY <2>8
  <2>10. ASSUME NEW j \in 1 .. s + 3, j # s + 1 PROVE t[j] # Dot
    <3>1. \/ j \in 1..s \/ j = s + 2 \/ j = s + 3
      BY <2>10
    <3>2. t[j] \in 0..9
      BY <2>4, <2>6, <3>1
    <3> QED
      BY <3>2 DEF Dot
  <2> QED
    BY <2>4, <2>5, <2>6, <2>8, <2>9, <2>10
<1>3. Hundredths(t) = h[Len(t)]
  <2> HIDE DEF t
  <2>1. t # <<0>>
    <3>1. Len(<<0>>) = 1
      OBVIOUS
    <3>2. t = <<0>> => Len(t) = Len(<<0>>)
      OBVIOUS
    <3>3. Len(t) = s + 3
      BY <1>2
    <3>4. Len(t) # 1
      BY <3>3
    <3> QED
      BY <3>1, <3>2, <3>4, Zenon
  <2> QED
    BY <2>1 DEF Hundredths, IsValue
<1> HIDE DEF t
<1>4. IsValue(g, t, s + 3)
  <2>1. ASSUME NEW j \in 0 .. s + 3
        PROVE  g[j] = IF j = 0 THEN 0 ELSE IF t[j] = Dot THEN g[j - 1]
                                           ELSE 10 * g[j - 1] + t[j]
    <3>1. CASE j = 0
      BY <1>1, <3>1
    <3>2. CASE j \in 1..s
      <4>1. g[j] = q[j] /\ g[j - 1] = q[j - 1] /\ j - 1 \in 0..w-1 /\ (j - 1) + 1 = j
        BY <3>2
      <4>2. t[j] # Dot /\ t[j] = q[j] % 10
        BY <1>2, <3>2
      <4>3. q[j] = 10 * q[j - 1] + (q[j] % 10)
        BY <1>1, <4>1
      <4> QED
        BY <3>2, <4>1, <4>2, <4>3
    <3>3. CASE j = s + 1
      BY <1>2, <3>3
    <3>4. CASE j = s + 2
      <4>1. g[j] = q[s + 1] /\ g[j - 1] = q[s] /\ s \in 0..w-1 /\ j # 0
        BY <3>4
      <4>2. t[j] # Dot /\ t[j] = q[s + 1] % 10
        BY <1>2, <3>4
      <4>3. q[s + 1] = 10 * q[s] + (q[s + 1] % 10)
        BY <1>1, <4>1
      <4> QED
        BY <4>1, <4>2, <4>3
    <3>5. CASE j = s + 3
      <4>1. g[j] = q[s + 2] /\ g[j - 1] = q[s + 1] /\ s + 1 \in 0..w-1 /\ j # 0
        BY <3>5
      <4>2. t[j] # Dot /\ t[j] = q[s + 2] % 10
        BY <1>2, <3>5
      <4>3. q[s + 2] = 10 * q[s + 1] + (q[s + 2] % 10)
        BY <1>1, <4>1
      <4> QED
        BY <4>1, <4>2, <4>3
    <3> QED
      BY <3>1, <3>2, <3>3, <3>4, <3>5
  <2>2. g = [j \in 0 .. s + 3 |-> g[j]]
    OBVIOUS
  <2> HIDE DEF g
  <2> QED
    BY <2>1, <2>2 DEF IsValue
<1>5. IsValue(h, t, s + 3)
  <2>1. \E f : IsValue(f, t, Len(t))
    BY <1>2, <1>4
  <2> QED
    BY <1>2, <2>1
<1> HIDE DEF h
<1>6. /\ h[0] = 0
      /\ \A j \in 1 .. s + 3 : h[j] = IF t[j] = Dot THEN h[j - 1]
                                                    ELSE 10 * h[j - 1] + t[j]
  BY <1>5 DEF IsValue
<1>7. \A j \in 0..6 : j < s /\ h[j] = q[j] => h[j + 1] = q[j + 1]
  <2> TAKE j \in 0..6
  <2>1. SUFFICES ASSUME j < s, h[j] = q[j] PROVE h[j + 1] = q[j + 1]
    OBVIOUS
  <2>2. j + 1 \in 1..s /\ j + 1 \in 1 .. s + 3 /\ (j + 1) - 1 = j /\ j \in 0..w-1
    BY <2>1
  <2>3. t[j + 1] = q[j + 1] % 10 /\ t[j + 1] # Dot
    BY <1>2, <2>2
  <2>4. h[j + 1] = 10 * h[j] + t[j + 1]
    BY <1>6, <2>2, <2>3
  <2>5. q[j + 1] = 10 * q[j] + (q[j + 1] % 10)
    BY <1>1, <2>2
  <2> QED
    BY <2>1, <2>3, <2>4, <2>5
<1>8. h[s] = q[s]
  <2>0. h[0] = q[0]
    BY <1>1, <1>6
  <2>1. 1 <= s => h[1] = q[1]
    BY <1>7, <2>0
  <2>2. 2 <= s => h[2] = q[2]
    BY <1>7, <2>1
  <2>3. 3 <= s => h[3] = q[3]
    BY <1>7, <2>2
  <2>4. 4 <= s => h[4] = q[4]
    BY <1>7, <2>3
  <2>5. 5 <= s => h[5] = q[5]
    BY <1>7, <2>4
  <2>6. 6 <= s => h[6] = q[6]
    BY <1>7, <2>5
  <2>7. 7 <= s => h[7] = q[7]
    BY <1>7, <2>6
  <2> QED
    BY <2>1, <2>2, <2>3, <2>4, <2>5, <2>6, <2>7
<1>9. h[s + 1] = q[s]
  <2>1. s + 1 \in 1 .. s + 3 /\ (s + 1) - 1 = s
    OBVIOUS
  <2> QED
    BY <1>2, <1>6, <1>8, <2>1
<1>10. h[s + 2] = q[s + 1]
  <2>1. s + 2 \in 1 .. s + 3 /\ (s + 2) - 1 = s + 1 /\ t[s + 2] # Dot /\ s \in 0..w-1
    BY <1>2
  <2>2. h[s + 2] = 10 * h[s + 1] + t[s + 2]
    BY <1>6, <2>1
  <2>3. q[s + 1] = 10 * q[s] + (q[s + 1] % 10)
    BY <1>1, <2>1
  <2> QED
    BY <1>2, <1>9, <2>2, <2>3
<1>11. h[s + 3] = q[s + 2]
  <2>1. /\ s + 3 \in 1 .. s + 3 /\ (s + 3) - 1 = s + 2 /\ t[s + 3] # Dot
        /\ s + 1 \in 0..w-1 /\ (s + 1) + 1 = s + 2
    BY <1>2
  <2>2. h[s + 3] = 10 * h[s + 2] + t[s + 3]
    BY <1>6, <2>1
  <2>3. q[s + 2] = 10 * q[s + 1] + (q[s + 2] % 10)
    BY <1>1, <2>1
  <2> QED
    BY <1>2, <1>10, <2>2, <2>3
<1> QED
  BY <1>2, <1>3, <1>11 DEF t

\* A digit is what the next power of ten leaves.
LEMMA DigitStep ==
  ASSUME NEW n \in Nat, NEW j \in 0..9
  PROVE  /\ n \div 10 ^ j \in Nat
         /\ n \div 10 ^ j = 10 * (n \div 10 ^ (j + 1)) + ((n \div 10 ^ j) % 10)
<1> DEFINE Goal == /\ n \div 10 ^ j \in Nat
                   /\ n \div 10 ^ j = 10 * (n \div 10 ^ (j + 1)) + ((n \div 10 ^ j) % 10)
<1>0. CASE j = 0 BY <1>0
<1>1. CASE j = 1 BY <1>1
<1>2. CASE j = 2 BY <1>2
<1>3. CASE j = 3 BY <1>3
<1>4. CASE j = 4 BY <1>4
<1>5. CASE j = 5 BY <1>5
<1>6. CASE j = 6 BY <1>6
<1>7. CASE j = 7 BY <1>7
<1>8. CASE j = 8 BY <1>8
<1>9. CASE j = 9 BY <1>9
<1> HIDE DEF Goal
<1> QED
  BY <1>0, <1>1, <1>2, <1>3, <1>4, <1>5, <1>6, <1>7, <1>8, <1>9

LEMMA Powers ==
  /\ 10 ^ 0 = 1
  /\ \A j \in 0..10 : 10 ^ j \in Nat
  /\ \A j \in 0..9 : 10 ^ (j + 1) = 10 * (10 ^ j)
<1>a. 10 ^ 0 = 1
  OBVIOUS
<1>b. ASSUME NEW j \in 0..10 PROVE 10 ^ j \in Nat
  <2>0. CASE j = 0 BY <2>0
  <2>1. CASE j = 1 BY <2>1
  <2>2. CASE j = 2 BY <2>2
  <2>3. CASE j = 3 BY <2>3
  <2>4. CASE j = 4 BY <2>4
  <2>5. CASE j = 5 BY <2>5
  <2>6. CASE j = 6 BY <2>6
  <2>7. CASE j = 7 BY <2>7
  <2>8. CASE j = 8 BY <2>8
  <2>9. CASE j = 9 BY <2>9
  <2>10. CASE j = 10 BY <2>10
  <2> QED
    BY <2>0, <2>1, <2>2, <2>3, <2>4, <2>5, <2>6, <2>7, <2>8, <2>9, <2>10
<1>c. ASSUME NEW j \in 0..9 PROVE 10 ^ (j + 1) = 10 * (10 ^ j)
  <2>0. CASE j = 0 BY <2>0
  <2>1. CASE j = 1 BY <2>1
  <2>2. CASE j = 2 BY <2>2
  <2>3. CASE j = 3 BY <2>3
  <2>4. CASE j = 4 BY <2>4
  <2>5. CASE j = 5 BY <2>5
  <2>6. CASE j = 6 BY <2>6
  <2>7. CASE j = 7 BY <2>7
  <2>8. CASE j = 8 BY <2>8
  <2>9. CASE j = 9 BY <2>9
  <2> QED
    BY <2>0, <2>1, <2>2, <2>3, <2>4, <2>5, <2>6, <2>7, <2>8, <2>9
<1> QED
  BY <1>a, <1>b, <1>c

\* A power of ten is not zero.
LEMMA ScaleIs == 10 ^ (Decimals - 2) \in Nat \ {0}
<1>1. Decimals - 2 \in 0..10
  BY PageAssumption
<1>2. \A j \in 0..10 : 10 ^ j # 0
  <2> TAKE j \in 0..10
  <2>0. CASE j = 0 BY <2>0
  <2>1. CASE j = 1 BY <2>1
  <2>2. CASE j = 2 BY <2>2
  <2>3. CASE j = 3 BY <2>3
  <2>4. CASE j = 4 BY <2>4
  <2>5. CASE j = 5 BY <2>5
  <2>6. CASE j = 6 BY <2>6
  <2>7. CASE j = 7 BY <2>7
  <2>8. CASE j = 8 BY <2>8
  <2>9. CASE j = 9 BY <2>9
  <2>10. CASE j = 10 BY <2>10
  <2> QED
    BY <2>0, <2>1, <2>2, <2>3, <2>4, <2>5, <2>6, <2>7, <2>8, <2>9, <2>10
<1> QED
  BY <1>1, <1>2, Powers, Zenon

\* Ten powers of ten around a number that is below the last.
LEMMA Between ==
  ASSUME NEW p, p[0] = 1, \A j \in 0..10 : p[j] \in Nat,
         \A j \in 0..9 : p[j + 1] = 10 * p[j],
         NEW n \in Nat, n # 0, n < p[10]
  PROVE  \E m \in 0..9 : /\ p[m] <= n /\ n < p[m + 1]
                         /\ \A j \in 0..10 : (j <= m => p[j] <= n) /\ (j > m => n < p[j])
<1>0. /\ p[1] = 10 * p[0] /\ p[2] = 10 * p[1] /\ p[3] = 10 * p[2]
      /\ p[4] = 10 * p[3] /\ p[5] = 10 * p[4] /\ p[6] = 10 * p[5]
      /\ p[7] = 10 * p[6] /\ p[8] = 10 * p[7] /\ p[9] = 10 * p[8]
      /\ p[10] = 10 * p[9]
  <2>1. \A j \in 0..9 : p[j + 1] = 10 * p[j]
    OBVIOUS
  <2>2. p[0 + 1] = 10 * p[0] /\ p[1 + 1] = 10 * p[1] /\ p[2 + 1] = 10 * p[2]
    BY <2>1
  <2>3. p[3 + 1] = 10 * p[3] /\ p[4 + 1] = 10 * p[4] /\ p[5 + 1] = 10 * p[5]
    BY <2>1
  <2>4. p[6 + 1] = 10 * p[6] /\ p[7 + 1] = 10 * p[7] /\ p[8 + 1] = 10 * p[8]
    BY <2>1
  <2>5. p[9 + 1] = 10 * p[9]
    BY <2>1
  <2> QED
    BY <2>2, <2>3, <2>4, <2>5
<1>1. /\ p[1] = 10 /\ p[2] = 100 /\ p[3] = 1000 /\ p[4] = 10000
      /\ p[5] = 100000 /\ p[6] = 1000000 /\ p[7] = 10000000
      /\ p[8] = 100000000 /\ p[9] = 1000000000 /\ p[10] = 10000000000
  BY <1>0
<1> DEFINE Around(m) == /\ p[m] <= n /\ n < p[m + 1]
                        /\ \A j \in 0..10 : (j <= m => p[j] <= n) /\ (j > m => n < p[j])
<1>2. ASSUME NEW m \in 0..9, p[m] <= n, n < p[m + 1] PROVE Around(m)
  <2> SUFFICES ASSUME NEW j \in 0..10
               PROVE (j <= m => p[j] <= n) /\ (j > m => n < p[j])
    BY <1>2
  <2>1. \A i, z \in 0..10 : i <= z => p[i] <= p[z]
    BY <1>1
  <2>2. p[j] \in Nat /\ p[m] \in Nat /\ p[m + 1] \in Nat /\ m + 1 \in 0..10 /\ m \in 0..10
    OBVIOUS
  <2>3. j <= m => p[j] <= p[m]
    BY <2>1, <2>2
  <2>4. j > m => p[m + 1] <= p[j]
    BY <2>1, <2>2
  <2> QED
    BY <1>2, <2>2, <2>3, <2>4
<1>3. \E m \in 0..9 : p[m] <= n /\ n < p[m + 1]
  <2> SUFFICES ASSUME \A m \in 0..9 : p[m] <= n => ~ (n < p[m + 1]) PROVE FALSE
    OBVIOUS
  <2>1. ~ (n < 10) /\ ~ (n < 100) /\ ~ (n < 1000)
    BY <1>1
  <2> QED
    BY <1>1
<1> HIDE DEF Around
<1>4. \E m \in 0..9 : Around(m)
  BY <1>2, <1>3
<1> QED
  BY <1>4 DEF Around

\* The number of digits printed, none of which are dropped.
LEMMA WidthOf ==
  ASSUME NEW n \in Nat, n # 0, n \div 10 ^ 9 < 10
  PROVE  /\ Width(n) \in 1..10 /\ Width(n) > Decimals
         /\ n \div 10 ^ Width(n) = 0
<1> DEFINE p == [j \in 0..10 |-> 10 ^ j]
<1>1. /\ p[0] = 1 /\ \A j \in 0..10 : p[j] \in Nat
      /\ \A j \in 0..9 : p[j + 1] = 10 * p[j]
  BY Powers
<1>2. n < p[10]
  OBVIOUS
<1>3. \A j \in 0..10 : p[j] = 10 ^ j
  OBVIOUS
<1> HIDE DEF p
<1>4. PICK m \in 0..9 :
        \A j \in 0..10 : (j <= m => p[j] <= n) /\ (j > m => n < p[j])
  BY <1>1, <1>2, Between
<1>5. {j \in 1..9 : n >= 10 ^ j} = 1..m
  <2>1. \A j \in 1..9 : n >= 10 ^ j <=> j <= m
    <3> TAKE j \in 1..9
    <3>1. j \in 0..10 /\ j \in Nat
      OBVIOUS
    <3>2. p[j] = 10 ^ j
      BY <1>3, <3>1, Zenon
    <3>3. p[j] \in Nat
      BY <1>1, <3>1, Zenon
    <3>4. n >= p[j] <=> j <= m
      BY <1>4, <3>1, <3>3
    <3> QED
      BY <3>2, <3>4, Zenon
  <2>2. 1..m = {j \in 1..9 : j <= m}
    OBVIOUS
  <2>3. {j \in 1..9 : n >= 10 ^ j} = {j \in 1..9 : j <= m}
    BY <2>1, Zenon
  <2> QED
    BY <2>2, <2>3, Zenon
<1>6. Cardinality(1..m) = m
  <2>1. 1 \in Int /\ m \in Int
    OBVIOUS
  <2>2. Cardinality(1..m) = IF 1 > m THEN 0 ELSE m - 1 + 1
    BY <2>1, FS_Interval, Zenon
  <2> QED
    BY <2>2
<1>7. Width(n) = IF 1 + m > Decimals THEN 1 + m ELSE Decimals + 1
  BY <1>5, <1>6 DEF Width
<1>8. /\ Width(n) \in 1..10 /\ Width(n) > Decimals /\ Width(n) > m
  BY <1>7, PageAssumption
<1>9. ASSUME NEW w \in 0..10, w > m PROVE n \div 10 ^ w = 0
  <2>1. n < p[w] /\ p[w] = 10 ^ w /\ p[w] \in Nat
    BY <1>1, <1>3, <1>4, <1>9
  <2>2. \A d \in Nat : n < d => n \div d = 0
    OBVIOUS
  <2> QED
    BY <2>1, <2>2
<1>10. Width(n) \in 0..10
  BY <1>8
<1>11. n \div 10 ^ Width(n) = 0
  BY <1>8, <1>9, <1>10, Zenon
<1> QED
  BY <1>8, <1>11

\* The first digits of a number, as assign_decimal prints it.
LEMMA LeadingDigits ==
  ASSUME NEW n \in Nat, NEW w \in 0..10, n \div 10 ^ w = 0,
         NEW q, q = [j \in 0..w |-> n \div 10 ^ (w - j)]
  PROVE  Leading(q, w)
<1>1. \A j \in 0..w : n \div 10 ^ (w - j) \in Nat
  <2> TAKE j \in 0..w
  <2>0. \A i \in 0..9 : n \div 10 ^ i \in Nat
    BY DigitStep
  <2>1. CASE w - j \in 0..9
    BY <2>0, <2>1, Zenon
  <2>2. CASE j = 0 /\ w = 10
    <3>1. w - j = w
      BY <2>2
    <3>2. 0 \in Nat
      OBVIOUS
    <3> QED
      BY <3>1, <3>2, Zenon
  <2> QED
    BY <2>1, <2>2
<1>2. q \in [0..w -> Nat]
  BY <1>1
<1>3. \A j \in 0..w : q[j] = n \div 10 ^ (w - j)
  BY Zenon
<1>4. q[0] = 0
  <2>1. w - 0 = w /\ 0 \in 0..w
    OBVIOUS
  <2> QED
    BY <1>3, <2>1, Zenon
<1>5. ASSUME NEW j \in 0..w-1 PROVE q[j + 1] = 10 * q[j] + (q[j + 1] % 10)
  <2>1. PICK i \in 0..9 : i = w - (j + 1) /\ i + 1 = w - j
    <3>1. w - (j + 1) \in 0..9 /\ (w - (j + 1)) + 1 = w - j
      OBVIOUS
    <3> QED
      BY <3>1
  <2>2. j + 1 \in 0..w /\ j \in 0..w
    OBVIOUS
  <2>3. q[j + 1] = n \div 10 ^ i /\ q[j] = n \div 10 ^ (i + 1)
    BY <1>3, <2>1, <2>2, Zenon
  <2>4. n \div 10 ^ i = 10 * (n \div 10 ^ (i + 1)) + ((n \div 10 ^ i) % 10)
    BY DigitStep, Zenon
  <2> QED
    BY <2>3, <2>4, Zenon
<1> QED
  BY <1>2, <1>4, <1>5 DEF Leading

\* What assign_decimal does to a number of w digits, s before the point.
Printed(n, w, s) ==
  LET buf == [j \in 0 .. w + 3 |-> IF j < w THEN (n \div 10 ^ (w - 1 - j)) % 10
                                           ELSE NUL]
      moved == [buf EXCEPT ![s + 1] = buf[s], ![s + 2] = buf[s + 1],
                           ![s] = Dot, ![s + 3] = NUL]
      end == CHOOSE j \in 0 .. w + 3 : /\ moved[j] = NUL
                                       /\ \A i \in 0 .. j - 1 : moved[i] # NUL
  IN  [text |-> [j \in 1 .. end |-> moved[j - 1]],
       last |-> IF s + 3 > w THEN s + 3 ELSE w]

\* assign_decimal writes the digits, the point two before the end, and a '\0'
\* that is inside what was printed.
LEMMA DecimalText ==
  ASSUME NEW n \in Nat, n \div 10 ^ 9 < 10
  PROVE  LET d == assign_decimal(n) IN
         /\ d.last \in 1..10
         /\ d.text = <<0>> \/ d.text[Len(d.text) - 2] = Dot
         /\ Hundredths(d.text) = n \div 10 ^ (Decimals - 2)
<1>1. CASE n = 0
  <2>1. assign_decimal(n) = [text |-> <<0>>, last |-> 1]
    BY <1>1 DEF assign_decimal
  <2>2. Hundredths(<<0>>) = 0
    BY DEF Hundredths
  <2>3. 0 \div 10 ^ (Decimals - 2) = 0
    <3>1. 10 ^ (Decimals - 2) \in Nat \ {0}
      BY ScaleIs
    <3>2. \A d \in Nat \ {0} : 0 \div d = 0
      OBVIOUS
    <3> QED
      BY <3>1, <3>2, Zenon
  <2> QED
    BY <1>1, <2>1, <2>2, <2>3
<1>2. CASE n # 0
  <2>1. PICK w \in 1..10 : w = Width(n) /\ w > Decimals /\ n \div 10 ^ w = 0
    BY <1>2, WidthOf
  <2>2. PICK s \in 1..7 : s = w - Decimals /\ s + 3 <= w /\ w - (s + 2) = Decimals - 2
    <3>1. /\ w - Decimals \in 1..7 /\ (w - Decimals) + 3 <= w
          /\ w - ((w - Decimals) + 2) = Decimals - 2
      BY <2>1, PageAssumption
    <3> QED
      BY <3>1
  <2>3. PICK q : q = [j \in 0..w |-> n \div 10 ^ (w - j)]
    BY Zenon
  <2>4. Leading(q, w) /\ q \in [0..w -> Nat]
    <3>1. w \in 0..10
      OBVIOUS
    <3>2. Leading(q, w)
      BY <2>1, <2>3, <3>1, LeadingDigits
    <3> QED
      BY <3>2 DEF Leading
  <2> DEFINE buf == [j \in 0 .. w + 3 |-> IF j < w THEN (n \div 10 ^ (w - 1 - j)) % 10
                                                  ELSE NUL]
             moved == [buf EXCEPT ![s + 1] = buf[s], ![s + 2] = buf[s + 1],
                                  ![s] = Dot, ![s + 3] = NUL]
             end == CHOOSE j \in 0 .. w + 3 : /\ moved[j] = NUL
                                              /\ \A i \in 0 .. j - 1 : moved[i] # NUL
  <2>5. assign_decimal(n) = [text |-> [j \in 1 .. end |-> moved[j - 1]],
                             last |-> IF s + 3 > w THEN s + 3 ELSE w]
    <3>1. assign_decimal(n) = Printed(n, Width(n), Width(n) - Decimals)
      BY <1>2, Zenon DEF assign_decimal, Printed
    <3>2. Width(n) = w /\ Width(n) - Decimals = s
      BY <2>1, <2>2
    <3>3. assign_decimal(n) = Printed(n, w, s)
      BY <3>1, <3>2, Zenon
    <3> QED
      BY <3>3, Zenon DEF Printed
  <2>6. \A j \in 0 .. w - 1 : buf[j] = q[j + 1] % 10 /\ buf[j] \in 0..9
    <3> TAKE j \in 0 .. w - 1
    <3>1. /\ j \in 0 .. w + 3 /\ j < w /\ j + 1 \in 0..w
          /\ w - 1 - j = w - (j + 1)
      OBVIOUS
    <3>2. buf[j] = (n \div 10 ^ (w - (j + 1))) % 10
      BY <3>1, Zenon
    <3>3. q[j + 1] = n \div 10 ^ (w - (j + 1))
      BY <2>3, <3>1, Zenon
    <3>4. q[j + 1] % 10 \in 0..9
      <4>1. q[j + 1] \in Nat
        BY <2>4, <3>1
      <4> QED
        BY <4>1
    <3> QED
      BY <3>2, <3>3, <3>4, Zenon
  <2>7. buf = [j \in 0 .. w + 3 |-> buf[j]]
    BY Zenon
  <2> HIDE DEF buf
  <2>8. /\ moved[s] = Dot /\ moved[s + 1] = q[s + 1] % 10 /\ moved[s + 2] = q[s + 2] % 10
        /\ moved[s + 3] = NUL
        /\ \A j \in 0 .. s - 1 : moved[j] = q[j + 1] % 10
        /\ \A j \in 0 .. s + 2 : moved[j] # NUL
    <3>1. /\ s \in 0 .. w + 3 /\ s + 1 \in 0 .. w + 3 /\ s + 2 \in 0 .. w + 3
          /\ s + 3 \in 0 .. w + 3 /\ s \in 0 .. w - 1 /\ s + 1 \in 0 .. w - 1
          /\ 0 .. s - 1 \subseteq 0 .. w - 1 /\ 0 .. s - 1 \subseteq 0 .. w + 3
      BY <2>2
    <3>2. /\ moved[s] = Dot /\ moved[s + 1] = buf[s] /\ moved[s + 2] = buf[s + 1]
          /\ moved[s + 3] = NUL
      BY <2>7, <3>1
    <3>3. \A j \in 0 .. s - 1 : moved[j] = buf[j]
      <4> TAKE j \in 0 .. s - 1
      <4>1. j \in 0 .. w + 3 /\ j # s /\ j # s + 1 /\ j # s + 2 /\ j # s + 3
        BY <3>1
      <4> QED
        BY <2>7, <4>1, Zenon
    <3> HIDE DEF moved
    <3>4. buf[s] = q[s + 1] % 10 /\ buf[s + 1] = q[s + 2] % 10
          /\ buf[s] \in 0..9 /\ buf[s + 1] \in 0..9
      <4>1. (s + 1) + 1 = s + 2
        OBVIOUS
      <4> QED
        BY <2>6, <3>1, <4>1
    <3>5. \A j \in 0 .. s - 1 : moved[j] = q[j + 1] % 10 /\ moved[j] \in 0..9
      BY <2>6, <3>1, <3>3, Zenon
    <3>6. \A j \in 0 .. s + 2 : moved[j] # NUL
      <4> TAKE j \in 0 .. s + 2
      <4>1. j \in 0 .. s - 1 \/ j = s \/ j = s + 1 \/ j = s + 2
        OBVIOUS
      <4>2. moved[j] \in 0..10
        BY <3>2, <3>4, <3>5, <4>1 DEF Dot
      <4> QED
        BY <4>2 DEF NUL
    <3> QED
      BY <3>2, <3>4, <3>5, <3>6
  <2> HIDE DEF moved
  <2>9. end = s + 3
    <3>0. (s + 3) - 1 = s + 2 /\ s + 3 \in 0 .. w + 3
      BY <2>2
    <3>1. /\ s + 3 \in 0 .. w + 3 /\ moved[s + 3] = NUL
          /\ \A i \in 0 .. (s + 3) - 1 : moved[i] # NUL
      BY <2>8, <3>0
    <3>2. /\ end \in 0 .. w + 3 /\ moved[end] = NUL
          /\ \A i \in 0 .. end - 1 : moved[i] # NUL
      BY <3>1
    <3> HIDE DEF end
    <3> QED
      BY <3>1, <3>2
  <2> HIDE DEF end
  <2>10. [j \in 1 .. end |-> moved[j - 1]] = TextOf(q, s)
    <3>1. \A j \in 1 .. s + 3 :
            moved[j - 1] = IF j <= s THEN q[j] % 10
                           ELSE IF j = s + 1 THEN Dot ELSE q[j - 1] % 10
      <4> TAKE j \in 1 .. s + 3
      <4>1. CASE j \in 1..s
        <5>1. j - 1 \in 0 .. s - 1 /\ (j - 1) + 1 = j /\ j <= s
          BY <4>1
        <5> QED
          BY <2>8, <5>1
      <4>2. CASE j = s + 1
        BY <2>8, <4>2
      <4>3. CASE j = s + 2
        BY <2>8, <4>3
      <4>4. CASE j = s + 3
        BY <2>8, <4>4
      <4> QED
        BY <4>1, <4>2, <4>3, <4>4
    <3> QED
      BY <2>9, <3>1 DEF TextOf
  <2>11. /\ Len(TextOf(q, s)) = s + 3 /\ TextOf(q, s)[s + 1] = Dot
         /\ Hundredths(TextOf(q, s)) = q[s + 2]
    <3>1. w \in Nat
      OBVIOUS
    <3> QED
      BY <2>2, <2>4, <3>1, HundredthsOf
  <2>12. q[s + 2] = n \div 10 ^ (Decimals - 2)
    <3>1. s + 2 \in 0..w
      BY <2>2
    <3> QED
      BY <2>2, <2>3, <3>1, Zenon
  <2>13. (s + 3) - 2 = s + 1 /\ (IF s + 3 > w THEN s + 3 ELSE w) = w /\ w \in 1..10
    BY <2>2
  <2>14. /\ assign_decimal(n).text = TextOf(q, s)
         /\ assign_decimal(n).last = w
    BY <2>5, <2>10, <2>13
  <2>15. TextOf(q, s)[Len(TextOf(q, s)) - 2] = Dot
    BY <2>11, <2>13, Zenon
  <2> QED
    BY <2>11, <2>12, <2>13, <2>14, <2>15, Zenon
<1> QED
  BY <1>1, <1>2

LEMMA FeeRead == "fee" \in Variable
<1>1. Order[6] = "fee" /\ Len(Order) = 8
  BY DEF Order
<1> QED
  BY <1>1 DEF Variable

\* The balance and the traffic are the page's until they are shown.
FInv == /\ says["fee"] \in Fees \cup {0} /\ says["flow"] \in Flows \cup {0}
        /\ step = "print" => info["fee"] = says["fee"]
        /\ FeeShown

LEMMA InitFInv == PageInit \/ NoPage => FInv
<1> SUFFICES ASSUME PageInit \/ NoPage PROVE FInv
  OBVIOUS
<1>1. says = Zero /\ step \in {"get", "none"}
  BY DEF PageInit, NoPage
<1>2. "fee" \in Variable /\ "flow" \in Variable
  BY VariablesRead, FeeRead
<1> QED
  BY <1>1, <1>2 DEF FInv, FeeShown, Zero

\* What cmd_fee shows, from what has been read.
LEMMA FeeStep ==
  ASSUME PInv, FInv, cmd_fee
  PROVE  FeeShown'
<1>1. /\ step = "print" /\ step' = "done" /\ UNCHANGED <<command, k, info, says>>
      /\ command = "fee"
  BY DEF cmd_fee, Shows
<1> DEFINE flow == says["flow"]
           fee == says["fee"]
           over == flow - FreeFlow
           scale == 10 ^ (Decimals - 2)
           cost == assign_decimal(fee_cost(flow))
           left == assign_decimal(fee)
<1>2. info["flow"] = flow /\ info["fee"] = fee
  BY <1>1 DEF PInv, FInv
<1>3. /\ flow \in Nat /\ fee \in Nat /\ FreeFlow \in Nat /\ GB \in Nat \ {0}
      /\ FeePerGB \in Nat /\ FeeStrLen > 10 /\ FeeStrLen \in Nat
  BY FeeRead, VariablesRead, PageAssumption, FeesAssumption DEF PInv
<1>4. fee \div 10 ^ 9 < 10
  <2>1. CASE fee = 0
    BY <2>1
  <2>2. CASE fee \in Fees
    BY <2>2, FeesAssumption
  <2> QED
    BY <2>1, <2>2 DEF FInv
<1>5. /\ left.last \in 1..10
      /\ left.text = <<0>> \/ left.text[Len(left.text) - 2] = Dot
      /\ Hundredths(left.text) = fee \div scale
  BY <1>3, <1>4, DecimalText
<1> DEFINE Half(texts, last) ==
      /\ last < FeeStrLen
      /\ \A j \in 1 .. 2 : texts[j] = <<0>> \/ texts[j][Len(texts[j]) - 2] = Dot
      /\ Hundredths(texts[2]) = fee \div scale
      /\ Hundredths(texts[1]) =
           IF over < GB THEN 0 ELSE (FeePerGB * (over \div GB)) \div scale
<1>6. Half(shown', hi') => FeeShown'
  BY <1>1 DEF FeeShown
<1>7. CASE flow_over(flow) > 0
  <2>1. /\ shown' = <<cost.text, left.text>>
        /\ hi' = IF cost.last > left.last THEN cost.last ELSE left.last
    BY <1>2, <1>7, Zenon DEF cmd_fee, Shows
  <2>2. over > 0 /\ flow_over(flow) = over /\ flow # 0 /\ over \in Nat
    BY <1>3, <1>7 DEF flow_over
  <2>3. fee_cost(flow) = FeePerGB * (over \div GB) /\ fee_cost(flow) \in Nat
    <3>1. over \div GB \in Nat
      BY <1>3, <2>2
    <3>2. fee_cost(flow) = FeePerGB * (over \div GB)
      BY <2>2, Zenon DEF fee_cost
    <3>3. FeePerGB * (over \div GB) \in Nat
      BY <1>3, <3>1
    <3> QED
      BY <3>2, <3>3, Zenon
  <2>4. fee_cost(flow) \div 10 ^ 9 < 10
    <3>1. flow \in Flows
      BY <2>2 DEF FInv
    <3> QED
      BY <3>1, FeesAssumption
  <2>5. /\ cost.last \in 1..10
        /\ cost.text = <<0>> \/ cost.text[Len(cost.text) - 2] = Dot
        /\ Hundredths(cost.text) = fee_cost(flow) \div scale
    BY <2>3, <2>4, DecimalText
  <2>6. over < GB => fee_cost(flow) \div scale = 0
    <3>1. SUFFICES ASSUME over < GB PROVE fee_cost(flow) \div scale = 0
      OBVIOUS
    <3>2. \A a \in Nat, d \in Nat : a < d => a \div d = 0
      OBVIOUS
    <3>3. over \div GB = 0
      BY <1>3, <2>2, <3>1, <3>2
    <3>4. fee_cost(flow) = 0
      BY <1>3, <2>3, <3>3
    <3>5. scale \in Nat \ {0}
      BY ScaleIs
    <3>6. \A d \in Nat \ {0} : 0 \div d = 0
      OBVIOUS
    <3> QED
      BY <3>4, <3>5, <3>6, Zenon
  <2> HIDE DEF cost, left, scale, over
  <2>7. hi' < FeeStrLen
    BY <1>3, <1>5, <2>1, <2>5
  <2>8. shown'[1] = cost.text /\ shown'[2] = left.text
    BY <2>1
  <2>9. Half(shown', hi')
    <3>1. \A j \in 1..2 : shown'[j] = <<0>> \/ shown'[j][Len(shown'[j]) - 2] = Dot
      <4> TAKE j \in 1..2
      <4>1. CASE j = 1
        BY <2>5, <2>8, <4>1, Zenon
      <4>2. CASE j = 2
        BY <1>5, <2>8, <4>2, Zenon
      <4> QED
        BY <4>1, <4>2
    <3>2. Hundredths(shown'[2]) = fee \div scale
      BY <1>5, <2>8, Zenon
    <3>3. Hundredths(shown'[1]) = fee_cost(flow) \div scale
      BY <2>5, <2>8, Zenon
    <3>4. Hundredths(shown'[1]) =
            IF over < GB THEN 0 ELSE (FeePerGB * (over \div GB)) \div scale
      BY <2>3, <2>6, <3>3, Zenon
    <3> QED
      BY <2>7, <3>1, <3>2, <3>4, Zenon
  <2> QED
    BY <1>6, <2>9, Zenon DEF scale, over, left
<1>8. CASE ~(flow_over(flow) > 0)
  <2>1. shown' = << <<0>>, left.text>> /\ hi' = left.last
    BY <1>2, <1>8, Zenon DEF cmd_fee, Shows
  <2>2. over < GB
    BY <1>3, <1>8 DEF flow_over
  <2>3. Hundredths(<<0>>) = 0
    BY DEF Hundredths
  <2> HIDE DEF left, scale, over
  <2>4. hi' < FeeStrLen
    BY <1>3, <1>5, <2>1
  <2>5. shown'[1] = <<0>> /\ shown'[2] = left.text
    BY <2>1
  <2>6. Half(shown', hi')
    <3>1. \A j \in 1..2 : shown'[j] = <<0>> \/ shown'[j][Len(shown'[j]) - 2] = Dot
      <4> TAKE j \in 1..2
      <4>1. CASE j = 1
        BY <2>5, <4>1, Zenon
      <4>2. CASE j = 2
        BY <1>5, <2>5, <4>2, Zenon
      <4> QED
        BY <4>1, <4>2
    <3>2. Hundredths(shown'[2]) = fee \div scale
      BY <1>5, <2>5, Zenon
    <3>3. Hundredths(shown'[1]) = 0
      BY <2>3, <2>5, Zenon
    <3> QED
      BY <2>2, <2>4, <3>1, <3>2, <3>3, Zenon
  <2> QED
    BY <1>6, <2>6, Zenon DEF scale, over, left
<1> QED
  BY <1>7, <1>8

LEMMA StepFInv == PInv /\ FInv /\ [PageNext]_pageVars => FInv'
<1> SUFFICES ASSUME PInv, FInv, [PageNext]_pageVars PROVE FInv'
  OBVIOUS
<1>0. /\ info \in [Variable -> Nat] /\ says \in [Variable -> Nat]
      /\ k \in Nat \ {0}
  BY DEF PInv
<1>1. ASSUME UNCHANGED says, step' # "print", step' # "done" PROVE FInv'
  BY <1>1 DEF FInv, FeeShown
<1>2. CASE GetFails \/ GetPage \/ ExtractFails \/ Incomplete
  <2>1. step' \in {"failed", "incomplete", "login", "extract"} /\ UNCHANGED says
    BY <1>2 DEF GetFails, GetPage, ExtractFails, Incomplete
  <2> QED
    BY <1>1, <2>1
<1>3. ASSUME k <= Len(Order), NEW value \in Values(Order[k]), ExtractOk(value)
      PROVE  FInv'
  <2>1. /\ says' = [says EXCEPT ![Order[k]] = value] /\ step' = "extract"
    BY <1>3 DEF ExtractOk
  <2>2. "fee" \in Variable /\ "flow" \in Variable
    BY VariablesRead, FeeRead
  <2>3. /\ Order[k] = "fee" => value \in Fees
        /\ Order[k] = "flow" => value \in Flows
    BY <1>3 DEF Values
  <2>4. says'["fee"] \in Fees \cup {0} /\ says'["flow"] \in Flows \cup {0}
    BY <1>0, <2>1, <2>2, <2>3 DEF FInv
  <2> QED
    BY <2>1, <2>4 DEF FInv, FeeShown
<1>4. CASE ExtractDone
  <2>1. /\ info' = [info EXCEPT !["v6df"] = @ \div 4] /\ says' = says /\ info = says
        /\ step' = "print"
    BY <1>4 DEF ExtractDone, PInv
  <2>2. info'["fee"] = info["fee"]
    BY <1>0, <2>1, FeeRead
  <2> QED
    BY <2>1, <2>2 DEF FInv, FeeShown
<1>5. CASE InfoCrashes
  BY <1>1, <1>5 DEF InfoCrashes
<1>6. CASE info_print \/ cmd_whoami
  <2>1. /\ command # "fee" /\ UNCHANGED <<command, says>> /\ step' \in {"done", "failed"}
    BY <1>6 DEF info_print, cmd_whoami, Shows
  <2> QED
    BY <2>1 DEF FInv, FeeShown
<1>7. CASE cmd_fee
  <2>1. step' = "done" /\ UNCHANGED says
    BY <1>7 DEF cmd_fee, Shows
  <2>2. FeeShown'
    BY <1>7, FeeStep
  <2> QED
    BY <2>1, <2>2 DEF FInv
<1>8. CASE UNCHANGED pageVars
  BY <1>8 DEF pageVars, FInv, FeeShown
<1> QED
  BY <1>2, <1>3, <1>4, <1>5, <1>6, <1>7, <1>8 DEF PageNext

------------------------------------------------------------------------------
(* Commands: a step of one part leaves the other alone. *)

LEMMA CommandsAInv == CommandsSpec => []AInv
<1>1. cmd_parse => AInv
  BY InitAInv DEF cmd_parse
<1>2. AInv /\ [CommandsNext]_commandVars => AInv'
  BY StepAInv DEF CommandsNext, commandVars
<1> QED
  BY <1>1, <1>2, PTL DEF CommandsSpec

\* No text a command sends is cut: neither the path of a login, whatever lines
\* of the env file its name and password come from and whatever IPv6 address it
\* was told, nor the form of the device list, provided the page gives a check
\* code that fits its array; and ipv6_urlencode, which does not look at the size
\* of its buffer, stays inside.
THEOREM CommandsTextsWhole == CommandsSpec => []TextsWhole
<1>1. AInv => TextsWhole
  <2> SUFFICES ASSUME AInv, ~wild
               PROVE  /\ text = whole
                      /\ encoded < EncodedLen
                      /\ \A v \in Name : file[v] < InfoVarLen => account[v] = file[v]
    BY DEF TextsWhole
  <2>1. text = whole
    BY DEF AInv
  <2>2. encoded < EncodedLen
    <3>1. /\ encoded + remain <= InfoVarLen - 1 + 2 * colons /\ colons <= MaxColons
          /\ encoded \in Nat /\ remain \in Nat /\ colons \in Nat
      BY DEF AInv, EncodedSoFar, AccountType
    <3> QED
      BY <3>1, AccountAssumption, SizesAssumption
  <2>3. \A v \in Name : file[v] < InfoVarLen => account[v] = file[v]
    BY CutBounds, AccountAssumption DEF AInv, AccountIsCut, AccountType
  <2> QED
    BY <2>1, <2>2, <2>3
<1> QED
  BY <1>1, CommandsAInv, PTL

\* No part of the requests that carry those texts is cut either.
THEOREM CommandsRequestWhole == CommandsSpec => []RequestWhole
<1>1. AInv => RequestWhole
  BY DEF AInv, RInv
<1> QED
  BY <1>1, CommandsAInv, PTL

\* The rate cmd_info shows is the share of a quarter of the page's IPv6 counter
\* in all traffic, rounded down, and its division by zero happens only if there
\* was no traffic.
THEOREM CommandsShareShown == CommandsSpec => []ShareShown
<1>1. cmd_parse => PInv
  BY InitPInv DEF cmd_parse
<1>2. PInv /\ [CommandsNext]_commandVars => PInv'
  BY StepPInv DEF CommandsNext, commandVars
<1> QED
  BY <1>1, <1>2, PInvShows, PTL DEF CommandsSpec

\* What cmd_fee shows of the balance and of the cost is their value in money,
\* cut to two decimals, whatever the page says of them; and it stays in fee_str.
THEOREM CommandsFeeShown == CommandsSpec => []FeeShown
<1>1. cmd_parse => PInv /\ FInv
  BY InitPInv, InitFInv DEF cmd_parse
<1>2. PInv /\ FInv /\ [CommandsNext]_commandVars => PInv' /\ FInv'
  BY StepPInv, StepFInv DEF CommandsNext, commandVars
<1>3. FInv => FeeShown
  BY DEF FInv
<1> QED
  BY <1>1, <1>2, <1>3, PTL DEF CommandsSpec
=============================================================================
