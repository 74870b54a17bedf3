----------------------------- MODULE Cookiejar -----------------------------
(***************************************************************************)
(* src/net/cookiejar.c: a Set-Cookie header is cut into key and value by   *)
(* cookiejar_from_header, and cookiejar_add appends the pair to the text   *)
(* sent as the Cookie header.  The text is a gbuff_t, taken here as what   *)
(* GBuff shows it to be: a text shorter than its limit.  Memory may run    *)
(* out, which cookiejar_add does not look at.                              *)
(***************************************************************************)
EXTENDS Integers, Sequences, SequencesExt

CONSTANTS Letter,     \* characters without a meaning
          Sp, Eq,     \* ' ', '='
          Semi,       \* ';' (and, in a header, a lone CR or LF)
          JarSize,    \* maxlen of cookiejar_init
          MaxLine,    \* bound: length of the first header, later ones are shorter
          MaxCookies  \* bound: headers with a cookie

ASSUME CookieAssumption == /\ Sp # Eq /\ Sp # Semi /\ Eq # Semi
                           /\ {Sp, Eq, Semi} \cap Letter = {}
                           /\ JarSize \in Nat \ {0}
                           /\ MaxLine \in Nat /\ MaxCookies \in Nat

Char == Letter \cup {Sp, Eq, Semi}

VARIABLES text,    \* cookiejar->str, its text
          cap,     \* and its limit
          count,   \* cookiejar->count
          pc,      \* "idle", or where cookiejar_add is: "ensure", "append"
          line,    \* the header being cut, behind "set-cookie:"
          key, value,
          cookies, \* history: the pairs added
          short    \* history: memory ran out

vars == <<text, cap, count, pc, line, key, value, cookies, short>>

Init == /\ text = <<>> /\ cap = JarSize /\ count = 0
        /\ pc = "idle" /\ line = <<>> /\ key = <<>> /\ value = <<>>
        /\ cookies = <<>> /\ short = FALSE

------------------------------------------------------------------------------
(* cookiejar_from_header *)

SkipLeft(s, c) ==
  LET k == SelectInSeq(s, LAMBDA d : d # c)
  IN  IF k = 0 THEN <<>> ELSE SubSeq(s, k, Len(s))

CutRight(s, c) == SubSeq(s, 1, SelectLastInSeq(s, LAMBDA d : d # c))

\* Up to the first c, or all of it.
Before(s, c) ==
  LET k == SelectInSeq(s, LAMBDA d : d = c)
  IN  IF k = 0 THEN s ELSE SubSeq(s, 1, k - 1)

After(s, c) == SubSeq(s, SelectInSeq(s, LAMBDA d : d = c) + 1, Len(s))

\* Mutant: spaces before the '=' are kept
KeyOf_Untrimmed(p) == Before(p, Eq)

KeyOf(p) == CutRight(Before(p, Eq), Sp)

\* What is cut off at the end of the value are '='s.
ValueOf(p) == CutRight(Before(SkipLeft(After(p, Eq), Sp), Semi), Eq)

\* Mutant: the blocks are as long as what follows the first character
BlockSize_Short(p) == Len(p) - 1

\* alloca(strlen(p)), for the key and for the value
BlockSize(p) == Len(p)

HasPair(h) == \E k \in DOMAIN h : h[k] = Eq

cookiejar_from_header(h) ==
  /\ pc = "idle" /\ Len(cookies) < MaxCookies
  /\ HasPair(h)
  /\ line' = h
  /\ key' = KeyOf(SkipLeft(h, Sp))
  /\ value' = ValueOf(SkipLeft(h, Sp))
  /\ pc' = "ensure"
  /\ UNCHANGED <<text, cap, count, cookies, short>>

\* Malformed: the header is skipped.
NoPair(h) ==
  /\ pc = "idle" /\ ~HasPair(h)
  /\ UNCHANGED vars

------------------------------------------------------------------------------
(* cookiejar_add *)

\* Mutant: the '\0' is forgotten
AppendLen_Short == Len(key) + Len(value) + 3

AppendLen == Len(key) + Len(value) + 4

Ensure ==
  /\ pc = "ensure"
  /\ pc' = "append"
  /\ LET size == Len(text) + AppendLen IN
       \/ cap >= size /\ UNCHANGED <<cap, short>>
       \/ cap < size /\ cap' = size /\ UNCHANGED short
       \/ cap < size /\ short' = TRUE /\ UNCHANGED cap
  /\ line' = <<>>
  /\ UNCHANGED <<text, count, key, value, cookies>>

\* gbuff_appendf puts what fits, and nothing if no place is left.
Room == cap - 1 - Len(text)

Pair == key \o <<Eq>> \o value

Separated(s) == IF count <= 0 THEN s ELSE <<Semi, Sp>> \o s

AppendPair ==
  /\ pc = "append"
  /\ LET s == Separated(Pair)
     IN  text' = text \o SubSeq(s, 1, IF Len(s) < Room THEN Len(s) ELSE Room)
  /\ count' = count + 1
  /\ cookies' = Append(cookies, <<key, value>>)
  /\ pc' = "idle"
  /\ UNCHANGED <<cap, line, key, value, short>>

Lines == UNION {[1..n -> Char] : n \in 0 .. MaxLine \div (Len(cookies) + 1)}

Next == \/ \E h \in Lines : cookiejar_from_header(h) \/ NoPair(h)
        \/ Ensure \/ AppendPair

Spec == Init /\ [][Next]_vars

------------------------------------------------------------------------------

TypeOK == /\ text \in Seq(Char) /\ key \in Seq(Char) /\ value \in Seq(Char)
          /\ line \in Seq(Char)
          /\ cap \in Nat /\ Len(text) < cap
          /\ count \in Nat
          /\ pc \in {"idle", "ensure", "append"}
          /\ cookies \in Seq(Seq(Char) \X Seq(Char))
          /\ short \in BOOLEAN

\* While memory lasts, the header sent is every cookie set, in order, whole:
\* the room asked for is enough for the pair, its separator and the '\0'.
Joined(cs) ==
  LET first[k \in 0 .. Len(cs)] ==
        IF k = 0 THEN <<>>
        ELSE (IF k = 1 THEN <<>> ELSE first[k - 1] \o <<Semi, Sp>>)
               \o cs[k][1] \o <<Eq>> \o cs[k][2]
  IN  first[Len(cs)]
JarWhole == pc = "idle" /\ ~short => text = Joined(cookies)

\* Key and value, each with its '\0', fit in the blocks they are copied into.
CopiesFit == pc = "ensure" =>
  LET size == BlockSize(SkipLeft(line, Sp))
  IN  Len(key) < size /\ Len(value) < size

\* A header is Sp* k Sp* = Sp* v, and then nothing or a ';' and anything.  Its
\* cookie is found exactly, unless its value ends with a space or a '='.
Blanks(s) == \A k \in DOMAIN s : s[k] = Sp
Trimmed(s) == s = <<>> \/ (s[1] # Sp /\ s[Len(s)] # Sp)
Part(a, b) == SubSeq(line, a, b)
Splits(k1, k2, e, v1, v2) ==
  /\ Blanks(Part(1, k1 - 1)) /\ Trimmed(Part(k1, k2)) /\ Blanks(Part(k2 + 1, e - 1))
  /\ Blanks(Part(e + 1, v1 - 1)) /\ Trimmed(Part(v1, v2))
  /\ \A k \in v1 .. v2 : line[k] # Semi
  /\ v2 < Len(line) => line[v2 + 1] = Semi
FirstEq == {e \in DOMAIN line : line[e] = Eq /\ \A k \in 1 .. e - 1 : line[k] # Eq}
ParsesCookie == pc = "ensure" =>
  \A e \in FirstEq : \A k2 \in 0 .. e - 1, v1 \in e + 1 .. Len(line) + 1 :
    \A k1 \in 1 .. k2 + 1, v2 \in v1 - 1 .. Len(line) :
      Splits(k1, k2, e, v1, v2) /\ (v1 <= v2 => line[v2] # Eq) =>
        key = Part(k1, k2) /\ value = Part(v1, v2)
=============================================================================
