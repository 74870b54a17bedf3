---------------------------- MODULE HttpSection ----------------------------
(***************************************************************************)
(* src/net/http.c: http_section, which reads a response up to the blank    *)
(* line with one http_readline per line and one read per byte, and what    *)
(* http_headers then finds in the buffer.  The server may send anything,   *)
(* and the connection may end after any byte.                              *)
(***************************************************************************)
EXTENDS Integers, Sequences, FiniteSets

CONSTANTS Other,   \* bytes other than CR, LF and NUL
          CR, LF,
          MaxSent, \* bound: bytes the server sends before the connection ends
          MaxLen,  \* maxlen, the size of the buffer
          SizeMax  \* SIZE_MAX

ASSUME SectionAssumption == /\ CR # LF /\ CR \notin Other /\ LF \notin Other
                            /\ MaxSent \in Nat
                            /\ MaxLen \in Nat \ {0}
                            /\ SizeMax \in Nat /\ SizeMax > MaxSent

Byte == Other \cup {CR, LF}

VARIABLES sent,  \* all the server sends
          read,  \* how many of its bytes have been read
          buf,   \* the bytes stored
          used,  \* where the line being read begins in buf
          flag,  \* the last byte of the line was CR: 0, 1
          count, \* line_count
          hi,    \* the highest index of the buffer written
          pc     \* "line": in http_readline; "done": http_section returned

vars == <<sent, read, buf, used, flag, count, hi, pc>>

Init == /\ sent \in UNION {[1..n -> Byte] : n \in 0..MaxSent}
        /\ read = 0 /\ buf = <<>> /\ used = 0 /\ flag = 0 /\ count = 0
        /\ hi = -1 /\ pc = "line"

------------------------------------------------------------------------------

\* line_count, a size_t, after a line of length len
Ended(len) == CASE len = 0 -> count
                [] len = 2 -> IF count = 0 THEN SizeMax ELSE count - 1
                [] OTHER   -> count + 1

\* *p = '\0'
Terminator(b) == Len(b)

\* http_readline returns, with b stored, and http_section looks at the length.
LineEnds(b) ==
  /\ buf' = b
  /\ hi' = Terminator(b)
  /\ count' = Ended(Len(b) - used)
  /\ pc' = IF Len(b) - used \in {0, 2} THEN "done" ELSE "line"
  /\ used' = Len(b)
  /\ flag' = 0

\* Mutant: flag is not reset
FlagAfter_Sticky(c) == IF c = CR THEN 1 ELSE flag

FlagAfter(c) == IF c = CR THEN 1 ELSE 0

\* Mutant: a limit for each line
Fits_PerLine == Len(buf) - used < MaxLen \div 2

\* p - buf < maxlen, where http_section passes what is left of its buffer
Fits == Len(buf) < MaxLen

\* A byte that fits.
Store ==
  /\ pc = "line"
  /\ read < Len(sent) /\ Fits
  /\ read' = read + 1
  /\ LET c == sent[read + 1] IN
       IF flag = 1 /\ c = LF
       THEN LineEnds(Append(buf, c))
       ELSE /\ buf' = Append(buf, c)
            /\ hi' = Len(buf)
            /\ flag' = FlagAfter(c)
            /\ UNCHANGED <<used, count, pc>>
  /\ UNCHANGED sent

\* The buffer is full: the byte is read and dropped.
Drop ==
  /\ pc = "line"
  /\ read < Len(sent) /\ ~Fits
  /\ read' = read + 1
  /\ LineEnds(buf)
  /\ UNCHANGED sent

\* The connection ended.
Eof ==
  /\ pc = "line"
  /\ read = Len(sent)
  /\ LineEnds(buf)
  /\ UNCHANGED <<sent, read>>

Next == Store \/ Drop \/ Eof

Spec == Init /\ [][Next]_vars

------------------------------------------------------------------------------

\* The CRLFs of s, each by the place of its CR.
Crlf(s) == {k \in 1 .. Len(s) - 1 : s[k] = CR /\ s[k + 1] = LF}

\* Those that end an empty line.
Blank(s) == {k \in Crlf(s) : k = 1 \/ k - 2 \in Crlf(s)}

\* The header lines http_headers finds in s: ended by CRLF, after the status
\* line, before the first empty line.
HeaderLines(s) ==
  Cardinality({k \in Crlf(s) : /\ \E j \in Crlf(s) : j < k
                               /\ \A j \in Blank(s) : j # 1 => k < j})

\* Where the header section of the response ends: with its first blank line,
\* provided there is one and there is a status line before it.
Complete == Blank(sent) # {} /\ 1 \notin Blank(sent)
SectionEnd == (CHOOSE k \in Blank(sent) : \A j \in Blank(sent) : k <= j) + 1

TypeOK == /\ sent \in Seq(Byte) /\ Len(sent) <= MaxSent
          /\ read \in 0..Len(sent)
          /\ buf \in Seq(Byte)
          /\ used \in 0..Len(buf)
          /\ flag \in {0, 1}
          /\ count \in 0..MaxSent \cup {SizeMax}
          /\ hi \in -1..MaxLen
          /\ pc \in {"line", "done"}

\* A header section that fits in the buffer is read exactly: every byte of it,
\* none of the body that follows, and the lines counted are the entries
\* http_headers will fill in.  CRs and LFs that do not end a line are text.  The
\* '\0' behind it is in the buffer unless the section fills it.
SectionWhole == pc = "done" /\ Complete /\ SectionEnd <= MaxLen =>
  /\ buf = SubSeq(sent, 1, SectionEnd)
  /\ read = SectionEnd
  /\ count = HeaderLines(buf)
  /\ SectionEnd < MaxLen => hi < MaxLen

\* Whatever the server sends, what is stored are the bytes sent, in order,
\* without a gap: only the end of a section can be missing.
PrefixStored == buf = SubSeq(sent, 1, Len(buf))
=============================================================================
