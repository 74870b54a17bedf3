------------------------------ MODULE HttpBody ------------------------------
(***************************************************************************)
(* src/net/http.c: http_body, http_chuncked_body and http_content_body,    *)
(* which fill the body buffer of an http_t, response after response.  The  *)
(* buffer is that of GBuff, whose operations are taken as they are; of the *)
(* trunk, the buffer lines and chunks are read into, the capacity and the  *)
(* bytes of the chunk.  Lengths are size_t, modulo W.  The server          *)
(* announces what it likes, sends lines of any length and may go away at   *)
(* any point; every allocation may fail.                                   *)
(*                                                                         *)
(* What the code does once it has written outside a block is not known:    *)
(* pc is then "wild" for good, and odd says what the server had sent.      *)
(***************************************************************************)
EXTENDS GBuff

CONSTANTS W,           \* 2^64
          MaxAlloc,    \* PTRDIFF_MAX: no block is larger
          BodySize,    \* MAX_BUF_SIZE, the first size of the body buffer
          TrunkSize,   \* MAX_TRUNK_SIZE, that of a trunk
          Lengths,     \* what atol may make of a Content-Length
          Sizes,       \* what strtoul may make of a size line
          None,        \* there is no such header, or no number in the line
          LineLens,    \* bound: how long lines are, with their "\r\n"
          MaxChunk,    \* bound: the bytes one http_read gets
          MaxChunks,   \* bound: size lines of a response
          MaxResponses \* bound: responses read with one http_t

ASSUME BodyAssumption == /\ W \in Nat /\ MaxAlloc \in Nat
                         /\ 2 * MaxAlloc + 2 <= W
                         /\ BodySize \in 1..MaxAlloc
                         /\ TrunkSize \in 1..MaxAlloc
                         /\ Lengths \subseteq -W..W-1 /\ None \notin Lengths
                         /\ Sizes \subseteq 0..W-1 /\ None \notin Sizes
                         /\ LineLens \subseteq Nat \ {0}
                         /\ MaxChunk \in Nat
                         /\ MaxChunks \in Nat
                         /\ MaxResponses \in Nat

VARIABLES pc,        \* where http_body is; "idle" between responses
          tcap,      \* trunk->cap, 0 without a trunk
          trunk,     \* the bytes of the chunk being copied
          trunks,    \* heap blocks of trunks
          announced, \* header_content_length, or chunk_len
          eof,       \* the connection has ended or failed
          bodyHi,    \* the highest index of the body that was last read into,
          trunkHi,   \* and of the trunk; -1 for none
          kind,      \* the response read last: "none", "chunked", "content"
          result,    \* what http_body returned for it: "none", "ok", "fail"
          \* history
          want,      \* the body the server has sent so far
          complete,  \* and has sent to its end
          odd,       \* what it sent that this code is not made for
          chunks,    \* size lines read
          responses  \* responses begun

ownVars == <<tcap, trunk, trunks, announced, eof, bodyHi, trunkHi,
             kind, want, complete, odd, chunks, responses>>
bodyVars == <<vars, pc, result, ownVars>>

PC == {"elsewhere", "idle", "init", "size", "room", "chunk", "grow", "put",
       "tail", "last", "end", "fail", "content", "read", "wild", "aborted"}

Odd == {"no length", \* neither chunks nor a Content-Length
        "wraps",     \* a length for which the room to ask for is 2^64 or more
        "long line", \* a line that fills the trunk
        "no size"}   \* a size line without a number, or one the end of the
                     \* connection has cut and that now reads as 0

\* http_init has allocated the body buffer.
BodyInit == /\ data = [k \in 0..BodySize-1 |-> NUL]
            /\ len = 0 /\ cap = BodySize
            /\ place = "heap" /\ blocks = 1
            /\ hi = -1 /\ op = "init" /\ ret = 0
            /\ pc = "idle" /\ tcap = 0 /\ trunk = <<>> /\ trunks = 0
            /\ announced = 0 /\ eof = FALSE /\ bodyHi = -1 /\ trunkHi = -1
            /\ kind = "none" /\ result = "none"
            /\ want = <<>> /\ complete = FALSE /\ odd = {}
            /\ chunks = 0 /\ responses = 0

\* As a size_t: modulo 2^64, for a sum or the negative of a size.
SizeT(n) == IF n < 0 THEN n + W ELSE IF n >= W THEN n - W ELSE n

GoTo(next) == pc' = next /\ UNCHANGED result

Return(r) == pc' = "idle" /\ result' = r

\* Mutant: the buffer is not cleared
http_body_Appends(k) ==
  /\ pc = "idle" /\ responses < MaxResponses
  /\ pc' = IF k = "chunked" THEN "init" ELSE "content"
  /\ kind' = k /\ result' = "none"
  /\ eof' \in BOOLEAN
  /\ bodyHi' = -1
  /\ want' = <<>> /\ complete' = FALSE /\ odd' = {} /\ chunks' = 0
  /\ responses' = responses + 1
  /\ UNCHANGED <<vars, tcap, trunk, trunks, announced, trunkHi>>

\* The header section was read, perhaps to the end of the connection: clear
\* the buffer, look at Transfer-Encoding.
http_body(k) ==
  /\ pc = "idle" /\ responses < MaxResponses
  /\ gbuff_clear
  /\ pc' = IF k = "chunked" THEN "init" ELSE "content"
  /\ kind' = k /\ result' = "none"
  /\ eof' \in BOOLEAN
  /\ bodyHi' = -1
  /\ want' = <<>> /\ complete' = FALSE /\ odd' = {} /\ chunks' = 0
  /\ responses' = responses + 1
  /\ UNCHANGED <<tcap, trunk, trunks, announced, trunkHi>>

------------------------------------------------------------------------------
(* http_read, http_readline *)

\* http_read(n) gets b and returns res: fewer than n bytes, or an error, only
\* when the connection ends or fails.
http_read(b, res, n) ==
  /\ Len(b) <= n /\ Len(b) <= MaxChunk
  /\ eof => b = <<>>
  /\ res = Len(b) \/ (res = -1 /\ b = <<>> /\ n > 0)
  /\ eof' = (eof \/ Len(b) < n)

\* res == len: a ssize_t compared with a size_t.
Agrees(res) == SizeT(res) = announced

\* http_readline into the trunk: of a line of n bytes, m arrive, and a '\0' is
\* written behind those that fit.
NulAt(m) == IF m < tcap THEN m ELSE tcap

http_readline(n, m, next) ==
  /\ m \in 0..n
  /\ eof => m = 0
  /\ eof' = (eof \/ m < n)
  /\ trunkHi' = NulAt(m)
  /\ GoTo(IF NulAt(m) < tcap THEN next ELSE "wild")

LongLine(n) == IF n >= tcap THEN {"long line"} ELSE {}

------------------------------------------------------------------------------
(* http_chuncked_body *)

TrunkInit ==
  /\ pc = "init"
  /\ \/ tcap' = TrunkSize /\ trunks' = trunks + 1 /\ GoTo("size")
     \/ Return("fail") /\ UNCHANGED <<tcap, trunks>>
  /\ trunkHi' = -1
  /\ UNCHANGED <<vars, trunk, announced, eof, bodyHi,
                 kind, want, complete, odd, chunks, responses>>

\* strtoul, of what has arrived of a line with size s.
Number(s, n, m) == CASE m = n /\ s # None -> {s}
                     [] m < n /\ s # None -> 0..s
                     [] OTHER -> {0}

NoSize(s, n, m, c) ==
  IF c = 0 /\ ~(s = 0 /\ m = n) THEN {"no size"} ELSE {}

SizeWraps(c) == IF c + 2 >= W THEN {"wraps"} ELSE {}

\* The size line is read; 0 is the last chunk, or no number.
SizeLine(s, n, m, c) ==
  /\ pc = "size" /\ chunks < MaxChunks
  /\ http_readline(n, m, IF m = 0 THEN "fail"
                         ELSE IF c = 0 THEN "last" ELSE "room")
  /\ announced' = c
  /\ chunks' = chunks + 1
  /\ complete' = (s = 0 /\ m = n)
  /\ odd' = odd \cup LongLine(n) \cup NoSize(s, n, m, c) \cup SizeWraps(c)
  /\ UNCHANGED <<vars, tcap, trunk, trunks, bodyHi, kind, want, responses>>

\* gbuff_ensure(trunk, chunk_len + 2)
TrunkRoom == SizeT(announced + 2)

GrowTrunk ==
  /\ pc = "room"
  /\ \/ tcap >= TrunkRoom /\ GoTo("chunk") /\ UNCHANGED tcap
     \/ tcap < TrunkRoom /\ TrunkRoom <= MaxAlloc
          /\ tcap' = TrunkRoom /\ GoTo("chunk")
     \/ tcap < TrunkRoom /\ GoTo("fail") /\ UNCHANGED tcap
  /\ UNCHANGED <<vars, trunk, trunks, announced, eof, bodyHi, trunkHi,
                 kind, want, complete, odd, chunks, responses>>

\* The bytes of the chunk, all of them or what came before the end.
ReadChunk(b, res) ==
  /\ pc = "chunk"
  /\ http_read(b, res, announced)
  /\ trunk' = b
  /\ trunkHi' = Len(b) - 1
  /\ want' = want \o b
  /\ GoTo(IF Len(b) > tcap THEN "wild" ELSE IF Agrees(res) THEN "grow" ELSE "fail")
  /\ UNCHANGED <<vars, tcap, trunks, announced, bodyHi, kind, complete, odd,
                 chunks, responses>>

RoomFor == SizeT(len + announced + 1)

GrowBody ==
  /\ pc = "grow"
  /\ gbuff_ensure(RoomFor) /\ cap' <= MaxAlloc
  /\ GoTo(IF ret' = 0 THEN "put" ELSE "fail")
  /\ UNCHANGED ownVars

PutChunk ==
  /\ pc = "put" /\ Len(trunk) = announced
  /\ gbuff_put(trunk)
  /\ GoTo(IF ret' < 0 THEN "fail" ELSE "tail")
  /\ UNCHANGED ownVars

\* chunk_len is not what was read, but the -1 of a failed read: memcpy runs
\* through all memory if the wrapped sum looks as if it fits.
PutWraps ==
  /\ pc = "put" /\ Len(trunk) # announced
  /\ IF SizeT(len + announced) < cap
     THEN bodyHi' = len + announced - 1 /\ GoTo("wild")
     ELSE GoTo("fail") /\ UNCHANGED bodyHi
  /\ UNCHANGED <<vars, tcap, trunk, trunks, announced, eof, trunkHi,
                 kind, want, complete, odd, chunks, responses>>

\* The line after the chunk; assert(n == 2)
ReadTail(n, m) ==
  /\ pc = "tail"
  /\ http_readline(n, m, IF m # 2 /\ ~NDebug THEN "aborted" ELSE "size")
  /\ odd' = odd \cup LongLine(n)
  /\ UNCHANGED <<vars, tcap, trunk, trunks, announced, bodyHi,
                 kind, want, complete, chunks, responses>>

\* The line after the last chunk, whatever it is.
LastLine(n, m) ==
  /\ pc = "last"
  /\ http_readline(n, m, "end")
  /\ odd' = odd \cup LongLine(n)
  /\ UNCHANGED <<vars, tcap, trunk, trunks, announced, bodyHi,
                 kind, want, complete, chunks, responses>>

\* gbuff_free(trunk), which frees in a debug build only (BlocksAfterFree)
FreeTrunk == /\ trunks' = IF NDebug THEN trunks ELSE trunks - 1
             /\ tcap' = 0 /\ trunk' = <<>> /\ trunkHi' = -1

\* gbuff_appendf(body, ""); its result is ignored.
EndChunked ==
  /\ pc = "end"
  /\ FreeTrunk
  /\ gbuff_appendf(<<>>)
  /\ Return("ok")
  /\ UNCHANGED <<announced, eof, bodyHi, kind, want, complete, odd, chunks, responses>>

\* Mutant: the trunk is freed only on success
Fail_NoFree ==
  /\ pc = "fail"
  /\ tcap' = 0 /\ trunk' = <<>> /\ trunkHi' = -1
  /\ Return("fail")
  /\ UNCHANGED <<vars, trunks, announced, eof, bodyHi,
                 kind, want, complete, odd, chunks, responses>>

\* fail: gbuff_free(trunk)
Fail ==
  /\ pc = "fail"
  /\ FreeTrunk
  /\ Return("fail")
  /\ UNCHANGED <<vars, announced, eof, bodyHi,
                 kind, want, complete, odd, chunks, responses>>

------------------------------------------------------------------------------
(* http_content_body *)

\* A long becomes a size_t; without a header the length is 0.
header_content_length(h) == IF h = None THEN 0 ELSE SizeT(h)

\* Mutant: the '\0' is forgotten
ContentRoom_Bytes(n) == n

ContentRoom(n) == SizeT(n + 1)

NoLength(h) == IF h = None THEN {"no length"} ELSE {}

ContentWraps(n) == IF n + 1 >= W THEN {"wraps"} ELSE {}

GrowContent(h) ==
  /\ pc = "content"
  /\ announced' = header_content_length(h)
  /\ gbuff_ensure(ContentRoom(announced')) /\ cap' <= MaxAlloc
  /\ IF ret' = 0 THEN GoTo("read") ELSE Return("fail")
  /\ odd' = odd \cup NoLength(h) \cup ContentWraps(announced')
  /\ UNCHANGED <<tcap, trunk, trunks, eof, bodyHi, trunkHi,
                 kind, want, complete, chunks, responses>>

\* Mutant: data[len] is not written
WithEnd_Not(b) == b

WithEnd(b) == b \o <<NUL>>

\* What is read goes past the operations of gbuff; data[len] = '\0'.
ReadContent(b, res) ==
  /\ pc = "read"
  /\ http_read(b, res, announced) /\ Agrees(res)
  /\ want' = b /\ complete' = (Len(b) = announced)
  /\ bodyHi' = announced
  /\ op' = "read" /\ ret' = 0 /\ hi' = -1
  /\ IF announced < cap
     THEN /\ data' = CopyIn(data, 0, WithEnd(b))
          /\ len' = announced
          /\ Return("ok")
     ELSE GoTo("wild") /\ UNCHANGED <<data, len>>
  /\ UNCHANGED <<cap, place, blocks, tcap, trunk, trunks, announced, trunkHi,
                 kind, odd, chunks, responses>>

\* The connection ended before: what was read stays, but is not counted.
ContentFails(b, res) ==
  /\ pc = "read"
  /\ http_read(b, res, announced) /\ ~Agrees(res)
  /\ want' = b
  /\ bodyHi' = Len(b) - 1
  /\ op' = "read" /\ ret' = -1 /\ hi' = -1
  /\ IF Len(b) <= cap
     THEN data' = CopyIn(data, 0, b) /\ Return("fail")
     ELSE GoTo("wild") /\ UNCHANGED data
  /\ UNCHANGED <<len, cap, place, blocks, tcap, trunk, trunks, announced, trunkHi,
                 kind, complete, odd, chunks, responses>>

BodyNext ==
  \/ \E k \in {"chunked", "content"} : http_body(k)
  \/ TrunkInit \/ GrowTrunk \/ GrowBody \/ PutChunk \/ PutWraps
  \/ EndChunked \/ Fail
  \/ \E n \in LineLens : \E m \in 0..n :
       \/ ReadTail(n, m) \/ LastLine(n, m)
       \/ \E s \in Sizes \cup {None} : \E c \in Number(s, n, m) : SizeLine(s, n, m, c)
  \/ \E h \in Lengths \cup {None} : GrowContent(h)
  \/ \E b \in Bytes : \E res \in {Len(b), -1} :
       ReadChunk(b, res) \/ ReadContent(b, res) \/ ContentFails(b, res)

BodySpec == BodyInit /\ [][BodyNext]_bodyVars

------------------------------------------------------------------------------
(* The buffers of the program: the body of an http_t, or one that any other  *)
(* caller uses as it likes.                                                  *)

Elsewhere == /\ pc = "elsewhere" /\ tcap = 0 /\ trunk = <<>> /\ trunks = 0
             /\ announced = 0 /\ eof = FALSE /\ bodyHi = -1 /\ trunkHi = -1
             /\ kind = "none" /\ result = "none"
             /\ want = <<>> /\ complete = FALSE /\ odd = {}
             /\ chunks = 0 /\ responses = 0

BuffersInit == BodyInit \/ (Init /\ Elsewhere)

BuffersNext == \/ BodyNext
               \/ pc = "elsewhere" /\ Next /\ UNCHANGED <<pc, result, ownVars>>

BuffersSpec == BuffersInit /\ [][BuffersNext]_bodyVars

------------------------------------------------------------------------------

\* Types, and the shape every operation of the buffer relies on, also after
\* the writes http_content_body makes past them.
BodyTypeOK == /\ cap \in 1..MaxAlloc /\ len \in Nat /\ len < cap
              /\ data \in [0..cap-1 -> Byte]
              /\ place = "heap"
              /\ hi \in Int /\ bodyHi \in Int /\ trunkHi \in Int
              /\ pc \in PC \ {"elsewhere"}
              /\ tcap \in 0..MaxAlloc
              /\ trunk \in Seq(Byte)
              /\ trunks \in Nat
              /\ announced \in 0..W-1
              /\ eof \in BOOLEAN
              /\ kind \in {"none", "chunked", "content"}
              /\ result \in {"none", "ok", "fail"}
              /\ want \in Seq(Byte)
              /\ complete \in BOOLEAN
              /\ odd \subseteq Odd

\* Every write of http_body, and of what it calls, stays in its block: in the
\* body's, also behind the operations of gbuff, and in the trunk's, also the
\* '\0' of http_readline; as long as the server announces no length whose room
\* wraps around and sends no line that fills the trunk.
BodyInBounds == odd \cap {"wraps", "long line"} = {} =>
                  pc # "wild" /\ hi < cap /\ bodyHi < cap /\ trunkHi < tcap

\* A body returned as good is the response's: the server had sent it to its
\* end, and it is the chunks put together, or the content, of this response
\* only, whatever responses and failures came before; no byte is lost or cut
\* where a buffer had to grow.  Nothing is promised for what is in Odd.
BodyWhole == result = "ok" /\ odd = {} => complete /\ Text = want

\* The room asked for a chunk is enough: gbuff_put never refuses a chunk that
\* gbuff_ensure made room for.
RoomForChunk == pc = "put" /\ Len(trunk) = announced => Fits(Len(trunk))

\* In a debug build no path, good or bad, keeps a trunk.
TrunkFreed == pc = "idle" /\ ~NDebug => trunks = 0

\* Content is a C string when it is returned, and so are chunks if the buffer
\* has a byte more than they need.
ContentTerminated ==
  result = "ok" /\ (kind = "content" \/ len + 1 < cap) => data[len] = NUL

\* src/net/http.c:395: "null-terminate".  Said here of a whole, regular body.
ChunksTerminated == result = "ok" /\ odd = {} => data[len] = NUL
=============================================================================
