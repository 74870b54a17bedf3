-------------------------------- MODULE GBuff --------------------------------
(***************************************************************************)
(* lib/gbuff.c: the growable text buffer every other part is built on.     *)
(* One buffer is modelled through its life: allocated on the heap          *)
(* (gbuff_init) or on the stack (gbuff_alloca), written, resized, cleared  *)
(* and freed.  Allocation may fail at every call.  NDebug is the build: a  *)
(* Release build defines NDEBUG, which removes the asserts and _heap_flag. *)
(***************************************************************************)
EXTENDS Integers, Sequences

CONSTANTS Char,      \* characters other than NUL
          NUL,       \* '\0'
          MaxCap,    \* bound: the largest size asked for
          MaxWrite,  \* bound: the longest source of one write
          MaxBlocks, \* bound: heap blocks of the process
          NDebug     \* TRUE in a Release build

ASSUME GBuffAssumption == /\ NUL \notin Char
                          /\ MaxCap \in Nat \ {0}
                          /\ MaxWrite \in Nat
                          /\ MaxBlocks \in Nat
                          /\ NDebug \in BOOLEAN

Byte == Char \cup {NUL}

VARIABLES data,   \* the bytes of the block, indices 0 .. cap-1
          len,    \* buff->len
          cap,    \* buff->cap
          place,  \* where the block is: "none", "heap", "stack"
          blocks, \* heap blocks allocated and not freed
          hi,     \* the highest index the last operation wrote, -1 for none
          op,     \* the last operation
          ret     \* what it returned

vars == <<data, len, cap, place, blocks, hi, op, ret>>

\* The sources of gbuff_put (any bytes) and of a %s conversion (no NUL).
Bytes == UNION {[1..n -> Byte] : n \in 0..MaxWrite}
Strings == UNION {[1..n -> Char] : n \in 0..MaxWrite}

\* Mutant: one byte short
CopyInShort(d, at, s) ==
  [i \in DOMAIN d |->
     IF i \in at .. at + Len(s) - 2 THEN s[i - at + 1] ELSE d[i]]

\* memcpy(d + at, s, Len(s))
CopyIn(d, at, s) ==
  [i \in DOMAIN d |->
     IF i \in at .. at + Len(s) - 1 THEN s[i - at + 1] ELSE d[i]]

\* The text a reader of the buffer sees: its first len bytes.
Text == [i \in 1..len |-> data[i - 1]]

\* No block.
NoData == [i \in 0..-1 |-> NUL]

Init == /\ data = NoData /\ len = 0 /\ cap = 0
        /\ place = "none" /\ blocks = 0
        /\ hi = -1 /\ op = "none" /\ ret = 0

------------------------------------------------------------------------------

\* calloc, which may fail
gbuff_init(size) ==
  /\ place = "none"
  /\ blocks < MaxBlocks
  /\ op' = "init"
  /\ hi' = -1
  /\ \/ /\ data' = [i \in 0..size-1 |-> NUL]
        /\ len' = 0 /\ cap' = size
        /\ place' = "heap" /\ blocks' = blocks + 1 /\ ret' = 0
     \/ ret' = -1 /\ UNCHANGED <<data, len, cap, place, blocks>>

\* the bytes of a stack buffer are whatever the stack held
gbuff_alloca(size) ==
  /\ place = "none"
  /\ op' = "alloca"
  /\ data' \in [0..size-1 -> Byte]
  /\ len' = 0 /\ cap' = size /\ place' = "stack"
  /\ hi' = -1 /\ ret' = 0
  /\ UNCHANGED blocks

\* the function that holds a stack buffer returns
LeaveScope ==
  /\ place = "stack"
  /\ op' = "leave"
  /\ place' = "none" /\ data' = NoData /\ len' = 0 /\ cap' = 0
  /\ hi' = -1 /\ ret' = 0
  /\ UNCHANGED blocks

\* What realloc may give: the old bytes as far as they fit, then anything.
Resized(size) ==
  {d \in [0..size-1 -> Byte] : \A i \in 0..size-1 : i < cap => d[i] = data[i]}

\* the assertion on _heap_flag keeps stack buffers away from realloc
gbuff_realloc(size) ==
  /\ place = "heap"
  /\ op' = "realloc"
  /\ \/ /\ ret' = -1 /\ hi' = -1 /\ UNCHANGED <<data, len, cap>>
     \/ /\ ret' = 0 /\ cap' = size
        /\ \E d \in Resized(size) :
             IF len >= size
             THEN /\ len' = size - 1 /\ hi' = size - 1
                  /\ data' = CopyIn(d, size - 1, <<NUL>>)
             ELSE data' = d /\ hi' = -1 /\ UNCHANGED len
  /\ UNCHANGED <<place, blocks>>

gbuff_ensure(size) ==
  /\ place = "heap"
  /\ IF cap < size
     THEN gbuff_realloc(size)
     ELSE /\ op' = "ensure" /\ ret' = 0 /\ hi' = -1
          /\ UNCHANGED <<data, len, cap, place, blocks>>

\* Mutant: #ifdef for #ifndef
BlocksAfterFreeIfdef == IF NDebug THEN blocks - 1 ELSE blocks

\* Without NDEBUG the block is freed.  With it flag stays 0, the assert is
\* gone, and nothing is freed.
BlocksAfterFree == IF NDebug THEN blocks ELSE blocks - 1

\* Either way the caller is done with the buffer.
gbuff_free ==
  /\ place = "heap"
  /\ op' = "free"
  /\ blocks' = BlocksAfterFree
  /\ place' = "none" /\ data' = NoData /\ len' = 0 /\ cap' = 0
  /\ hi' = -1 /\ ret' = 0

gbuff_clear ==
  /\ place # "none"
  /\ op' = "clear"
  /\ len' = 0
  /\ data' = CopyIn(data, 0, <<NUL>>)
  /\ hi' = 0 /\ ret' = 0
  /\ UNCHANGED <<cap, place, blocks>>

\* Mutant: no room is kept for the '\0'
FitsExactly(n) == len + n <= cap

Fits(n) == len + n < cap

\* no '\0' is written after the bytes
gbuff_put(src) ==
  /\ place # "none"
  /\ op' = "put"
  /\ IF Fits(Len(src))
     THEN /\ data' = CopyIn(data, len, src)
          /\ len' = len + Len(src)
          /\ hi' = len + Len(src) - 1 /\ ret' = Len(src)
     ELSE ret' = -1 /\ hi' = -1 /\ UNCHANGED <<data, len>>
  /\ UNCHANGED <<cap, place, blocks>>

\* Mutant: vsprintf semantics at the boundary
PrintedAll(s, avail) == IF Len(s) >= avail THEN avail ELSE Len(s)

\* vsnprintf(dst, avail, ...) writes at most avail - 1 characters and a '\0'
\* and returns the length of the whole formatted text.
Printed(s, avail) == IF Len(s) >= avail THEN avail - 1 ELSE Len(s)

gbuff_appendf(s) ==
  /\ place # "none"
  /\ op' = "appendf"
  /\ IF len + 1 >= cap
     THEN ret' = -1 /\ hi' = -1 /\ UNCHANGED <<data, len>>
     ELSE LET k == Printed(s, cap - len) IN
            /\ data' = CopyIn(data, len, SubSeq(s, 1, k) \o <<NUL>>)
            /\ len' = len + k
            /\ hi' = len + k /\ ret' = Len(s)
  /\ UNCHANGED <<cap, place, blocks>>

\* "%.*s": the source up to its first NUL
IsCString(s, n) == /\ \A i \in 1..n : s[i] # NUL
                   /\ n < Len(s) => s[n + 1] = NUL

gbuff_concat(src) ==
  \E n \in 0..Len(src) : IsCString(src, n) /\ gbuff_appendf(SubSeq(src, 1, n))

------------------------------------------------------------------------------

Next == \/ \E size \in 1..MaxCap : \/ gbuff_init(size)
                                   \/ gbuff_alloca(size)
                                   \/ gbuff_realloc(size)
                                   \/ gbuff_ensure(size)
        \/ gbuff_free \/ gbuff_clear \/ LeaveScope
        \/ \E src \in Bytes : gbuff_put(src) \/ gbuff_concat(src)
        \/ \E s \in Strings : gbuff_appendf(s)

Spec == Init /\ [][Next]_vars

------------------------------------------------------------------------------

\* Types, and the relation every operation relies on: one byte of the block
\* is always left after the text, so data[len] can be written.
TypeOK == /\ cap \in 0..MaxCap
          /\ len \in 0..MaxCap
          /\ place \in {"none", "heap", "stack"}
          /\ data \in [0..cap-1 -> Byte]
          /\ blocks \in Nat
          /\ hi \in -1..MaxCap
          /\ ret \in -1..MaxWrite
          /\ op \in {"none", "init", "alloca", "leave", "realloc", "ensure",
                    "free", "clear", "put", "appendf"}
          /\ IF place = "none" THEN cap = 0 /\ len = 0 ELSE len < cap

\* No operation writes past the end of the block, whatever the lengths:
\* the guards of gbuff_put, gbuff_appendf and gbuff_realloc are exact.
WritesInBounds == place # "none" => hi < cap

\* In a debug build a heap buffer owns exactly one block: a realloc that fails
\* leaves the old block owned and no path frees it twice or forgets it.
BlockOwned == ~NDebug => blocks = IF place = "heap" THEN 1 ELSE 0

\* An append that reports success leaves the text terminated where it ends,
\* also when it was truncated, after raw puts and after a resize.
AppendTerminates ==
  [][op' = "appendf" /\ ret' >= 0 => data'[len'] = NUL]_vars

\* gbuff_t implements the abstract bounded text.
Abs == INSTANCE BoundedText WITH text <- Text, limit <- cap
ImplementsText == Abs!AbsSpec
=============================================================================
