----------------------------- MODULE BoundedText -----------------------------
(***************************************************************************)
(* What a gbuff_t promises its callers: a text shorter than its limit,     *)
(* that only ever grows at its end, is cut at its end, or is emptied.      *)
(* GBuff is shown to implement this specification.                         *)
(***************************************************************************)
EXTENDS Integers, Sequences, SequencesExt

VARIABLES text, limit

tvars == <<text, limit>>

AbsInit == text = <<>> /\ limit \in Nat

\* A new, empty buffer, or the buffer is given up, or it is cleared.
Reset == text' = <<>> /\ limit' \in Nat

\* Something is added after what is already there; one place stays free.
Extend == /\ IsPrefix(text, text')
          /\ Len(text') < limit
          /\ UNCHANGED limit

\* The limit changes; only what no longer fits is lost.
Resize == /\ limit' \in Nat \ {0}
          /\ text' = SubSeq(text, 1, IF Len(text) < limit' THEN Len(text)
                                                           ELSE limit' - 1)

AbsNext == Reset \/ Extend \/ Resize

AbsSpec == AbsInit /\ [][AbsNext]_tvars
=============================================================================
