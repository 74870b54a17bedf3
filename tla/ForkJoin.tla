------------------------------ MODULE ForkJoin ------------------------------
(***************************************************************************)
(* What a concurrent transfer promises: a round begins with all of the     *)
(* work to do, parts of it are finished or lost in any order, and the      *)
(* round ends only when nothing is left over.  Speedtest is shown to       *)
(* implement it.                                                           *)
(***************************************************************************)
EXTENDS Integers

CONSTANT Work  \* the size of a round

VARIABLES busy, \* a round is going on
          rest, \* what is left of it, neither finished nor lost
          lost  \* what nobody has finished, or will

fvars == <<busy, rest, lost>>

AbsInit == busy = FALSE /\ rest = 0 /\ lost = 0

Begin == ~busy /\ busy' = TRUE /\ rest' = Work /\ lost' = 0

\* A part is finished; it may be empty.
Finish == busy /\ rest' \in 0..rest /\ UNCHANGED <<busy, lost>>

\* A part fails, all of it.
Lose == busy /\ rest' \in 0..rest /\ lost' = lost + (rest - rest') /\ UNCHANGED busy

End == busy /\ rest = 0 /\ busy' = FALSE /\ rest' = 0 /\ lost' = 0

AbsNext == Begin \/ Finish \/ Lose \/ End

AbsSpec == AbsInit /\ [][AbsNext]_fvars
=============================================================================
