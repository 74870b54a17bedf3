--------------------------------- MODULE Log ---------------------------------
(***************************************************************************)
(* src/log.c: print_log, which any thread may call.  A line of the log is  *)
(* made of several writes to one file; a mutex keeps those of two callers  *)
(* apart.  Colours go with the write they precede.                         *)
(***************************************************************************)
EXTENDS Sequences

CONSTANTS Writer,  \* the threads that call print_log
          Nobody,  \* the mutex is free
          Verbose  \* log_level: DEBUG (-v) or SILENT

VARIABLES mutex,   \* log_mutex: who holds it
          at,      \* where the call of each writer is
          line     \* what log_file got since the last whole line

logVars == <<mutex, at, line>>

LogInit == /\ mutex = Nobody
           /\ at = [w \in Writer |-> "call"]
           /\ line = << >>

\* Mutant: the mutex is not waited for
Lockable_Always == TRUE

Lockable == mutex = Nobody

\* A level that is not logged takes no lock.
Enter(w) == /\ at[w] = "call"
            /\ Verbose => Lockable
            /\ mutex' = IF Verbose THEN w ELSE mutex
            /\ at' = [at EXCEPT ![w] = IF Verbose THEN "time" ELSE "back"]
            /\ UNCHANGED line

\* The pieces of a line, and what follows each; the message ends with a \n.
After == [time |-> "level", level |-> "message", message |-> "unlock"]

Write(w) == /\ at[w] \in DOMAIN After
            /\ at' = [at EXCEPT ![w] = After[@]]
            /\ line' = IF at[w] = "message" /\ \A k \in DOMAIN line : line[k][1] = w
                         THEN << >>
                         ELSE Append(line, <<w, at[w]>>)
            /\ UNCHANGED mutex

Unlock(w) == /\ at[w] = "unlock"
             /\ mutex' = Nobody
             /\ at' = [at EXCEPT ![w] = "back"]
             /\ UNCHANGED line

print_log(w) == Enter(w) \/ Write(w) \/ Unlock(w)

\* The file holds whole lines and at most the beginning of one more: what one
\* writer has written of its line, in order, and nothing of another's.
LinesWhole ==
  \/ line = << >> /\ \A w \in Writer : at[w] \notin {"level", "message"}
  \/ \E w \in Writer : \/ line = <<<<w, "time">>>> /\ at[w] = "level"
                       \/ line = <<<<w, "time">>, <<w, "level">>>> /\ at[w] = "message"
=============================================================================
