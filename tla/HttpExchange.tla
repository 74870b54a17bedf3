---------------------------- MODULE HttpExchange ----------------------------
(***************************************************************************)
(* What http_request promises its caller, without sockets, headers and     *)
(* cookies: a call makes at most MaxRedirects + 1 exchanges with the       *)
(* server and ends with one answer, which is NULL or the body of the last  *)
(* exchange.  HttpClient is shown to implement this specification.         *)
(***************************************************************************)
EXTENDS Integers

CONSTANTS Conn, MaxRedirects

VARIABLES busy,      \* a call is in progress
          exchanges, \* exchanges made by the call
          answer,    \* "none", "null" or "body"
          of         \* the exchange the body came from

xvars == <<busy, exchanges, answer, of>>

AbsInit == /\ busy = [c \in Conn |-> FALSE]
           /\ exchanges = [c \in Conn |-> 0]
           /\ answer = [c \in Conn |-> "none"]
           /\ of = [c \in Conn |-> 0]

AbsCall(c) == /\ ~busy[c]
              /\ busy' = [busy EXCEPT ![c] = TRUE]
              /\ exchanges' = [exchanges EXCEPT ![c] = 0]
              /\ answer' = [answer EXCEPT ![c] = "none"]
              /\ of' = [of EXCEPT ![c] = 0]

AbsExchange(c) == /\ busy[c] /\ exchanges[c] <= MaxRedirects
                  /\ exchanges' = [exchanges EXCEPT ![c] = @ + 1]
                  /\ UNCHANGED <<busy, answer, of>>

AbsAnswer(c) == /\ busy[c] /\ exchanges[c] > 0
                /\ busy' = [busy EXCEPT ![c] = FALSE]
                /\ answer' = [answer EXCEPT ![c] = "body"]
                /\ of' = [of EXCEPT ![c] = exchanges[c]]
                /\ UNCHANGED exchanges

AbsFail(c) == /\ busy[c]
              /\ busy' = [busy EXCEPT ![c] = FALSE]
              /\ answer' = [answer EXCEPT ![c] = "null"]
              /\ UNCHANGED <<exchanges, of>>

\* The object is freed and initialised again between two calls.
AbsRenew(c) == /\ ~busy[c]
               /\ exchanges' = [exchanges EXCEPT ![c] = 0]
               /\ answer' = [answer EXCEPT ![c] = "none"]
               /\ of' = [of EXCEPT ![c] = 0]
               /\ UNCHANGED busy

AbsNext == \E c \in Conn : \/ AbsCall(c) \/ AbsExchange(c)
                           \/ AbsAnswer(c) \/ AbsFail(c) \/ AbsRenew(c)

AbsSpec == AbsInit /\ [][AbsNext]_xvars
=============================================================================
