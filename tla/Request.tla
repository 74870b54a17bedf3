------------------------------ MODULE Request ------------------------------
(***************************************************************************)
(* src/net/http.c: http_send_request computes the size of the request,     *)
(* takes a buffer of that size from the stack, and appends the parts one   *)
(* by one.  Whether the size is enough is a matter of lengths, so the      *)
(* lengths are the model; an append that does not fit is cut, and nobody   *)
(* looks at its result.                                                    *)
(***************************************************************************)
EXTENDS Integers, FiniteSets

CONSTANTS PathLens, DomainLens, CookieLens, DataLens, \* of the caller's texts
          PortDigits                                  \* of a port not 80 or 443

\* A port is a uint16_t, and a form is shorter than a thousand million bytes.
ASSUME RequestAssumption == /\ PathLens \subseteq Nat /\ DomainLens \subseteq Nat
                            /\ CookieLens \subseteq Nat
                            /\ DataLens \subseteq Nat
                            /\ \A n \in DataLens : n < 10^9
                            /\ PortDigits \subseteq 1..5

VARIABLES path, domain,
          cookie, \* length of the cookies, 0 for none
          form,   \* the method: "POST" if there is data, else "GET"
          data,   \* length of the data
          port,   \* 0 for 80 and 443, else the digits of the port
          pc,     \* the part to append next
          req_len, used, \* size and length of the buffer
          cut     \* history: characters that did not fit

inputs == <<path, domain, cookie, form, data, port>>
vars == <<path, domain, cookie, form, data, port, pc, req_len, used, cut>>

\* The digits "%d" prints of n < 10^9.
DigitsOf(n) == 1 + Cardinality({k \in 1..8 : n >= 10^k})

Init == /\ path \in PathLens /\ domain \in DomainLens /\ cookie \in CookieLens
        /\ form \in {"GET", "POST"}
        /\ data \in IF form = "POST" THEN DataLens ELSE {0}
        /\ port \in PortDigits \cup {0}
        /\ pc = "size" /\ req_len = 0 /\ used = 0 /\ cut = 0

\* There is a cookiejar and its string is not empty.
HasCookies == cookie > 0

\* Mutant: neither the port nor the '\0' is thought of
Base_Tight == path + 26 + domain

Base == path + 33 + domain

Size == /\ pc = "size"
        /\ req_len' = Base + (IF HasCookies THEN cookie + 10 ELSE 0)
                           + (IF form = "POST" THEN data + 80 ELSE 0)
        /\ pc' = "line"
        /\ UNCHANGED <<inputs, used, cut>>

\* gbuff_appendf of n characters
Put(n) == LET room == IF used + 1 >= req_len THEN 0 ELSE req_len - 1 - used
              k == IF n < room THEN n ELSE room
          IN  used' = used + k /\ cut' = cut + (n - k)

AppendPart(here, n, next) ==
  /\ pc = here /\ pc' = next
  /\ Put(n)
  /\ UNCHANGED <<inputs, req_len>>

Skip(here, next) ==
  /\ pc = here /\ pc' = next
  /\ UNCHANGED <<inputs, req_len, used, cut>>

\* "GET %s HTTP/1.1\r\n", "POST ..."
Line == AppendPart("line", path + (IF form = "POST" THEN 16 ELSE 15), "cookie")

\* "Cookie: %s\r\n"
CookieLine == IF HasCookies THEN AppendPart("cookie", cookie + 10, "type")
                            ELSE Skip("cookie", "type")

\* Content-Type and Content-Length
FormType == IF form = "POST" THEN AppendPart("type", 49, "length")
                             ELSE Skip("type", "length")
FormLength == IF form = "POST" THEN AppendPart("length", 18 + DigitsOf(data), "host")
                               ELSE Skip("length", "host")

\* "Host: %s:%u\r\n", "Host: %s\r\n"
Host == AppendPart("host", domain + (IF port > 0 THEN 9 + port ELSE 8), "end")

\* "\r\n"
End == AppendPart("end", 2, "data")

\* "%s\r\n\r\n"
Data == IF form = "POST" THEN AppendPart("data", data + 4, "done")
                         ELSE Skip("data", "done")

Next == Size \/ Line \/ CookieLine \/ FormType \/ FormLength \/ Host \/ End \/ Data

Spec == Init /\ [][Next]_vars

------------------------------------------------------------------------------

TypeOK == /\ path \in PathLens /\ domain \in DomainLens /\ cookie \in CookieLens
          /\ form \in {"GET", "POST"} /\ data \in DataLens \cup {0}
          /\ port \in PortDigits \cup {0}
          /\ pc \in {"size", "line", "cookie", "type", "length", "host", "end",
                     "data", "done"}
          /\ req_len \in Nat /\ used \in Nat /\ cut \in Nat
          /\ pc # "size" => used < req_len

\* The size computed first is enough for all that is appended after it, to the
\* last '\n' of the data: with every port, with and without cookies and a form.
RequestWhole == cut = 0
=============================================================================
