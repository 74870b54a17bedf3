----------------------------- MODULE HttpClient -----------------------------
(***************************************************************************)
(* src/net/http.c: http_request on top of Tcp.  Each http_t makes requests *)
(* one after the other; a request connects, sends, reads the header        *)
(* section, stores its cookies, and either follows a redirect (by calling  *)
(* itself on the same http_t) or reads the body, closes and returns it.    *)
(* Every return of NULL but that of a failed http_connect leaves the       *)
(* connection open, and so does following a redirect.                      *)
(***************************************************************************)
EXTENDS Tcp, Sequences

CONSTANTS Jar,          \* http_t objects with a cookiejar (HTTP_COOKIEJAR)
          Cookie,       \* the cookies a response may set
          Debug,        \* assertions are compiled in (no NDEBUG)
          MaxRedirects, \* MAX_REDIRECTS
          MaxCalls      \* bound: calls of http_request per http_t

ASSUME HttpAssumption == /\ Jar \subseteq Conn
                         /\ Debug \in BOOLEAN
                         /\ MaxRedirects \in Nat
                         /\ MaxCalls \in Nat

VARIABLES pc,          \* what the request does next; "ready" between requests
          useRedirect, \* http->use_redirect
          redirects,   \* http->redirect_count
          jar,         \* http->cookiejar: the cookies, in the order added
          statusOf,    \* the exchange http->status_code is from, 0 for none
          bodyOf,      \* the exchange http->body is from, 0 for none
          answer,      \* how the last request ended: "none", "null", "body"
          \* history
          exchanges,   \* requests sent by the current call
          calls,       \* calls made
          held,        \* descriptors the http_t had open when the call began
          got,         \* every cookie its server ever set
          sent         \* the cookies of the last request sent

requestVars == <<pc, redirects, exchanges, answer, held, calls>>
dataVars == <<useRedirect, jar, statusOf, bodyOf, got, sent>>
vars == <<owner, mode, fd, ssl, sock, stage,
          pc, useRedirect, redirects, jar, statusOf, bodyOf, answer,
          exchanges, calls, held, got, sent>>

\* "crashed": the process is gone.
PC == {"ready", "connect", "send", "head", "body", "close", "crashed"}

Alive == \A c \in Conn : pc[c] # "crashed"

\* What http_section and http_headers make of a response.  A Location is an
\* absolute URI or a path, or relative to the path of the request.
Response == [status : {200, 302}, location : {"none", "path", "relative"},
             cookies : {<<>>} \cup {<<k>> : k \in Cookie}]

Init == /\ TcpInit
        /\ pc = [c \in Conn |-> "ready"]
        /\ useRedirect \in [Conn -> BOOLEAN]
        /\ redirects = [c \in Conn |-> 0]
        /\ jar = [c \in Conn |-> << >>]
        /\ statusOf = [c \in Conn |-> 0]
        /\ bodyOf = [c \in Conn |-> 0]
        /\ answer = [c \in Conn |-> "none"]
        /\ exchanges = [c \in Conn |-> 0]
        /\ calls = [c \in Conn |-> 0]
        /\ held = [c \in Conn |-> 0]
        /\ got = [c \in Conn |-> << >>]
        /\ sent = [c \in Conn |-> << >>]

------------------------------------------------------------------------------

\* The connection is left as it is: http_request forgets about it.
Abandon(c) == /\ stage' = [stage EXCEPT ![c] = "idle"]
              /\ UNCHANGED <<owner, mode, fd, ssl, sock>>

GoTo(c, next) == /\ pc' = [pc EXCEPT ![c] = next]
                 /\ UNCHANGED answer

Crash(c) == GoTo(c, "crashed") /\ Abandon(c)

Return(c, result) == /\ pc' = [pc EXCEPT ![c] = "ready"]
                     /\ answer' = [answer EXCEPT ![c] = result]

\* Mutant: redirect_count is not reset
RedirectsAtCall_Kept(c) == redirects[c]

\* http_request begins with redirect_count = 0.
RedirectsAtCall(c) == 0

http_request(c) ==
  /\ Alive /\ pc[c] = "ready"
  /\ calls[c] < MaxCalls
  /\ pc' = [pc EXCEPT ![c] = "connect"]
  /\ answer' = [answer EXCEPT ![c] = "none"]
  /\ redirects' = [redirects EXCEPT ![c] = RedirectsAtCall(c)]
  /\ exchanges' = [exchanges EXCEPT ![c] = 0]
  /\ calls' = [calls EXCEPT ![c] = @ + 1]
  /\ held' = [held EXCEPT ![c] = Cardinality(Owned(c))]
  /\ UNCHANGED <<tcpVars, dataVars>>

\* http_connect, one step of it at a time
http_connect(c) ==
  /\ pc[c] = "connect"
  /\ Connecting(c)
  /\ \/ stage'[c] = "up" /\ GoTo(c, "send")
     \/ stage'[c] = "idle" /\ Return(c, "null")
     \/ stage'[c] \notin {"up", "idle"} /\ GoTo(c, "connect")
  /\ UNCHANGED <<redirects, exchanges, held, calls, dataVars>>

\* The whole request is written, with the cookies of the jar.
SendOk(c) ==
  /\ pc[c] = "send"
  /\ GoTo(c, "head")
  /\ exchanges' = [exchanges EXCEPT ![c] = @ + 1]
  /\ sent' = [sent EXCEPT ![c] = jar[c]]
  /\ UNCHANGED <<tcpVars, redirects, held, calls,
                 useRedirect, jar, statusOf, bodyOf, got>>

\* The write failed or was short.
SendFails(c) ==
  /\ pc[c] = "send"
  /\ Abandon(c) /\ Return(c, "null")
  /\ UNCHANGED <<redirects, exchanges, held, calls, dataVars>>

\* headers_count is 0: end of file or a read error before a header.
NoHeaders(c) ==
  /\ pc[c] = "head"
  /\ Abandon(c) /\ Return(c, "null")
  /\ UNCHANGED <<redirects, exchanges, held, calls, dataVars>>

\* The section ends early, or begins with a blank line: http_headers fills in
\* fewer lines than were counted, and the rest of the list, which alloca did
\* not initialise, is searched for cookies and headers.  Unless that crashes,
\* what it points to is taken for a Response as any other.
HeadersCrash(c) ==
  /\ pc[c] = "head"
  /\ Crash(c)
  /\ UNCHANGED <<redirects, exchanges, held, calls, dataVars>>

Redirected(c, r) == useRedirect[c] /\ r.status = 302 /\ r.location # "none"

\* Mutant: cookies are looked at only when the request is not redirected
StoredCookies_Final(c, r) ==
  IF c \in Jar /\ ~Redirected(c, r) THEN jar[c] \o r.cookies ELSE jar[c]

\* cookiejar_resolve
StoredCookies(c, r) == IF c \in Jar THEN jar[c] \o r.cookies ELSE jar[c]

\* Mutant: the status line is parsed for the first response only
ParseHeaders_First(c, r) ==
  /\ statusOf' = [statusOf EXCEPT ![c] = IF redirects[c] = 0 THEN exchanges[c]
                                                            ELSE @]
  /\ jar' = [jar EXCEPT ![c] = StoredCookies(c, r)]
  /\ got' = [got EXCEPT ![c] = @ \o r.cookies]
  /\ UNCHANGED <<useRedirect, bodyOf, sent>>

\* The status code and the cookies are kept, before anything is decided.
ParseHeaders(c, r) ==
  /\ statusOf' = [statusOf EXCEPT ![c] = exchanges[c]]
  /\ jar' = [jar EXCEPT ![c] = StoredCookies(c, r)]
  /\ got' = [got EXCEPT ![c] = @ \o r.cookies]
  /\ UNCHANGED <<useRedirect, bodyOf, sent>>

\* Mutant: the limit is off by one
MaxReached_Late(c) == redirects[c] > MaxRedirects

\* redirect_count++ > MAX_REDIRECTS, after the increment
MaxReached(c) == redirects[c] + 1 > MaxRedirects

\* Mutant: the current connection is closed, and then still used
Redirect_Reuses(c, r) ==
  /\ pc[c] = "head"
  /\ Redirected(c, r)
  /\ ParseHeaders(c, r)
  /\ redirects' = [redirects EXCEPT ![c] = @ + 1]
  /\ IF MaxReached(c)
     THEN Return(c, "null") /\ Abandon(c)
     ELSE /\ r.location = "path" /\ GoTo(c, "send")
          /\ owner' = Closed(fd[c])
          /\ UNCHANGED <<mode, fd, ssl, sock, stage>>
  /\ UNCHANGED <<exchanges, held, calls>>

\* The Location is requested from the same http_t: a new connection, the old
\* one is not closed.  The call for it asserts that its path begins with '/';
\* without assertions it is sent as it is.
Redirect(c, r) ==
  /\ pc[c] = "head"
  /\ Redirected(c, r)
  /\ ParseHeaders(c, r)
  /\ redirects' = [redirects EXCEPT ![c] = @ + 1]
  /\ CASE MaxReached(c) -> Return(c, "null")
       [] ~MaxReached(c) /\ Debug /\ r.location = "relative" -> GoTo(c, "crashed")
       [] OTHER -> GoTo(c, "connect")
  /\ Abandon(c)
  /\ UNCHANGED <<exchanges, held, calls>>

FinalHeaders(c, r) ==
  /\ pc[c] = "head"
  /\ ~Redirected(c, r)
  /\ ParseHeaders(c, r)
  /\ GoTo(c, "body")
  /\ UNCHANGED <<tcpVars, redirects, exchanges, held, calls>>

\* http_body: it clears the body of the exchange before, then reads
BodyOk(c) ==
  /\ pc[c] = "body"
  /\ bodyOf' = [bodyOf EXCEPT ![c] = exchanges[c]]
  /\ GoTo(c, "close")
  /\ UNCHANGED <<tcpVars, redirects, exchanges, held, calls,
                 useRedirect, jar, statusOf, got, sent>>

\* A short body, a chunk without a size, or no memory.
BodyFails(c) ==
  /\ pc[c] = "body"
  /\ bodyOf' = [bodyOf EXCEPT ![c] = exchanges[c]]
  /\ Abandon(c) /\ Return(c, "null")
  /\ UNCHANGED <<redirects, exchanges, held, calls,
                 useRedirect, jar, statusOf, got, sent>>

\* Mutant: the connection is kept for a next request
http_close_Keep(c) ==
  /\ pc[c] = "close"
  /\ Abandon(c) /\ Return(c, "body")
  /\ UNCHANGED <<redirects, exchanges, held, calls, dataVars>>

http_close(c) ==
  /\ pc[c] = "close"
  /\ tcp_close(c) /\ Return(c, "body")
  /\ UNCHANGED <<redirects, exchanges, held, calls, dataVars>>

\* http_disable_redirect, http_enable_redirect
http_set_redirect(c, on) ==
  /\ Alive /\ pc[c] = "ready"
  /\ useRedirect' = [useRedirect EXCEPT ![c] = on]
  /\ UNCHANGED <<tcpVars, requestVars, jar, statusOf, bodyOf, got, sent>>

\* http_free, then http_init for another use (http_mode gives use_redirect).
\* Neither closes a socket.
http_renew(c, on) ==
  /\ Alive /\ pc[c] = "ready"
  /\ Renew(c)
  /\ useRedirect' = [useRedirect EXCEPT ![c] = on]
  /\ redirects' = [redirects EXCEPT ![c] = 0]
  /\ jar' = [jar EXCEPT ![c] = << >>]
  /\ got' = [got EXCEPT ![c] = << >>]
  /\ sent' = [sent EXCEPT ![c] = << >>]
  /\ statusOf' = [statusOf EXCEPT ![c] = 0]
  /\ bodyOf' = [bodyOf EXCEPT ![c] = 0]
  /\ answer' = [answer EXCEPT ![c] = "none"]
  /\ exchanges' = [exchanges EXCEPT ![c] = 0]
  /\ held' = [held EXCEPT ![c] = Cardinality(Owned(c))]
  /\ UNCHANGED <<pc, calls>>

\* One step of http_request_call.
Step(c) == /\ Alive
           /\ \/ http_connect(c)
              \/ SendOk(c) \/ SendFails(c)
              \/ NoHeaders(c) \/ HeadersCrash(c)
              \/ \E r \in Response : Redirect(c, r) \/ FinalHeaders(c, r)
              \/ BodyOk(c) \/ BodyFails(c)
              \/ http_close(c)

Gone == ~Alive /\ UNCHANGED vars

Next == \/ \E c \in Conn :
             \/ http_request(c)
             \/ Step(c)
             \/ \E on \in BOOLEAN : http_set_redirect(c, on) \/ http_renew(c, on)
        \/ Gone

Spec == Init /\ [][Next]_vars

\* The program runs on, and a server that has the connection answers, resets
\* or goes away in the end (reads and writes have no time-out); the time-outs
\* of the two selects elapse; a handshake does not want more for ever.
Fairness == \A c \in Conn :
  /\ WF_vars(Step(c) /\ stage[c] \in {"idle", "tls", "up"})
  /\ WF_vars(Step(c) /\ SelectFails(c))
  /\ WF_vars(Step(c) /\ stage[c] = "tlswait" /\ HandshakeFails(c))
  /\ SF_vars(Step(c) /\ stage[c] = "handshake"
                     /\ (HandshakeDone(c) \/ HandshakeFails(c)))

FairSpec == Spec /\ Fairness

------------------------------------------------------------------------------

RequestTypes ==
  /\ pc \in [Conn -> PC]
  /\ answer \in [Conn -> {"none", "null", "body"}]
  /\ redirects \in [Conn -> 0..MaxRedirects + 1]
  /\ exchanges \in [Conn -> 0..MaxRedirects + 1]
  /\ calls \in [Conn -> Nat]
  /\ held \in [Conn -> Nat]

DataTypes ==
  /\ useRedirect \in [Conn -> BOOLEAN]
  /\ statusOf \in [Conn -> 0..MaxRedirects + 1]
  /\ bodyOf \in [Conn -> 0..MaxRedirects + 1]
  /\ jar \in [Conn -> Seq(Cookie)]
  /\ got \in [Conn -> Seq(Cookie)]
  /\ sent \in [Conn -> Seq(Cookie)]

\* A request past its connect has its connection up, and no other has.
Phase == \A c \in Conn :
  /\ pc[c] \in {"send", "head", "body", "close"} <=> stage[c] = "up"
  /\ pc[c] \in {"ready", "crashed"} => stage[c] = "idle"

\* Types, and the agreement of http_request_call with http_connect.
TypeOK == TcpTypeOK /\ RequestTypes /\ DataTypes /\ Phase

\* Every request has the whole redirect budget: whatever the calls before it
\* did, it has followed exactly as many redirects as it made exchanges before
\* the one in progress, and never more than MAX_REDIRECTS.
RedirectBudget == \A c \in Conn :
  /\ pc[c] \in {"connect", "send"} =>
       redirects[c] <= MaxRedirects /\ exchanges[c] = redirects[c]
  /\ pc[c] \in {"head", "body", "close"} =>
       redirects[c] <= MaxRedirects /\ exchanges[c] = redirects[c] + 1

\* Cookies: what a request carries is all the server has set before, on this
\* or an earlier call, the responses that redirected included.
CookiesCarried == \A c \in Jar : pc[c] = "head" => sent[c] = got[c]

\* The caller of a request that returned a body finds status code and body of
\* the same exchange, the last one made.
AnswerWhole == \A c \in Conn :
  answer[c] = "body" => /\ statusOf[c] = exchanges[c]
                        /\ bodyOf[c] = exchanges[c]
                        /\ exchanges[c] > 0

\* The descriptors a call has added to the process when it ended.
Left(c) == Cardinality(Owned(c)) - held[c]

\* What a call leaves open, exactly: one socket per redirect if it returned a
\* body (so none without redirects), at most one more if it returned NULL.
SocketsLeft == \A c \in Conn : pc[c] = "ready" =>
  /\ answer[c] = "body" => Left(c) = redirects[c]
  /\ answer[c] = "null" => /\ Left(c) \in redirects[c] .. redirects[c] + 1
                           /\ Left(c) <= MaxRedirects + 1
  /\ answer[c] = "none" => Left(c) = 0

\* Reads and writes of a request, and its close, go to a socket its own
\* http_t opened, and when it uses TLS through the SSL object attached to that
\* socket, although earlier sockets and SSL objects were left behind.
RequestOnOwnSocket == \A c \in Conn : stage[c] = "up" =>
  /\ fd[c] \in Fd /\ owner[fd[c]] = c
  /\ c \in TLS => ssl[c] = fd[c]
  /\ c \notin TLS => ssl[c] = NoFd

\* http_request implements the abstract exchange.
Abs == INSTANCE HttpExchange WITH
         busy <- [c \in Conn |-> pc[c] # "ready"],
         of <- [c \in Conn |-> IF answer[c] = "body" THEN bodyOf[c] ELSE 0]
ImplementsExchange == Abs!AbsSpec

\* Every call returns, unless the process is gone: also when the server never
\* completes a connect, and no chain of redirects keeps http_request from
\* returning, as long as a server that accepted the connection answers or goes
\* away.
RequestEnds == \A c \in Conn : pc[c] = "connect" ~> pc[c] = "ready" \/ ~Alive

\* src/net/README.md, "Cleanup after errors": "`http_request` returned NULL:
\* Connection already closed internally".
NullClosed == \A c \in Conn :
  pc[c] = "ready" /\ answer[c] = "null" => Left(c) = 0
=============================================================================
