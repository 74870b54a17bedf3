------------------------------- MODULE Account -------------------------------
(***************************************************************************)
(* src/cmd/account.c: how cmd_login and cmd_devices make the texts they    *)
(* send, in buffers of fixed sizes.  The env file is read a line at a      *)
(* time; cmd_login asks a server for the IPv6 address, encodes it into a   *)
(* buffer that is just as long, and appends everything to a path, which    *)
(* Request sends; cmd_devices puts the account into a form, which Request  *)
(* sends.  As there, the lengths are the model.                            *)
(***************************************************************************)
EXTENDS Request

CONSTANTS InfoVarLen,  \* INFO_VAR_LEN
          MaxPathLen,  \* MAX_PATH_LEN
          EncodedLen,  \* URLENCODED_IPV6_MAX_LEN
          MaxColons,   \* those ipv6_urlencode replaces: 7
          CodeSize,    \* sizeof checkcode: 4 digits and a '\0'
          MaxLines,    \* bound: lines of the env file
          ValueLens,   \* what a line may give a variable
          AddressLens, \* what the IPv6 server may answer
          CheckCodes,  \* what the first "value=" of the page may have
          GarbageLens, \* what a buffer may hold that was never written
          Chunks       \* how far apart two colons may be

ASSUME AccountAssumption ==
  /\ InfoVarLen \in Nat \ {0} /\ MaxPathLen \in Nat \ {0}
  /\ EncodedLen \in Nat /\ MaxColons \in Nat /\ MaxLines \in Nat
  /\ CodeSize \in Nat \ {0} /\ CheckCodes \subseteq Nat
  /\ ValueLens \subseteq Nat /\ Chunks \subseteq Nat
  /\ AddressLens \subseteq 1 .. InfoVarLen - 1 \* "%39[^']"
  /\ GarbageLens \subseteq Nat

\* The buffers are meant for two values of a path, or the name twice, the
\* password and a check code that fits its array in a form, and an address
\* whose colons become "%3A".  In the code:
\* 39 + 14 < 54, 188 < 200 and 198 < 200.
ASSUME SizesAssumption ==
  /\ (InfoVarLen - 1) + 2 * MaxColons < EncodedLen
  /\ 57 + 2 * (InfoVarLen - 1) + (EncodedLen - 1) < MaxPathLen
  /\ 77 + (CodeSize - 1) + 3 * (InfoVarLen - 1) < MaxPathLen

VARIABLES cmd,    \* "login", "devices", or "other" for any caller of Request
          at,     \* what it does next
          lines,  \* lines read
          file,   \* history: the length the file gives each variable
          account,\* the length of each of the two buffers
          usev6,  \* config->use_ipv6
          remain, encoded, colons, \* of ipv6_urlencode
          code,   \* strlen(form->checkcode)
          text,   \* the path or the form, as long as it is
          whole,  \* history: as long as it should be
          wild    \* history: a buffer was read that was never written, or
                  \* written behind its end

accountVars == <<cmd, at, lines, file, account, usev6,
                 remain, encoded, colons, code, text, whole, wild>>
allVars == <<vars, accountVars>>

Name == {"username", "password"}

Cut(n, cap) == IF n < cap THEN n ELSE cap - 1

\* Nothing is sent yet.
NoRequest == /\ path = 0 /\ domain = 0 /\ cookie = 0 /\ form = "GET" /\ data = 0
             /\ port = 0
             /\ pc = "size" /\ req_len = 0 /\ used = 0 /\ cut = 0

AccountInit ==
  /\ cmd \in {"login", "devices", "other"}
  /\ IF cmd = "other" THEN Init ELSE NoRequest
  /\ at = CASE cmd = "login" -> "ipv6" [] cmd = "devices" -> "env"
                                         [] OTHER -> "send"
  /\ lines = 0
  /\ file = [v \in Name |-> 0] /\ account = [v \in Name |-> 0]
  /\ usev6 \in IF cmd = "login" THEN BOOLEAN ELSE {FALSE}
  /\ remain = 0 /\ encoded = 0 /\ colons = 0 /\ code = 0
  /\ text = 0 /\ whole = 0
  /\ wild = FALSE

Fails(here) == /\ at = here
               /\ at' = "failed"
               /\ UNCHANGED <<vars, cmd, lines, file, account, usev6, remain,
                              encoded, colons, code, text, whole, wild>>

------------------------------------------------------------------------------
(* ipv6_get *)

\* Also when the address cannot be had the login goes on, without it.
NoAddress == /\ at = "ipv6"
             /\ at' = "env"
             /\ usev6' = FALSE
             /\ UNCHANGED <<vars, cmd, lines, file, account, remain, encoded,
                            colons, code, text, whole, wild>>

\* What stands between the first two quotes.
Address(n) == /\ at = "ipv6" /\ usev6
              /\ at' = "env"
              /\ remain' = n
              /\ UNCHANGED <<vars, cmd, lines, file, account, usev6, encoded,
                             colons, code, text, whole, wild>>

\* Two quotes with nothing in between: ipv6_buf stays as it was.
EmptyAddress(n) == /\ at = "ipv6" /\ usev6
                   /\ at' = "env"
                   /\ remain' = n /\ wild' = TRUE
                   /\ UNCHANGED <<vars, cmd, lines, file, account, usev6,
                                  encoded, colons, code, text, whole>>

\* No quote: sscanf at address 1
AddressCrashes == usev6 /\ Fails("ipv6")

------------------------------------------------------------------------------
(* account_load_env *)

\* A line that names v, of as many characters as fgets got at once: they come
\* behind those of an earlier line and are cut at the end of the buffer.
ReadLine(v, n) ==
  /\ at = "env" /\ lines < MaxLines
  /\ lines' = lines + 1
  /\ file' = [file EXCEPT ![v] = @ + n]
  /\ account' = [account EXCEPT ![v] = Cut(@ + n, InfoVarLen)]
  /\ UNCHANGED <<vars, cmd, at, usev6, remain, encoded, colons, code, text,
                 whole, wild>>

\* cmd_login wants both values.
LoginReady ==
  /\ at = "env" /\ cmd = "login"
  /\ \A v \in Name : account[v] > 0
  /\ at' = IF usev6 THEN "encode" ELSE "path"
  /\ UNCHANGED <<vars, cmd, lines, file, account, usev6, remain, encoded,
                 colons, code, text, whole, wild>>

\* cmd_devices does not look: a value that is not there is what the stack had.
DevicesReady(g) ==
  /\ at = "env" /\ cmd = "devices"
  /\ at' = "form"
  /\ account' = [v \in Name |-> IF account[v] = 0 THEN g ELSE account[v]]
  /\ wild' = \E v \in Name : account[v] = 0
  /\ UNCHANGED <<vars, cmd, lines, file, usev6, remain, encoded, colons, code,
                 text, whole>>

------------------------------------------------------------------------------
(* ipv6_urlencode, whose memcpy do not look at the buffer's size *)

\* The next colon is behind chunk characters.
EncodeColon(chunk) ==
  /\ at = "encode" /\ chunk < remain /\ colons < MaxColons
  /\ encoded' = encoded + chunk + 3
  /\ colons' = colons + 1
  /\ remain' = remain - chunk - 1
  /\ UNCHANGED <<vars, cmd, at, lines, file, account, usev6, code, text, whole,
                 wild>>

\* No colon is left, or too many were found: the rest as it is.
EncodeRest ==
  /\ at = "encode"
  /\ at' = "path"
  /\ encoded' = encoded + remain /\ remain' = 0
  /\ UNCHANGED <<vars, cmd, lines, file, account, usev6, colons, code, text,
                 whole, wild>>

------------------------------------------------------------------------------
(* login_url_path and login_request; device_login *)

\* LOGIN_PATH "?callback=a&DDDDD=" user "&upass=" password "&0MKKey=123456",
\* and "&v6ip=" address
PathLen == 30 + account["username"] + 7 + account["password"] + 14
             + IF usev6 THEN 6 + encoded ELSE 0

login_url_path ==
  /\ at = "path"
  /\ whole' = PathLen /\ text' = Cut(PathLen, MaxPathLen)
  /\ path' = text' /\ domain' = 13 /\ cookie' = 0 /\ form' = "GET" /\ data' = 0
  /\ port' = 0
  /\ at' = "send"
  /\ UNCHANGED <<pc, req_len, used, cut, cmd, lines, file, account, usev6,
                 remain, encoded, colons, code, wild>>

\* device_get_form: the text behind the page's first "value=", which sscanf
\* takes up to the next quote, whatever there is room for.
device_get_form(n) ==
  /\ at = "form" /\ n \in 1 .. CodeSize - 1
  /\ at' = "post"
  /\ code' = n
  /\ UNCHANGED <<vars, cmd, lines, file, account, usev6, remain, encoded, colons,
                 text, whole, wild>>

\* None stores nothing, a longer one runs over the end of form->checkcode:
\* what will be printed of it is undefined.
WildCode(n, g) ==
  /\ at = "form" /\ n \notin 1 .. CodeSize - 1
  /\ at' = "post"
  /\ code' = g /\ wild' = TRUE
  /\ UNCHANGED <<vars, cmd, lines, file, account, usev6, remain, encoded, colons,
                 text, whole>>

\* "foo=" user "&bar=" password "&checkcode=" code "&account=" user
\* "&password=" 32 "&code="
FormLen == 4 + account["username"] + 5 + account["password"] + 11 + code
             + 9 + account["username"] + 10 + 32 + 6

\* Mutant: the form gets a buffer for an account without a check code
FormBuffer_Tight == MaxPathLen - 4

FormBuffer == MaxPathLen

device_login ==
  /\ at = "post"
  /\ whole' = FormLen /\ text' = Cut(FormLen, FormBuffer)
  /\ path' = 18 /\ domain' = 18 /\ cookie' \in CookieLens
  /\ form' = "POST" /\ data' = text' /\ port' = 0
  /\ at' = "send"
  /\ UNCHANGED <<pc, req_len, used, cut, cmd, lines, file, account,
                 usev6, remain, encoded, colons, code, wild>>

\* http_send_request
Send == at = "send" /\ Next /\ UNCHANGED accountVars

AccountNext ==
  \/ NoAddress \/ AddressCrashes
  \/ (\E n \in AddressLens : Address(n)) \/ (\E n \in GarbageLens : EmptyAddress(n))
  \/ (\E v \in Name, n \in ValueLens : ReadLine(v, n))
  \/ LoginReady \/ (\E g \in GarbageLens : DevicesReady(g)) \/ Fails("env")
  \/ (\E chunk \in Chunks : EncodeColon(chunk)) \/ EncodeRest
  \/ login_url_path
  \/ (\E n \in CheckCodes : device_get_form(n)) \/ Fails("form")
  \/ (\E n \in CheckCodes, g \in GarbageLens : WildCode(n, g))
  \/ device_login
  \/ Send

AccountSpec == AccountInit /\ [][AccountNext]_allVars

------------------------------------------------------------------------------

\* Nothing is cut off the path of a login or the form of the device list, for
\* the longest account and address there can be, and a check code that fits its
\* array; of a value only what exceeds INFO_VAR_LEN is; and the encoded address
\* is in its buffer with its '\0', also when it is as long as sscanf allows and
\* has seven colons or more.  Of a page whose check code is empty or longer than
\* its array nothing is promised.
TextsWhole == ~wild =>
  /\ text = whole
  /\ encoded < EncodedLen
  /\ \A v \in Name : file[v] < InfoVarLen => account[v] = file[v]
=============================================================================
