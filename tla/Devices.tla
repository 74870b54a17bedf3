------------------------------- MODULE Devices -------------------------------
(***************************************************************************)
(* src/cmd/account.c: cmd_devices logs in to the self-service site over    *)
(* one http_t of HttpClient (a form, a code nobody uses, the form posted), *)
(* then fetches the list of devices, once or, with -w, for ever, parses it *)
(* into an array that lives as long as the command, and prints the array.  *)
(*                                                                         *)
(* A list is a sequence of tokens: "{", "}" and the three fields, each     *)
(* with its text; what stands between them is skipped by strchr, strstr.   *)
(***************************************************************************)
EXTENDS HttpClient

CONSTANTS MaxDevices, \* MAX_ONLINE_DEVICE_COUNT
          Lists,      \* what the site may answer
          Empty,      \* the text of a field that is ""
          Junk        \* what the array has before it is written

ASSUME DevicesAssumption == /\ Conn # {}
                            /\ MaxDevices \in Nat
                            /\ MaxCalls >= 3

VARIABLES cmd,     \* where cmd_devices is
          watch, separator, \* -w, -f
          content, \* the list
          p,       \* the position in it
          row,     \* rows parsed
          devices, \* the array
          dotted   \* the rows whose MAC address has its separators

config == <<watch, separator>>
parseVars == <<content, p, row, devices, dotted>>
deviceVars == <<cmd, config, parseVars>>
allVars == <<vars, deviceVars>>

Field == {"loginTime", "ip", "mac"}
Row == 1 .. MaxDevices

IsToken(token) == \/ token.is \in {"{", "}"}
                  \/ \E f \in Field : token = [is |-> f, value |-> token.value]

ASSUME ListsAssumption == \A list \in Lists :
  Len(list) \in Nat /\ \A j \in 1 .. Len(list) : IsToken(list[j])

\* There is one http_t.
me == CHOOSE c \in Conn : TRUE

\* http_init for cmd_devices, which then enables redirects.
DevicesInit ==
  /\ Init
  /\ cmd = "start"
  /\ watch \in BOOLEAN /\ separator \in BOOLEAN
  /\ useRedirect[me]
  /\ content = << >> /\ p = 1 /\ row = 0
  /\ devices = [k \in Row |-> [f \in Field |-> Junk]]
  /\ dotted = {}

------------------------------------------------------------------------------
(* devices_login *)

Ended(result) == pc[me] = "ready" /\ answer[me] = result

Call(next) == /\ http_request(me)
              /\ cmd' = next
              /\ UNCHANGED <<config, parseVars>>

\* No env file, or http_init fails.
StartFails == /\ cmd = "start"
              /\ cmd' = "failed"
              /\ UNCHANGED <<vars, config, parseVars>>

device_get_form == cmd = "start" /\ Call("form")

\* The checkcode is in the page.
device_get_randomcode == cmd = "form" /\ Ended("body") /\ Call("random")

\* Mutant: redirects stay enabled
disable_redirect_Not ==
  /\ cmd = "random" /\ Ended("body")
  /\ cmd' = "login"
  /\ UNCHANGED <<vars, config, parseVars>>

disable_redirect ==
  /\ cmd = "random" /\ Ended("body")
  /\ http_set_redirect(me, FALSE)
  /\ cmd' = "login"
  /\ UNCHANGED <<config, parseVars>>

device_login == cmd = "login" /\ Call("verify")

\* One of the three returned NULL, or there is no checkcode.
LoginFails ==
  /\ \/ cmd \in {"form", "random", "verify"} /\ Ended("null")
     \/ cmd = "form" /\ Ended("body")
  /\ cmd' = "failed"
  /\ UNCHANGED <<vars, config, parseVars>>

------------------------------------------------------------------------------
(* devices_check_online and devices_parse *)

Poll == /\ \/ cmd = "verify" /\ Ended("body")
           \/ cmd = "sleep"
        /\ Call("poll")

\* NULL is parsed like a list.
PollCrashes == /\ cmd = "poll" /\ Ended("null")
               /\ cmd' = "crashed"
               /\ UNCHANGED <<vars, config, parseVars>>

Answer(list) == /\ cmd = "poll" /\ Ended("body")
                /\ cmd' = "parse"
                /\ content' = list /\ p' = 1 /\ row' = 0
                /\ UNCHANGED <<vars, config, devices, dotted>>

\* strchr, strstr: where what is found from position k on, or 0 (NULL)
Find(k, what) ==
  LET at == {j \in k .. Len(content) : content[j].is = what}
  IN  IF at = {} THEN 0 ELSE CHOOSE j \in at : \A i \in at : j <= i

step_in == Find(p, "{")

\* Mutant: the field is looked for in the whole list
Found_First(f) == Find(1, f)

\* The first one behind the "{", of this object or of a later one.
Found(f) == Find(step_in, f)

\* sscanf stores nothing for a field that is empty.
Scanned(f) == IF content[Found(f)].value = Empty THEN devices[row + 1][f]
                                                ELSE content[Found(f)].value

RowsAfter(out) == IF out = 0 THEN row ELSE row + 1

\* One object; one that lacks its "}" is the last and is not counted.
ParseRow ==
  /\ cmd = "parse" /\ row < MaxDevices /\ step_in # 0
  /\ \A f \in Field : Found(f) # 0
  /\ devices' = [devices EXCEPT ![row + 1] = [f \in Field |-> Scanned(f)]]
  /\ dotted' = IF content[Found("mac")].value = Empty THEN dotted
                                                     ELSE dotted \ {row + 1}
  /\ LET out == Find(step_in, "}") IN
       /\ row' = RowsAfter(out)
       /\ IF out = 0 THEN cmd' = "show" /\ UNCHANGED p
                     ELSE p' = out + 1 /\ UNCHANGED cmd
  /\ UNCHANGED <<vars, config, content>>

\* sscanf(NULL)
ParseCrashes ==
  /\ cmd = "parse" /\ row < MaxDevices /\ step_in # 0
  /\ \E f \in Field : Found(f) = 0
  /\ cmd' = "crashed"
  /\ UNCHANGED <<vars, config, parseVars>>

ParseEnds == /\ cmd = "parse" /\ (row = MaxDevices \/ step_in = 0)
             /\ cmd' = "show"
             /\ UNCHANGED <<vars, config, parseVars>>

\* devices_output; a MAC that has its separators, or was never scanned, does
\* not have the length devices_format_mac asserts.
Unformatted == {k \in 1 .. row : k \in dotted \/ devices[k]["mac"] = Junk}

devices_output ==
  /\ cmd = "show"
  /\ cmd' = CASE separator /\ Unformatted # {} -> "crashed"
              [] watch -> "sleep"
              [] OTHER -> "done"
  /\ dotted' = IF separator THEN dotted \cup 1 .. row ELSE dotted
  /\ content' = << >> /\ p' = 1 /\ row' = 0
  /\ UNCHANGED <<vars, config, devices>>

------------------------------------------------------------------------------

Requesting == Step(me) /\ UNCHANGED deviceVars

\* The command is over, or has made its MaxCalls.
Over == /\ \/ cmd \in {"done", "failed", "crashed"} \/ ~Alive
           \/ cmd = "sleep" /\ calls[me] = MaxCalls
        /\ UNCHANGED allVars

DevicesStep ==
  \/ StartFails \/ device_get_form \/ device_get_randomcode
  \/ disable_redirect \/ device_login \/ LoginFails
  \/ Poll \/ PollCrashes \/ (\E list \in Lists : Answer(list))
  \/ ParseRow \/ ParseCrashes \/ ParseEnds \/ devices_output

DevicesNext == Requesting \/ DevicesStep \/ Over

DevicesSpec == DevicesInit /\ [][DevicesNext]_allVars

------------------------------------------------------------------------------

DevicesTypeOK ==
  /\ TypeOK
  /\ cmd \in {"start", "form", "random", "login", "verify", "poll",
             "parse", "show", "sleep", "done", "failed", "crashed"}
  /\ watch \in BOOLEAN /\ separator \in BOOLEAN
  /\ p \in Nat /\ row \in Nat
  /\ dotted \subseteq Row

\* However long -w runs, it opens no more: what the command holds between two
\* lists was left by the redirects of the login, whose first two requests may
\* follow MAX_REDIRECTS each; a list leaves nothing.
WatchKeepsSockets == cmd \in {"parse", "show", "sleep", "done"} =>
  /\ Left(me) = 0
  /\ Cardinality(Owned(me)) <= 2 * MaxRedirects

\* The form with the password is sent to the site once, and never again to
\* where an answer redirects.
PasswordSentOnce == cmd = "verify" => exchanges[me] <= 1

\* A list of whole objects, of which the last may be cut behind its fields.
Width == Cardinality(Field) + 2
ObjectOf(j) == (j - 1) \div Width + 1
Regular ==
  /\ \A j \in 1 .. Len(content) :
       /\ content[j].is = "{" <=> j % Width = 1
       /\ content[j].is = "}" <=> j % Width = 0
       /\ content[j].is \in Field => content[j].value # Empty
  /\ \A j, k \in 1 .. Len(content) :
       ObjectOf(j) = ObjectOf(k) /\ content[j].is = content[k].is => j = k

\* The rows shown for such a list are its complete objects, as many as there
\* is room for, each with its own three fields, in whatever order they came
\* and whatever an earlier list left in the array.
RowsAreObjects == cmd = "show" /\ Regular =>
  LET whole == Len(content) \div Width IN
    /\ row = IF whole < MaxDevices THEN whole ELSE MaxDevices
    /\ \A k \in 1 .. row, f \in Field : \E j \in 1 .. Len(content) :
         /\ ObjectOf(j) = k
         /\ content[j] = [is |-> f, value |-> devices[k][f]]
=============================================================================
