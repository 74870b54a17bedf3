# A formal model of ustb-cli

ustb-cli is a C command line client for the network account of a campus: it
logs in and out, shows fees and traffic, lists devices, watches the traffic of
the account every second, and measures the speed of the line. It brings its own
text buffer, its own HTTP/1.1 client over sockets and TLS, a cookie jar, and
one command that uses threads.

This directory holds TLA+ models of the parts whose behaviour depends on an
order of events, on a failure, or on a boundary; TLC configurations that check
them on small instances; and proofs, checked by TLAPS, of the properties that
matter most, for every value of the constants.

    tlc -config MCTcp.cfg MCTcp        # one run
    tlapm TcpProofs.tla                # one module of proofs

All paths below are relative to the repository: `lib/`, and `src/` with its
`calc/`, `cmd/` and `net/`. `PROJECT.json` names the lines each definition
models with one more `src/` in front. A `\* Mutant:` definition is a plausible
bug in the definition that follows it; with the bug in its place, the property
PROJECT.json names is violated.

## 1. Inventory

| Component | State | Operations | Hard to get right |
|---|---|---|---|
| Text buffer, `lib/gbuff.c` | block, `len`, `cap`, heap or stack | init, alloca, put, appendf, concat, ensure, realloc, clear, free | one byte kept for the `'\0'`, failing `realloc`, truncation, two builds |
| Sockets and TLS, `src/net/socket.c`, `tcp.c` | descriptor, SSL object; the kernel's descriptor table | connect with a time-out, handshake with its waits, close, cleanup | failure after every step, numbers reused, stale `tcp->fd`, blocking mode |
| HTTP requests, `src/net/http.c` | `http_t`: connection, redirect counter, jar, status, body | request, follow a redirect, close, free | recursion on one `http_t`, early returns of NULL, cookies before redirects, a header list that is not filled in |
| Request text, `http_send_request` | a stack buffer of a size computed first | size, eight appends | a sum of constants counted by hand |
| Header section, `http_readline`, `http_section` | place in the buffer, `flag`, `line_count` | read a byte | full buffer, CR without LF, end of file anywhere |
| Body, `http_body` | body buffer, trunk | chunked, with a length | growth at the exact byte, lengths the server announces and `size_t` wraps, lines longer than the trunk, many exits, reuse of the buffer |
| Cookie jar, `src/net/cookiejar.c` | text, count | cut a header, add | blocks with nothing to spare, ignored failures |
| Concurrent speed test, `src/cmd/speedtest.c` | handles, arguments, result array, one `http_t` per thread | fork, transfer, join, free | every result ignored, sizes in an `int`, one descriptor table, frees after joins |
| Ping test, `src/cmd/speedtest.c` | loop variable, minimum, jitter | ping, retry, record | a retry without a limit, where averages start |
| Traffic monitor, `src/cmd/speedtest.c`, `src/calc/flow.c`, `interval.c` | ring of samples, clock | poll, add, sleep | wrapped differences, a page that reports 0, a clock set back, `nanosleep` of a whole second |
| Login and logout, `src/cmd/account.c` | texts in buffers of fixed sizes | env file, IPv6 address, check code, path, one request | lengths of several inputs that add up in one buffer |
| Device list, `src/cmd/account.c` | the session of one `http_t`; a parsed table | three requests of a login, then one per list; parse, print | sequences over requests that leave connections open; a table that outlives the list it is from |
| Account page, fees and formats, `info.c`, `balance.c`, `src/calc/fee.c`, `flow.c` | an `info_t` | one request, eight extractions, number to text | a page that ends early, a division by the traffic used, digits moved around a point |
| Log, `src/log.c` | a mutex, a file | print a line | lines of several threads |
| Command line, `cmd.c`, `completion.c`, `text.c` | option tables | dispatch | - |
| Digests, decoding, `lib/` | none | pure functions | - |

How they interact: a command makes an `http_t` (`http_init`), which owns a
connection, a body buffer and perhaps a jar, and calls `http_request`. That
calls, in this order, `http_connect` (socket, then TLS), `http_send_request`
(with the text of the jar), `http_section`, `http_headers`, the jar, then either
itself, for a redirect, or `http_body` and `http_close`. The speed test, the
ping test and the uploads use the low-level calls themselves. Every `http_t` of
the process shares the descriptor table of the kernel; that, the result array of
the speed test and the log are all that is shared.

What makes each correct is the list of properties in section 3; where this code
is exposed, line by line, is `hazards` in PROJECT.json.

## 2. The modules

    GBuff ----------- refines BoundedText
      |__ HttpBody    (EXTENDS GBuff)                       HttpBodyProofs
    Tcp                                                     TcpProofs
      |__ HttpClient  (EXTENDS Tcp) refines HttpExchange
      |     |__ Devices      (EXTENDS HttpClient)           DevicesProofs
      |__ Speedtest   (EXTENDS Tcp) refines ForkJoin
      |     |__ CmdSpeedtest (EXTENDS Speedtest, Log)       CmdSpeedtestProofs
      |__ Ping        (EXTENDS Tcp; an INSTANCE in CmdSpeedtest)
    Log
    Request                    Page
      |__ Account              |   (Account EXTENDS Request)
            |__ Commands ______|   (EXTENDS Account, Page)  CommandsProofs
    HttpSection                                             HttpSectionProofs
    Cookiejar                                               CookiejarProofs
    Monitor                                                 MonitorProofs

A proof module holds the theorems about the module beside it and about those it
EXTENDS: HttpBodyProofs those of GBuff, DevicesProofs those of HttpClient,
CmdSpeedtestProofs those of Speedtest, Ping and Log, CommandsProofs those of
Request, Account and Page.

Each `MC` module extends the module it is named after and gives its constants
values. GBuff, Speedtest, Ping, Log, Account and Page have no run of their own:
what composes them does (HttpBody, CmdSpeedtest, Commands).

**GBuff** is one `gbuff_t`. `data`, `len`, `cap` are its fields, `place` tells
the heap (`gbuff_init`) from the stack (`gbuff_alloca`), `blocks` counts the
heap blocks of the process. An action is a call; an allocation fails by choice.
`hi` is the highest index the call wrote, which may be outside the block: that
is what makes "in bounds" a property and not a convention. `NDebug` is the build,
since a Release build removes the asserts and the flag `gbuff_free` looks at.
**BoundedText** is what the header promises: a text shorter than a limit, that
grows only by a prefix of what was appended and survives every failure.

**Tcp** is `socket_connect`, `tls_upgrade`, `tcp_close` and `tls_cleanup` for
all connections of the process over one table, `owner`, which says whose
`socket()` opened a number. `fd[c]` and `ssl[c]` are the fields of the C
structure, with their stale values; `stage[c]` is how far `http_connect` got.
Each wait in `select` is a state of its own, so that other connections may open,
close and reuse numbers meanwhile. A number that is not open has the mode its next
socket begins with.

**HttpClient** runs `http_request_call` on top: `pc[c]` is its next call,
`redirects`, `jar`, `statusOf`, `bodyOf` are the fields of the `http_t`, the
last two as the number of the exchange they are from. The recursion needs no
stack, since the call is in tail position but for its return value. `held`,
`got`, `sent`, `exchanges` are history. Two paths may end the process
(`"crashed"`, for good): a header section that ends early or begins with a blank
line, after which `http_headers` fills in fewer entries than were counted and the
rest of an `alloca` is searched (`HeadersCrash`; what it finds otherwise is a
`Response` like any other), and, with `Debug`, the assert on the path of a
relative `Location` (in `Redirect`). **HttpExchange** is the abstract promise: at
most `MaxRedirects + 1` exchanges, then an answer from the last one or none.

**Request** has the lengths of the parts of a request and the size computed
first. **HttpSection** has the bytes of a response one at a time. **Cookiejar** cuts
headers and adds cookies.

**HttpBody** drives the buffer of GBuff the way `http_chuncked_body` and
`http_content_body` do, response after response, and the trunk they read lines
and chunks into (`tcap`, `trunk`). The numbers keep their types: a
Content-Length is any `long` that becomes a `size_t`, a size line any number
`strtoul` may return, and every sum of a length is modulo `W`. A line is as long
as the server likes, may be cut anywhere by the end of the connection, and has
its `'\0'` written where `http_readline` writes it, behind a trunk that is full
too. `bodyHi` and `trunkHi` are the highest indices written; after a write outside
a block nothing is known (`pc` is `"wild"` for good). `want` is what the server has
sent of the body, `complete` that this was its end, and `odd` names the things it
sent that the code is not made for (`Odd`). `BodySpec` is `http_body` alone,
`BuffersSpec` the body of an `http_t` or a buffer that any other caller uses.

**Speedtest** is a main thread (`main`, `i`) and `ThreadCount` threads
(`thread[t]`), each with a connection of Tcp. `left[t]` counts the reads or writes a
thread still makes, which it takes from an `int` (`ToInt`), and `moved[t]` those
that succeeded, or -1 once anything has failed for its part: the creation of the
thread, `http_init`, a read or a write, or the conversion of a number of blocks
that an `int` does not hold. `Scarce` says whether memory and threads may run out.
**ForkJoin** is its promise: a round ends only when every part was moved, or is
one of a thread that failed; none is forgotten and none counted twice.

**Ping** is `do_ping_test` with `http_ping_once` on Tcp. **Log** is `print_log`:
the mutex, and a line as three writes to one file (`line` is what the file got
since the last whole line). **CmdSpeedtest** is `cmd_speedtest`: the options, the
pings, what the main thread logs of them, then a round of Speedtest for each
transfer asked for, whose threads each log a line before their `http_init`. One
descriptor table, `owner`, serves all of it, and one mutex the logging of all
threads; `main` is `"ping"` before the first round.

**Devices** is `cmd_devices` over the one `http_t` it has. A `cmd` of `"form"`,
`"random"`, `"verify"` or `"poll"` says which call of `http_request` (an action of
HttpClient, with its own steps, redirects and failures) is under way or has
ended; between calls the command looks at what was returned. A list is a
sequence of tokens; `p` is the position of `devices_parse`, `devices` the array
that is declared once for all lists of `-w`, with what earlier lists wrote.

**Account** is how `cmd_login` and `cmd_devices` make their texts, by lengths:
`account_load_env`, `ipv6_get`, `ipv6_urlencode`, `login_url_path`, the check code that
`device_get_form` scans from the page into an array of `CodeSize` bytes, and the
form of `device_login`; the text then goes to Request. A code that does not fit its
array, or that is empty, leaves the array in a state that is not known
(`WildCode`). **Page** is `info_extract`, which may stop after any variable, and
the three commands that show what it read, with `fee_cost` and `assign_decimal`.
**Commands** is the choice of `cmd_parse` between them.

**Monitor** is `cmd_monitor`, `flow_speed` with its ring, and
`sleep_till_next_sec`, with a clock that ticks and may be set back. The page may
report 0 for once; each sample of the history has what the page said and what the
counter `really` was.

### What is abstracted

- A transfer's contents are a count; the bytes of a request are its length; the
  text of a page is a number or a failure; the server's address is left out.
- Reads and writes of a connection are one step that succeeds or fails. Their
  short forms that the code takes for failures are failures.
- In HttpClient a response is a status, the kind of its Location, and the
  cookies it sets; HttpSection and HttpBody say what becomes of its bytes.
- In HttpBody a line is its length and the number in it, of which a part that
  arrives may be any smaller number. Which headers there are is a choice.
- In Devices a list is its braces and fields; that the checkcode is in the page
  is a choice, and so is what a list holds. In Account and Request a text is its
  length; a value that the stack had before is any of `GarbageLens`. The second
  quote that `gbuff_extract` reads into two bytes of its own is left out.
- In Page a text is empty, the page's, or what follows an empty one; a number is
  itself.
- The log has the first line of each thread and the one after the pings; other
  lines would be made the same way.
- In Cookiejar the jar's buffer is its text and its limit, as GBuff shows
  it to be.
- A join on a garbage handle may be refused, name any thread that has ended, or
  end the process; other undefined outcomes are not told apart.

## 3. The runs

Each passing run explores all reachable states of its instance. The types of
GBuff, Tcp, HttpClient (and so Devices), HttpBody, Speedtest and Request are part
of the invariants proved, and not listed in a run again.

| Run | Instance | States | What it shows |
|---|---|---|---|
| `buffers` | Debug; one character and NUL, capacities and writes up to 4 anywhere; 2 responses with bodies, a body buffer of 2 bytes, a trunk of 3, a `size_t` of 4 bits, no block above 7 bytes, lines of 2 and 3 bytes, 3 size lines | 140820 | every sequence of calls on a buffer, with allocations that fail: writes in the block, the text as `BoundedText` promises, terminated after an append, one block owned; and of a body: no write outside as long as no length wraps and no line fills the trunk, what is returned for a regular response is that response's, to its end, the trunk freed on every path, content terminated |
| `tcp` | 3 connections, one TLS, 2 descriptors | 198 (symmetry) | a connection in use works on a socket it opened itself and that blocks again, none is lost on a failure path, SSL objects follow their sockets |
| `http` | Debug; 1 `http_t` with TLS and jar, 2 calls, up to 2 redirects, 4 descriptors, 1 cookie | 30208 | the redirect budget of each call, cookies carried, status and body of one exchange, the exact number of sockets left, requests on own sockets, the abstract exchange, and every call returns or the process is gone |
| `http_null` | the same, 2 descriptors, 1 call | violation | see section 6 |
| `speedtest` | any options; 4 answers of 6 times; then up to 2 rounds of 3 threads over 2 descriptors, a file of 4 MB, 2 blocks to the MB, an `int` of 3 bits; memory and threads may run out; the log is on | 245865 | sockets of one's own, arrays freed after their last use, nothing left between rounds or by the pings, minimum and jitter those of the answers, lines of the log whole, every part moved or of a thread that failed, and once the pings are over the command ends |
| `http_section` | up to 9 bytes over x, CR, LF; buffer of 8 | 284971 | a section that fits is read exactly and its lines counted; of any other only the end is lost; the terminator is in the buffer |
| `http_body_chunks` | `http_body` alone, 1 response, chunks of up to 2 bytes, a trunk of 4 | violation | see section 6 |
| `monitor` | ring of 3, 2 ticks a second, 4 samples, rates 0 and 2, a counter that may read 0 | 2594621 | the ring is the end of the history, two readings of the counter show the rate at which it grew and a reading of the 0 of the bug shows 0, a poll comes in a later second unless the sleep was refused or the clock set back |
| `monitor_glitch` | the same | violation | see section 6 |
| `cookies` | a header of up to 6 characters, then one of 3, then one of 2; a jar of 4 bytes; memory may run out | 920478 | keys and values are those of the headers and fit their blocks; the jar is whole while memory lasts |
| `commands` | env files of 3 lines, values of 1, 39 and 40 characters, IPv6 answers up to 39, check codes of 0, 1, 4 and 5; every path, form and request that follows, and requests of other lengths; pages cut after any variable, with 6 flows, 4 IPv6 counters, 6 balances | 124438 | no text, path, form or request is cut, and the array of the check code is not overrun by one of at most 4 characters; the address fits when encoded; the rate, the cost and the balance shown are those of the page, and their text is in its buffer |
| `devices` | Debug; 1 `http_t` with TLS and jar, up to 2 redirects per call, 4 descriptors, 5 calls, 2 rows; 19 lists of up to 3 objects, cut anywhere, with a field empty or missing | 500708 | a list holds no more sockets than the one before, the form with the password goes out once, the rows shown are the list's complete objects |

Why the bounds are enough:

- `buffers`: all guards of gbuff compare `len + n` with `cap`; with writes as long
  as the largest capacity each comes out below, at and above its boundary. The
  body buffer is outgrown by the first chunk already, and the second response
  meets what the first left. Announced lengths fit, are more than can be
  allocated (7), or wrap: a Content-Length of -1 (one of -2 does not quite), and
  chunk sizes of 14 and 15, whose room in the trunk wraps to 0 and 1. A line of
  2 bytes fits the trunk of 3 with its `'\0'`, one of 3 fills it.
- `tcp`: three connections over two numbers make numbers run out and be reused
  while an older `tcp->fd` still holds them.
- `http`: two redirects are the least at which a budget that is not reset and an
  off-by-one differ; the second call starts with what the first left behind;
  four descriptors run out on the second call.
- `speedtest`: two descriptors for three threads make a connect fail while others
  hold sockets; 4 over 3 leaves a remainder; the second round meets what the
  first left. The first part has 4 blocks, which is the least an `int` of 3 bits
  does not hold, the other two have 2, which it does. Four answers are the least with a jitter that is averaged, with
  failures between any two of them; six times are two that fail, two below a
  millisecond or at it, and two above.
- `commands`: values are of one character, of one less than the buffer and of as
  much as it; a variable may have two lines; the longest address, encoded, and its
  `'\0'` just fill their buffer, and the longest account with the longest check
  code leaves one byte in that of the form. Codes are none, a short one, the longest that
  fits and the shortest that does not. Flows are on both sides of the free ones
  and of a GB over them, and the balances take `assign_decimal` through all its
  widths, the largest number of 32 bits included.
- `devices`: five calls are the three of a login and two lists, so the second
  list meets the rows of the first; three objects for two rows fill the array;
  two redirects per call tell the sockets a login leaves from those of a list,
  and four descriptors run out.
- `http_section`: a status line, a header line and a blank line, each with a
  byte of text, are nine bytes, so sections end before, at and behind the end of
  the buffer, with CRs and LFs anywhere.
- `monitor`: four samples take the head round the ring of three, and one that
  reads 0 may have readings of the counter on both sides.
- `cookies`: six characters hold `k = v;` or a pair with blanks around it; the jar is
  outgrown by the first or the second cookie.

`CHECK_DEADLOCK FALSE` stands where the program ends (a section is read, a
command is done) or the bounded inputs do (responses, samples, cookies).

### Liveness and fairness

- `RequestEnds` (`http`): every call of `http_request` returns, or the process is
  gone. Assumed: the program runs on; the time-outs of the two `select`s elapse,
  which the code passes to them; a server that has the connection answers, resets
  or goes away, because reads and writes have no time-out; a handshake does not
  want more for ever (strong fairness: each wait may time out, and each
  SSL_connect between two waits may end it). A server that stays silent keeps the
  call for ever; that is a hazard without a property.
- `RoundsEnd` (`speedtest`): once the pings are over, if any were asked for,
  `cmd_speedtest` ends, or the process does. Assumed: the threads are scheduled,
  connects time out, and servers answer or go away. The log needs no more than
  the scheduling of threads: who waits for its mutex gets it after finitely many
  lines, since each thread writes one. Nothing is assumed of the outcome of a
  ping, and nothing is claimed for them: `do_ping_test` makes a failed one again
  without a limit (section 6).

## 4. What is proved

TLAPS checks these for all values of the constants the assumptions allow: any
number of connections, finitely many descriptors, any capacities, lengths,
redirect limits, threads, file sizes, chunks, headers, lists and rows. Every
invariant and every refinement of a passing run is stated by a theorem; only
liveness is left to TLC.

| Module | About | Theorems |
|---|---|---|
| HttpBodyProofs | GBuff | `GBuffWritesInBounds`, `GBuffAppendTerminates`, `GBuffBlockOwned`, `GBuffImplementsText` |
| | HttpBody | `BodyTypes`, `BodyBounded`, `BodyIsWhole`, `BodyHasRoom`, `BodyFreesTrunk`, `BodyTerminated` |
| TcpProofs | Tcp | `TcpSocketUsable`, `TcpNoneLost`, `TcpSsl` |
| DevicesProofs | HttpClient | `HttpSocketsLeft`, `HttpRequestOnOwnSocket`, `HttpRedirectBudget`, `HttpCookiesCarried`, `HttpAnswerWhole`, `HttpImplementsExchange` |
| | Devices | `DevicesIsClient`, `DevicesKeepSockets`, `DevicesPasswordOnce`, `DevicesRows` |
| CmdSpeedtestProofs | Speedtest | `SpeedtestTypes`, `SpeedtestOwnSocket`, `SpeedtestResultsWritable`, `SpeedtestLeavesNothing` |
| | CmdSpeedtest | `CmdOwnSocket`, `CmdResultsWritable`, `CmdLeavesNothing`, `CmdLinesWhole`, `CmdPingReported`, `CmdImplementsForkJoin` |
| CommandsProofs | Request | `RequestIsWhole` |
| | Commands | `CommandsRequestWhole`, `CommandsTextsWhole`, `CommandsShareShown`, `CommandsFeeShown` |
| HttpSectionProofs | HttpSection | `SectionPrefixStored`, `SectionIsWhole` |
| CookiejarProofs | Cookiejar | `CookieCopiesFit`, `CookieParsed`, `CookieJarWhole` |
| MonitorProofs | Monitor | `MonitorType`, `MonitorPollsNextSecond`, `MonitorRingIsHistory`, `MonitorShownIsRate` |

Each rests on an inductive invariant that is stronger than the property.

- **GBuff.** The shape of the buffer (`len < cap` while there is a block, `data`
  as long as `cap`) and the bounds: each guard of the code keeps one byte, and that
  byte is the invariant. The refinement of BoundedText follows operation by
  operation: each one either extends the text by a prefix of what it was given,
  empties it, or leaves it.
- **HttpBody.** Between chunks the text is what the server has sent; while one is
  copied the text and the trunk are; before it is put there is room; a trunk block
  exists exactly in the steps between its allocation and its release. Sizes stay
  below `MaxAlloc`, which is what keeps `len + chunk_len + 1` from wrapping where
  `chunk_len + 2` did not. The theorems hold for any lengths the server announces
  and any lines it sends: `BodyBounded` where no room wraps and no line fills
  the trunk, `BodyIsWhole` for a response with nothing of `Odd` in it, which then
  was sent to its end; `BodyFreesTrunk`, `BodyHasRoom` and `BodyTerminated`
  without exception.
- **Tcp.** Types, `OwnSocket`, `NoneLost`, `SslFollowsSocket`, `BlockingInUse`. They
  need each other: closing by number is safe only if the number is one's own, and
  a number can be new only if the table has none without a live connection.
- **HttpClient.** How far a call is (exchanges against redirects), that the jar
  holds all cookies set, that an SSL object in use is that of the current socket,
  and a count. `NoneLost` fails here, since sockets are left behind, so `Owned(c)`
  has to be counted instead: the sockets a connection owns are those held at the
  call, one per redirect, and the current one; closing removes one of them, and
  connecting adds a number that was free. The count is of a process that lives.
  Refinement of HttpExchange follows
  action by action; every step but a send and a return is a stutter.
- **Devices.** Every step of the command is one of HttpClient or changes nothing
  of it, so the invariant of HttpClient holds; with it, per step of the command,
  how many sockets the calls so far have left, and that redirects stay off once
  they were. For the rows: where the parser stands in a list of whole objects
  (`AtObject`: at the first token of object `row + 1`), that the rows before are
  those of the list at hand and not of an earlier one, and that it stopped only
  at the end of the list or of the array (`Parsed`).
- **Speedtest and its command.** `OwnSocket` and `NoneLost` of Tcp, where a thread
  may hold a connection, and `Waited`: while the main thread joins, no thread
  before the loop variable runs, and a thread without a handle never ran, so a
  garbage handle hides nobody. In the pings, the invariant of Tcp with the place of
  the one connection in `http_ping_once`; of the log, that who is inside
  `print_log` holds the mutex and the file has what that holder wrote.
  `PingReported` needs that the minimum and the jitter are those of the answers so
  far, and that one more answer moves each the way the code moves it.
  The refinement of ForkJoin needs `Parts` (a thread has the part of the file
  that is its own, and a started one its handle), `Tally` (the blocks a thread has
  moved and those it has left are those of its part, or it has failed), that the
  parts of all threads add up to the file, and that what one thread does moves the
  two sums by its part; the sums are recursive functions, whose equations are proved by way of the
  least number at which they would fail.
- **Request.** How much of the computed size may be in use before each part, which
  never exceeds what is left.
- **Account.** An account value is the cut of what its lines had, however many
  lines there were (cutting twice cuts once); an address being encoded and what
  remains of it are at most two longer per colon than what was read; a check code
  that is used fits its array; a request is not begun before it is sent.
  `SizesAssumption` then says that the fixed sizes of the code suffice for the
  longest of each.
- **Page.** What was read is what the page said, IPv6 traffic is divided once, and
  division is characterised by multiplication. `FeeShown` rests on lemmas about
  `assign_decimal` alone: `Width` counts all digits of a number below 10^10, a
  digit is what the next power of ten leaves, and a text of such digits
  with the point moved in is worth the number without its last digits.
- **HttpSection.** What is stored is what was read, until the buffer is full
  (`Follows`). For `SectionWhole`, where in a line the reader is: how many CRLFs
  lie behind it, whether the last byte was a CR (`flag`), and that the blank line
  has not come yet (`LineAt`).
- **Cookiejar.** The lemmas say what each cut (spaces skipped, right end, text
  before a character) returns and that none makes a text longer; the invariant is
  that the blocks are as long as the header, that room asked for is there when the
  pair is appended, and that the text is the cookies joined while memory lasts.
- **Monitor.** Where each sample of the history lies in the ring, counted back from
  `head`, before and after it is full; that who sleeps wakes in a later second than
  the one it began in; that the counter stays below a bound set by the clock. The
  theorem on what is shown is about two readings of the counter in a row, and about
  a reading of the page's 0; of the reading after such a 0 it says nothing, and
  `monitor_glitch` shows why.

The assumptions are the ASSUMEs of the modules, which TLC evaluates in the runs:
distinct markers, lengths that are natural numbers, finitely many descriptors,
form data below 10^9 bytes (with more the Content-Length takes more digits than
were counted). Those that say more are named:

- `SizesAssumption` (Account): an address of `MaxColons` colons fits `EncodedLen`
  when encoded, and a path with the longest values and a form with the longest
  values and check code fit `MaxPathLen`. The sizes of the code (40, 54, 200, 5,
  and 7 colons) meet it.
- `BodyAssumption` (HttpBody): a block is at most half the address space less a
  byte, as PTRDIFF_MAX is; a `long` and a `size_t` have the values of their types.
- `FeesAssumption` (Page): balance and cost have at most ten digits, as an
  `unsigned` has, and `fee_str` is longer than that (16).
- `ListsAssumption` (Devices): a list is a sequence of tokens.
- `NoOverflow(R, D)` is not an ASSUME but a hypothesis of `MonitorShownIsRate`,
  since the differences of `flow_speed` wrap by design: over `D` ticks with at most
  `R` KB in each, traffic times ticks per second stays below 2^64. Beyond it a
  rate shown can be wrong. A month at one GB in every second stays below it.

Only model-checked: `RequestEnds` and `RoundsEnd`, liveness under fairness, which
the prover does not reach; and the three runs that end in a violation.

## 5. What is not modelled

- The prompts for user name and password (`USE_INTERACTIVE`): the terminal.
- `cmd_logout`: one request of HttpClient, whose result is all it looks at.
- The texts of `flow_format` and `flow_left`, colours: widths and units.
- Option tables, help, completion scripts, `global_config_parse`: tables and
  printed text; the indices of the options are those of the cargs library, a
  submodule that is not part of the sources.
- Digests and decoding: vendored or pure.
- `gbuff_extract`, `http_find_header`, the parsing of numbers: readers with
  no effect on the state modelled.
- The build without threads: it makes the same transfer once, in the caller.

## 6. Where the code and its documents differ

Three differences are runs of their own, each expected to end in a violation:

- `http_null`, `NullClosed`: `src/net/README.md:120` says that after
  `http_request` returned NULL the connection is already closed. It is only if
  `http_connect` failed; after a failed send, an empty section, too many
  redirects or a failed body, `http_request_call` returns without closing, and
  `http_free` closes nothing either. `SocketsLeft` states, and TLAPS proves, what
  is really left.
- `http_body_chunks`, `ChunksTerminated`: the comment at `src/net/http.c:395`
  says "null-terminate". `gbuff_ensure` has made room for exactly one byte more
  than the text, and `gbuff_appendf` writes only if there is more than that: a
  chunked body for which the buffer grew is returned without its `'\0'`.
  `ContentTerminated` states when it is there.
- `monitor_glitch`, `GlitchFiltered`: `src/calc/flow.c:45` says that after a page has
  reported 0 the speed of the next second is very large, and that MAX_FLOW_SPEED
  filters it out. That speed is the whole counter over the time since the 0. Early
  in a month, or when polls failed in between, it is below MAX_FLOW_SPEED and is
  shown. `ShownIsRate` states what is right of the other readings.

Others came up while the models were written. The models do what the code does,
and the properties above say no more than holds:

- `src/net/http.h:19` says that `http_request` returns the body, or NULL on failure.
  A chunked body whose size line has no number, or was cut by the end of the
  connection so that it reads as 0, ends there and is returned although it is
  not whole (`http.c:390`); so is the empty body of a response with neither chunks
  nor a Content-Length. `BodyWhole` leaves both out (`"no size"`, `"no length"`).
- A Content-Length of -1 is SIZE_MAX as a `size_t` (`http.c:372`); `len + 1` is
  then 0, no room is made, and a read goes over the end of the buffer, or a failed one
  passes `res != len` (`http.c:430-436`). The room of a chunk wraps likewise for
  sizes of SIZE_MAX and SIZE_MAX - 1 (`http.c:400`). A line that fills the 64 bytes
  of the trunk gets its `'\0'` one byte behind them, and what is left of it is taken for
  the next line (`http.c:385`, `214`). `BodyInBounds` and `BodyWhole` leave them out
  (`"wraps"`, `"long line"`).
- `http.c:497-504`: of a section that ends early, or begins with a blank line, more
  lines are counted than `http_headers` fills in; the rest of the list is not
  initialised (`HeadersCrash`).
- `http.h:27` asks for a path that begins with '/'. A relative Location is passed on
  as it is, and the assert at `http.c:475` ends a Debug build (`Redirect`).
- `account.c:64` says of the check code "4 number + '\0'". `device_get_form` scans
  the first value of the page with `%[^'"]`, without a width (`account.c:711`): a longer one
  goes past its array. `TextsWhole` is about codes that fit (`WildCode` is the rest).
- `speedtest.c:60` documents `--file-size` as the "file size for each thread". The size is
  that of the whole transfer, and each thread gets its part of it
  (`Part`). A part whose number of blocks an `int` does not hold is not moved
  (`speedtest.c:174`, `286`).
- The comment at `speedtest.c:357` says that a ping that fails is skipped
  ("这里选择跳过"). `i--` makes it again, without a limit: with a server that is
  down `do_ping_test` does not end. `RoundsEnd` begins after the pings.
- `interval.c:16` passes `nanosleep` a whole second of nanoseconds when the clock is
  at the beginning of one, which it refuses: the poll that follows comes at once.
  `PollsNextSecond` leaves it out.
- `src/net/README.md:127` says that a redirect closes the current connection.
  It does not (`http.c:528`); `SocketsLeft` counts it.
- `lib/gbuff.h:43` says that `gbuff_free` frees the buffer. With NDEBUG, which
  Release builds define, the flag it looks at stays 0 and nothing is
  freed (`gbuff.c:70`): `BlockOwned` and `TrunkFreed` are about Debug builds.
- `src/net/http.h:39` says that `http_section` returns the number of header
  lines. A blank first line makes the `size_t` SIZE_MAX, and a connection that
  ends early leaves the status line counted (`http.c:263`): `SectionWhole` is
  about complete sections.
- `src/net/cookiejar.c:87` says that spaces at the end of a value are removed.
  The loop removes `'='` instead: `ParsesCookie` leaves values that end in
  either out.
- `domain2addr` reports that a name has no address, and `tcp_connect` does not
  look (`tcp.c:115`): it goes on with whatever the stack held. `Unresolved` is the
  case that this spells no address; a stale one is a connect like any other, and
  which server it reaches is not in the models.
- `src/net/README.md:94` asks for `http_free` after `http_close`. The transfers of
  the speed test do not call it.
- `README.md` says that the device list needs a build with SSL; `cmd.c` registers
  `devices` with `#ifndef USE_SSL`.
- `account.c:779` says that `devices_parse` returns the number of devices "or -1
  on error". It never returns -1: without a list (`PollCrashes`), or with an object
  that lacks a field (`ParseCrashes`), it gives NULL to `strchr` or `sscanf`.
- `lib/gbuff.h:65` describes the pattern that finds a value between quotes. On an
  empty one, `''`, `%['"]` takes both quotes and what follows is stored, so
  `NID=''` counts as logged in (`logged_in` in Page).
- A saving rate of 100 is shown as "0.100" (`balance.c:49`, a format made for two
  digits); `ShareShown` is about the rate.
- `log.c` prints the name of the level that is logged (`log_level`) and not of the
  line's.

## 7. Plan

Done: every component of the inventory but the digests is modelled and run, and
each safety property and refinement of a run is proved. What is left, in this
order:

1. HttpSection, HttpBody and HttpClient composed: the response of HttpClient as
   what the other two make of the bytes.
2. `cmd_logout` and the readers of a page (`gbuff_extract`, `http_find_header`) as
   operators with a reference definition.
