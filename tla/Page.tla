-------------------------------- MODULE Page --------------------------------
(***************************************************************************)
(* The account page: src/cmd/info.c reads eight variables from it, one     *)
(* after the other, into an info_t; src/cmd/balance.c shows them (cmd_info *)
(* and cmd_fee, with src/calc/fee.c and flow.c), and so does cmd_whoami of *)
(* src/cmd/account.c.                                                      *)
(*                                                                         *)
(* A text is 0 if empty, 1 if it is the page's, 2 if it is what follows an *)
(* empty one: %['"] of gbuff_extract takes both quotes of a ''.            *)
(***************************************************************************)
EXTENDS Integers, Sequences, FiniteSets

CONSTANTS GB,        \* in KB
          FreeFlow,  \* FREE_FLOW_KB
          FeePerGB,  \* FEE_PER_1000GB
          FeeStrLen, \* sizeof(fee_str)
          Decimals,  \* the n of fee_format: 4
          Flows, Flows6, Fees, Modes \* what the page may say

ASSUME PageAssumption == /\ GB \in Nat \ {0} /\ FreeFlow \in Nat
                         /\ FeePerGB \in Nat /\ FeeStrLen \in Nat
                         /\ Decimals \in 3..8
                         /\ Flows \cup Flows6 \cup Fees \cup Modes \subseteq Nat

VARIABLES command, \* "info", "fee", "whoami"
          step,    \* what it does next, or how it ended
          k,       \* the variable to extract
          info,    \* the info_t
          shown,   \* what was printed: a rate, or the digits of two fees
          hi,      \* the last index of fee_str written
          says     \* history: what the page said of the variables read

pageVars == <<command, step, k, info, shown, hi, says>>

Order == <<"uid", "NID", "flow", "v6df", "v46m", "fee", "v4ip", "v6ip">>
Variable == {Order[j] : j \in 1 .. Len(Order)}

Values(v) == CASE v = "flow" -> Flows
               [] v = "v6df" -> Flows6
               [] v = "fee" -> Fees
               [] v = "v46m" -> Modes
               [] v \in {"uid", "NID"} -> {0, 1, 2}
               [] OTHER -> {1}

Zero == [v \in Variable |-> 0]

\* The info_t is on the stack: what it holds is left from another call.
PageInit == /\ command \in {"info", "fee", "whoami"}
            /\ step = "get" /\ k = 1
            /\ info = [v \in Variable |-> 1]
            /\ shown = << >> /\ hi = 0 /\ says = Zero

------------------------------------------------------------------------------
(* info_extract *)

\* http_init fails, or http_get_root returns NULL.
GetFails == /\ step = "get"
            /\ step' = "failed"
            /\ UNCHANGED <<command, k, info, shown, hi, says>>

\* memset
Cleared == Zero

\* There is a "<script" in it, or nothing is read.
GetPage == /\ step = "get"
           /\ info' = Cleared
           /\ step' \in {"extract", "incomplete"}
           /\ UNCHANGED <<command, k, shown, hi, says>>

\* A value that is not a number leaves its 0.
ExtractOk(value) ==
  /\ step = "extract" /\ k <= Len(Order)
  /\ info' = [info EXCEPT ![Order[k]] = value]
  /\ says' = [says EXCEPT ![Order[k]] = value]
  /\ k' = k + 1
  /\ UNCHANGED <<command, step, shown, hi>>

\* The variable is not in the page: the others stay as memset left them.
ExtractFails == /\ step = "extract" /\ k <= Len(Order)
                /\ step' = "incomplete"
                /\ UNCHANGED <<command, k, info, shown, hi, says>>

\* IPv6 traffic is counted four times.
ExtractDone == /\ step = "extract" /\ k > Len(Order)
               /\ info' = [info EXCEPT !["v6df"] = @ \div 4]
               /\ step' = "print"
               /\ UNCHANGED <<command, k, shown, hi, says>>

logged_in == info["NID"] # 0

\* "Login required.", or nothing is said.
Incomplete == /\ step = "incomplete"
              /\ step' = IF logged_in THEN "failed" ELSE "login"
              /\ UNCHANGED <<command, k, info, shown, hi, says>>

------------------------------------------------------------------------------
(* src/calc *)

flow_over(flow) == IF flow > FreeFlow THEN flow - FreeFlow ELSE 0

\* Mutant: a part of a GB costs as much as a whole one
fee_cost_Up(flow) == FeePerGB * ((flow_over(flow) + GB - 1) \div GB)

fee_cost(flow) == FeePerGB * (flow_over(flow) \div GB)

\* Balance and cost are of type unsigned, and what takes ten digits fits.
ASSUME FeesAssumption ==
  /\ \A fee \in Fees \cup {fee_cost(flow) : flow \in Flows} : fee \div 10 ^ 9 < 10
  /\ FeeStrLen > 10

Dot == 10
NUL == 11

\* The characters "%0<n+1>ld" prints of an unsigned number.
Width(number) == LET digits == 1 + Cardinality({j \in 1..9 : number >= 10 ^ j})
                 IN  IF digits > Decimals THEN digits ELSE Decimals + 1

\* assign_decimal: the text is printed without a point, two of its digits move
\* to the right by one, and the point and the '\0' are written around them.
\* (fee_format is its one caller and gives it no negative number.)
assign_decimal(number) ==
  IF number = 0 THEN [text |-> <<0>>, last |-> 1]
  ELSE LET w == Width(number)
           s == w - Decimals
           buf == [j \in 0 .. w + 3 |-> IF j < w THEN (number \div 10 ^ (w - 1 - j)) % 10
                                              ELSE NUL]
           moved == [buf EXCEPT ![s + 1] = buf[s], ![s + 2] = buf[s + 1],
                                ![s] = Dot, ![s + 3] = NUL]
           end == CHOOSE j \in 0 .. w + 3 : /\ moved[j] = NUL
                                            /\ \A i \in 0 .. j - 1 : moved[i] # NUL
       IN  [text |-> [j \in 1 .. end |-> moved[j - 1]],
            last |-> IF s + 3 > w THEN s + 3 ELSE w]

------------------------------------------------------------------------------
(* the commands *)

Shows(what, last) == /\ shown' = what /\ hi' = last
                     /\ step' = "done"
                     /\ UNCHANGED <<command, k, info, says>>

Total == info["flow"] + info["v6df"]

\* Mutant: the division comes before the multiplication
saving_rate_Early == 100 * (info["v6df"] \div Total)

saving_rate == (100 * info["v6df"]) \div Total

info_print == /\ step = "print" /\ command = "info"
              /\ Total > 0
              /\ Shows(<<saving_rate>>, 0)

\* The division by 0 of the first page of a month.
InfoCrashes == /\ step = "print" /\ command = "info"
               /\ Total = 0
               /\ step' = "crashed"
               /\ UNCHANGED <<command, k, info, shown, hi, says>>

cmd_fee ==
  /\ step = "print" /\ command = "fee"
  /\ LET cost == assign_decimal(fee_cost(info["flow"]))
         left == assign_decimal(info["fee"])
     IN  IF flow_over(info["flow"]) > 0
         THEN Shows(<<cost.text, left.text>>,
                    IF cost.last > left.last THEN cost.last ELSE left.last)
         ELSE Shows(<< <<0>>, left.text>>, left.last)

cmd_whoami ==
  /\ step = "print" /\ command = "whoami"
  /\ IF info["uid"] # 0 /\ info["NID"] # 0
     THEN Shows(<<info["uid"], info["NID"]>>, 0)
     ELSE step' = "failed" /\ UNCHANGED <<command, k, info, shown, hi, says>>

PageNext == \/ GetFails \/ GetPage
            \/ (k <= Len(Order) /\ \E value \in Values(Order[k]) : ExtractOk(value))
            \/ ExtractFails \/ ExtractDone \/ Incomplete
            \/ info_print \/ InfoCrashes \/ cmd_fee \/ cmd_whoami

------------------------------------------------------------------------------

\* What cmd_info says IPv6 has saved is the share of a quarter of the page's
\* IPv6 counter in all traffic, rounded down, and it fails only if there was
\* none of either.  A rate of 100 is shown too, as "0.100".
ShareShown ==
  LET v6 == says["v6df"] \div 4
      all == says["flow"] + v6 IN
  /\ step = "crashed" => all = 0
  /\ step = "done" /\ command = "info" =>
       \A rate \in 0..100 :
         rate <= shown[1] <=> rate * all <= 100 * v6

\* The number a text with two decimals stands for, in hundredths.
Hundredths(text) ==
  LET len == Len(text)
      At[j \in 0 .. len] ==
        IF j = 0 THEN 0 ELSE IF text[j] = Dot THEN At[j - 1] ELSE 10 * At[j - 1] + text[j]
  IN  IF text = <<0>> THEN 0 ELSE At[len]

\* What cmd_fee shows is money: the balance and the cost of the whole GB over
\* the free ones, cut to two decimals, none lost or misplaced; and the text,
\* with the '\0' behind the moved digits, is in its buffer.
FeeShown == step = "done" /\ command = "fee" =>
  LET scale == 10 ^ (Decimals - 2)
      over == says["flow"] - FreeFlow IN
  /\ hi < FeeStrLen
  /\ \A j \in 1 .. 2 : shown[j] = <<0>> \/ shown[j][Len(shown[j]) - 2] = Dot
  /\ Hundredths(shown[2]) = says["fee"] \div scale
  /\ Hundredths(shown[1]) =
       IF over < GB THEN 0 ELSE (FeePerGB * (over \div GB)) \div scale
=============================================================================
