------------------------------ MODULE Commands ------------------------------
(***************************************************************************)
(* src/cmd/cmd.c: cmd_parse runs one command; here one of those of Account *)
(* that send the account, or one of those of Page that show what the       *)
(* account page says.  Both get one http_t and one answer at a time.       *)
(***************************************************************************)
EXTENDS Account, Page

commandVars == <<allVars, pageVars>>

NoPage == /\ command = "none" /\ step = "none" /\ k = 1 /\ info = Zero
          /\ shown = << >> /\ hi = 0 /\ says = Zero

NoAccount ==
  /\ cmd = "none" /\ at = "none" /\ NoRequest
  /\ lines = 0 /\ file = [v \in Name |-> 0] /\ account = [v \in Name |-> 0]
  /\ usev6 = FALSE /\ remain = 0 /\ encoded = 0 /\ colons = 0 /\ code = 0
  /\ text = 0 /\ whole = 0 /\ wild = FALSE

cmd_parse == \/ AccountInit /\ NoPage
             \/ PageInit /\ NoAccount

CommandsNext == \/ AccountNext /\ UNCHANGED pageVars
                \/ PageNext /\ UNCHANGED allVars

CommandsSpec == cmd_parse /\ [][CommandsNext]_commandVars
=============================================================================
