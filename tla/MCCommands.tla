----------------------------- MODULE MCCommands -----------------------------
(* Model checking Commands: lengths on both sides of each boundary. *)
EXTENDS Commands

MCPath == {0, 1, 7}
MCDomain == {0, 4}
MCCookie == {0, 1, 30}
MCData == {0, 9, 10, 99999, 100000000, 999999999}
MCPort == 1..5

MCValues == {1, 39, 40}
MCAddress == {2, 38, 39}
MCCheckCodes == {0, 1, 4, 5}
MCGarbage == {0, 70}
MCChunks == {0, 1, 4}

MCGB == 1024
MCFree == 120 * MCGB
MCFlows == {0, 3, MCFree, MCFree + 1, MCFree + MCGB - 1, MCFree + 17 * MCGB}
MCFlows6 == {0, 3, 4, 40000}
MCFees == {0, 5, 100, 9999, 1145100, 2147483647}
MCModes == {0, 4}
=============================================================================
