----------------------------- MODULE MCMonitor -----------------------------
(* Model checking Monitor: a ring of three, two ticks to the second. *)
EXTENDS Monitor

MCRates == {0, 2}
=============================================================================
