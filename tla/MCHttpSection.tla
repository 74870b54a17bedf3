--------------------------- MODULE MCHttpSection ---------------------------
(* Model checking HttpSection: every response of up to MaxSent bytes. *)
EXTENDS HttpSection
=============================================================================
