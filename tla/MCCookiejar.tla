---------------------------- MODULE MCCookiejar ----------------------------
(* Model checking Cookiejar: one long header, and shorter ones behind it. *)
EXTENDS Cookiejar
=============================================================================
