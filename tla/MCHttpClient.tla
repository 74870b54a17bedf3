---------------------------- MODULE MCHttpClient ----------------------------
(* Model checking HttpClient: one http_t over two or four descriptors. *)
EXTENDS HttpClient

CONSTANTS c1, f1, f2, f3, f4, k1

OneConn == {c1}
FourFds == {f1, f2, f3, f4}
TwoFds == {f1, f2}
OneCookie == {k1}
=============================================================================
