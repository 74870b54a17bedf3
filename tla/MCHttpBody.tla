----------------------------- MODULE MCHttpBody -----------------------------
(***************************************************************************)
(* Model checking GBuff and HttpBody: buffers in use anywhere, and the     *)
(* body of a response.  A size_t has 4 bits; an allocation of more than 7  *)
(* bytes fails.                                                            *)
(***************************************************************************)
EXTENDS HttpBody

\* A Content-Length of -1 and of -2, those that fit, and some that do not.
MCLengths == {-2, -1, 0, 1, 2, 7}

\* The last chunk, those that fit, and those whose room wraps around.
MCSizes == {0, 1, 2, 6, 14, 15}
=============================================================================
