-------------------------------- MODULE MCTcp --------------------------------
(* Model checking Tcp: two plain connections and a TLS one over two descriptors. *)
EXTENDS Tcp, TLC

CONSTANTS c1, c2, c3, f1, f2

MCConn == {c1, c2, c3}
MCTLS == {c2}
MCFd == {f1, f2}
MCSymmetry == Permutations({c1, c3}) \cup Permutations(MCFd)
=============================================================================
