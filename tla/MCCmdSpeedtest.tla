--------------------------- MODULE MCCmdSpeedtest ---------------------------
(* Model checking CmdSpeedtest: four answers of six times, then up to two   *)
(* rounds of three threads over two descriptors.                            *)
EXTENDS CmdSpeedtest

CONSTANTS f1, f2

MCConn == 0 .. ThreadCount - 1
MCTLS == {}
MCFd == {f1, f2}
MCWriter == MCConn \cup {MainThread}
MCRtts == {-1, 0, 1, 2, 4, 7}
=============================================================================
