--------------------------- MODULE MCInProcServer ---------------------------
(* Values of the constants for TLC. *)
EXTENDS InProcServer

CONSTANTS p1, p2

TwoPeers == {p1, p2}
=============================================================================
