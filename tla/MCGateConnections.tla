------------------------- MODULE MCGateConnections -------------------------
(***************************************************************************)
(* GateConnections for TLC. With as many descriptors as peers, sessions    *)
(* and HTTP connections run beside each other; with one less, a peer waits *)
(* while the other has the descriptor, closes it, keeps it or is upgraded. *)
(***************************************************************************)
EXTENDS GateConnections

CONSTANTS u1, u2, s1, s2

OneUser == {u1}
TwoUsers == {u1, u2}
TwoSessions == {s1, s2}
=============================================================================
