---------------------------- MODULE MCGateServer ----------------------------
(***************************************************************************)
(* GateServer for TLC. With two sessions, a user reconnects while the old  *)
(* session's handlers are still pending, or two users talk; with a pool of *)
(* one client, both the pooled and the extra client are handed out.        *)
(***************************************************************************)
EXTENDS GateServer

CONSTANTS u1, u2, s1, s2

TwoUsers == {u1, u2}
TwoSessions == {s1, s2}
OneUser == {u1}
=============================================================================
