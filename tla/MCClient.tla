------------------------------ MODULE MCClient ------------------------------
(***************************************************************************)
(* Client for TLC: two users of one client, two requests in flight, and a  *)
(* stack of three pages, so that login pages can pile up below the top.    *)
(***************************************************************************)
EXTENDS Client

CONSTANTS u1, u2, r1, r2

TwoUsers == {u1, u2}
TwoRequests == {r1, r2}
=============================================================================
