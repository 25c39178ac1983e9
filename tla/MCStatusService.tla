-------------------------- MODULE MCStatusService --------------------------
(***************************************************************************)
(* StatusService for TLC: two calls at a time over two users, which is     *)
(* what every overlap of two handlers needs.                               *)
(***************************************************************************)
EXTENDS StatusService, TLC

CONSTANTS c1, c2, u1, u2, u3

TwoCalls == {c1, c2}
TwoUsers == {u1, u2}
ThreeUsers == {u1, u2, u3}
TwoStatuses == {"OFFLINE", "ONLINE"}

\* The user whose status changes and the one who watches it; either may ask
\* the other to be friends, and the watcher asks a user without an account.
Reporter == {u1}
Watcher == {u2}
BothWaysAndStranger == {<<u1, u2>>, <<u2, u1>>, <<u2, u3>>}

\* Calls are only compared for equality.
Symmetry == Permutations(TwoCalls)
=============================================================================
