-------------------------- MODULE MCRedisManager --------------------------
(***************************************************************************)
(* RedisManager for TLC: more threads than pooled connections, so the pool *)
(* runs empty and overflows, and one context more than are ever allocated. *)
(***************************************************************************)
EXTENDS RedisManager

CONSTANTS t1, t2, t3, c1, c2, c3, c4

ThreeThreads == {t1, t2, t3}
FourContexts == {c1, c2, c3, c4}
=============================================================================
