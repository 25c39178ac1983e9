---------------------------- MODULE ResourcePool ----------------------------
(***************************************************************************)
(* What a pool of reusable resources promises to those who use it, and     *)
(* nothing of how it keeps them: a resource is free or with one holder,    *)
(* only its holder gives it back, and nobody takes what is in use.         *)
(*                                                                         *)
(* The abstract specification of the Gate's pool of StatusClients and of   *)
(* RedisManager's pool of contexts.                                        *)
(***************************************************************************)

CONSTANTS
    Holders,    \* who takes resources, at most one each
    Resources,
    None        \* what a holder without a resource has

VARIABLES
    free,       \* the resources in the pool
    holds       \* the resource of each holder

vars == <<free, holds>>

InUse == {holds[h] : h \in Holders} \ {None}

Init ==
    /\ free \subseteq Resources
    /\ holds = [h \in Holders |-> None]

\* A free resource or a new one is taken; one that was found unfit may go.
Take(h) ==
    /\ holds[h] = None
    /\ holds'[h] \in Resources \ InUse
    /\ holds' = [holds EXCEPT ![h] = holds'[h]]
    /\ free' \subseteq free \ {holds'[h]}

\* A resource goes back, or is dropped because the pool is full.
Give(h) ==
    /\ holds[h] # None
    /\ holds' = [holds EXCEPT ![h] = None]
    /\ \/ free' = free \cup {holds[h]}
       \/ UNCHANGED free

\* Resources that nobody uses are added.
Fill ==
    /\ free \subseteq free'
    /\ free' \subseteq Resources \ InUse
    /\ UNCHANGED holds

\* Free resources go: one that is unfit, or all. What is in use stays in use.
Discard ==
    /\ free' \subseteq free
    /\ UNCHANGED holds

\* The process that keeps the pool starts anew.
Restart ==
    /\ free' \subseteq Resources
    /\ holds' = [h \in Holders |-> None]

Next ==
    \/ \E h \in Holders : Take(h) \/ Give(h)
    \/ Fill
    \/ Discard
    \/ Restart

Spec == Init /\ [][Next]_vars
=============================================================================
