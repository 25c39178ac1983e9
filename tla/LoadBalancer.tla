---------------------------- MODULE LoadBalancer ----------------------------
(***************************************************************************)
(* The instances of one service in LoadBalancer.  Every operation holds    *)
(* mutex_, so each is one action; services are separate keys of its maps   *)
(* and do not affect each other.                                           *)
(*                                                                         *)
(* No caller asks for weighted_round_robin or least_connections, which     *)
(* pick any healthy instance at random and change nothing.                 *)
(***************************************************************************)
EXTENDS SequencesExt

CONSTANT Addresses      \* host:port pairs

VARIABLES
    instances,  \* serviceInstances_[serviceName]
    index,      \* currentIndices_[serviceName]
    served      \* history: positions picked in this round of the healthy instances

lbVars == <<instances, index, served>>

Instance == [addr : Addresses, isHealthy : BOOLEAN]
New(a) == [addr |-> a, isHealthy |-> TRUE]

\* Position of the first instance at the address, 0 when there is none.
Find(a) == SelectInSeq(instances, LAMBDA i : i.addr = a)

\* healthyInstances of getNextInstanceRoundRobin, by their positions.
HealthyInstances == {i \in DOMAIN instances : instances[i].isHealthy}

\* The healthy instance at an index of healthyInstances is at address a.
HealthyAt(n, a) ==
    \E i \in HealthyInstances :
        /\ Cardinality({j \in HealthyInstances : j < i}) = n
        /\ a = instances[i].addr

\* A position is picked: it joins the round, which ends with the last one.
Serve(position) ==
    served' = IF served \cup {position} = 0..(Cardinality(HealthyInstances) - 1)
              THEN {} ELSE served \cup {position}

LBInit(registered) ==
    /\ instances = [i \in DOMAIN registered |-> New(registered[i])]
    /\ index = 0
    /\ served = {}

\* An address may be added twice.
AddServiceInstance(a) ==
    /\ instances' = Append(instances, New(a))
    /\ index' = 0
    /\ served' = {}

\* Defect: every instance at the address is erased.
RemoveEveryInstance(a) ==
    /\ instances' = SelectSeq(instances, LAMBDA i : i.addr # a)
    /\ served' = {}
    /\ UNCHANGED index

RemoveServiceInstance(a) ==
    /\ IF Find(a) = 0
       THEN UNCHANGED <<instances, served>>
       ELSE instances' = RemoveAt(instances, Find(a)) /\ served' = {}
    /\ UNCHANGED index

\* Defects: the flag is left alone, or set on the instance that the index
\* (which counts healthy instances) has at that position.
LeaveHealth(a, isHealthy) == UNCHANGED lbVars

UpdateAtIndex(a, isHealthy) ==
    /\ instances' = [instances EXCEPT ![index + 1].isHealthy = isHealthy]
    /\ served' = {}
    /\ UNCHANGED index

UpdateHealthStatus(a, isHealthy) ==
    /\ IF Find(a) = 0 \/ instances[Find(a)].isHealthy = isHealthy
       THEN UNCHANGED <<instances, served>>
       ELSE /\ instances' = [instances EXCEPT ![Find(a)].isHealthy = isHealthy]
            /\ served' = {}
    /\ UNCHANGED index

\* Defect: the modulus counts the unhealthy instances too.
PickAmongAll(a) ==
    LET next == (index + 1) % Len(instances)
        position == IF next < Cardinality(HealthyInstances) THEN next ELSE 0
    IN  /\ HealthyInstances # {}
        /\ index' = next
        /\ HealthyAt(position, a)
        /\ Serve(position)
        /\ UNCHANGED instances

\* Defect: the index is not brought back into the list.
CountPicks(a) ==
    LET position == (index + 1) % Cardinality(HealthyInstances)
    IN  /\ HealthyInstances # {}
        /\ index' = index + 1
        /\ HealthyAt(position, a)
        /\ Serve(position)
        /\ UNCHANGED instances

\* Round robin over the instances that are healthy now: a is the pick.
GetNextHealthyInstance(a) ==
    /\ HealthyInstances # {}
    /\ index' = (index + 1) % Cardinality(HealthyInstances)
    /\ HealthyAt(index', a)
    /\ Serve(index')
    /\ UNCHANGED instances

\* Types of the three variables.
LBTypeOK ==
    /\ instances \in Seq(Instance)
    /\ index \in Nat
    /\ served \in SUBSET Nat

\* A pick never comes back to an instance before every healthy one has been
\* picked, as long as nobody is added, removed or changes health.
EveryRoundServesAll ==
    [][index' # index /\ instances' = instances => index' \notin served]_lbVars
=============================================================================
