-------------------------- MODULE ServiceDirectory --------------------------
(***************************************************************************)
(* ServiceRegistry and HealthChecker over the LoadBalancer, for one        *)
(* service.  Registering and unregistering hold the registry's mutex_ over *)
(* two steps, the registry's and the balancer's; the health checker reads  *)
(* the registry under the same mutex_, then probes and updates the         *)
(* balancer without it.                                                    *)
(***************************************************************************)
EXTENDS LoadBalancer

CONSTANTS
    MaxInstances,   \* bound: registrations at one time
    NoAddress       \* no address

ASSUME MaxInstancesAssumption == MaxInstances \in Nat \ {0}
ASSUME NoAddressAssumption == NoAddress \notin Addresses

VARIABLES
    registered, \* registeredServices_[serviceName]
    change,     \* what the holder of the registry's mutex_ still has to do
    running,    \* healthCheckThread_ runs and shouldStop_ is unset
    todo,       \* addresses of the checker's snapshot still to be probed
    probe,      \* result of the probe of Head(todo), or "none"
    reachable   \* addresses where something listens

vars == <<lbVars, registered, change, running, todo, probe, reachable>>

Free == [kind |-> "none", addr |-> NoAddress]
Results == {"none", "up", "down"}

-----------------------------------------------------------------------------
(* ServiceRegistry *)

\* An address may be registered again, by a service that restarts.
RegisterService(a) ==
    /\ change = Free
    /\ Len(registered) < MaxInstances
    /\ registered' = Append(registered, a)
    /\ change' = [kind |-> "add", addr |-> a]
    /\ UNCHANGED <<lbVars, running, todo, probe, reachable>>

UnregisterService(a) ==
    /\ change = Free
    /\ registered' = RemoveFirst(registered, a)
    /\ change' = [kind |-> "remove", addr |-> a]
    /\ UNCHANGED <<lbVars, running, todo, probe, reachable>>

\* The balancer's part, before mutex_ is released.
PassToBalancer ==
    /\ \/ change.kind = "add" /\ AddServiceInstance(change.addr)
       \/ change.kind = "remove" /\ RemoveServiceInstance(change.addr)
    /\ change' = Free
    /\ UNCHANGED <<registered, running, todo, probe, reachable>>

-----------------------------------------------------------------------------
(* HealthChecker *)

StartHealthChecking ==
    /\ ~running
    /\ todo = << >>
    /\ running' = TRUE
    /\ UNCHANGED <<lbVars, registered, change, todo, probe, reachable>>

\* stopHealthChecking waits for the thread, which finishes its round first:
\* StartHealthChecking cannot come before.
StopHealthChecking ==
    /\ running
    /\ running' = FALSE
    /\ UNCHANGED <<lbVars, registered, change, todo, probe, reachable>>

\* getAllRegisteredServices
TakeSnapshot ==
    /\ running
    /\ todo = << >>
    /\ change = Free
    /\ registered # << >>
    /\ todo' = registered
    /\ UNCHANGED <<lbVars, registered, change, running, probe, reachable>>

\* The probe of a service that is up may fail too (name lookup, timeout).
Probe ==
    /\ todo # << >>
    /\ probe = "none"
    /\ probe' \in IF Head(todo) \in reachable THEN {"up", "down"} ELSE {"down"}
    /\ UNCHANGED <<lbVars, registered, change, running, todo, reachable>>

\* Defect: a failed probe is only logged.
ReportOnlyUp ==
    /\ probe # "none"
    /\ IF probe = "up" THEN UpdateHealthStatus(Head(todo), TRUE) ELSE UNCHANGED lbVars
    /\ probe' = "none"
    /\ todo' = Tail(todo)
    /\ UNCHANGED <<registered, change, running, reachable>>

\* The result may be stale, and the address unregistered, by now.
ReportProbe ==
    /\ probe # "none"
    /\ UpdateHealthStatus(Head(todo), probe = "up")
    /\ probe' = "none"
    /\ todo' = Tail(todo)
    /\ UNCHANGED <<registered, change, running, reachable>>

-----------------------------------------------------------------------------

\* A caller of the balancer asks for an instance.
Pick ==
    /\ \E a \in Addresses : GetNextHealthyInstance(a)
    /\ UNCHANGED <<registered, change, running, todo, probe, reachable>>

\* A service comes up or goes down.
Flip(a) ==
    /\ reachable' = IF a \in reachable THEN reachable \ {a} ELSE reachable \cup {a}
    /\ UNCHANGED <<lbVars, registered, change, running, todo, probe>>

Init ==
    /\ LBInit(<< >>)
    /\ registered = << >>
    /\ change = Free
    /\ running = FALSE
    /\ todo = << >>
    /\ probe = "none"
    /\ reachable \in SUBSET Addresses

CheckerStep == TakeSnapshot \/ Probe \/ ReportProbe

Next ==
    \/ \E a \in Addresses : RegisterService(a) \/ UnregisterService(a) \/ Flip(a)
    \/ PassToBalancer
    \/ StartHealthChecking
    \/ StopHealthChecking
    \/ CheckerStep
    \/ Pick

Spec == Init /\ [][Next]_vars

\* The checker's thread keeps running.
FairSpec == Spec /\ WF_vars(CheckerStep)

-----------------------------------------------------------------------------
(* Properties *)

\* Every variable keeps its type, and the balancer's index stays within the
\* longest list, whatever is removed or unhealthy.
TypeOK ==
    /\ LBTypeOK
    /\ index < MaxInstances
    /\ registered \in Seq(Addresses)
    /\ change \in [kind : {"none", "add", "remove"}, addr : Addresses \cup {NoAddress}]
    /\ running \in BOOLEAN
    /\ todo \in Seq(Addresses)
    /\ probe \in Results
    /\ reachable \in SUBSET Addresses

\* Whenever the registry's mutex_ is free, the balancer holds the registered
\* addresses, one instance per registration and in the same order, also when
\* an address is registered twice or unregistered without being registered.
BalancerFollowsRegistry ==
    change = Free => registered = [i \in DOMAIN instances |-> instances[i].addr]

\* A service that stays down is found: once registrations have settled and
\* while the checker keeps running, its (first) instance becomes unhealthy
\* for good, whatever probes were under way when it went down.
DeadServiceIsFound ==
    \A a \in Addresses :
        <>[](running /\ a \notin reachable /\ change = Free)
            => <>[](Find(a) # 0 => ~instances[Find(a)].isHealthy)
=============================================================================
