------------------------ MODULE DatabaseManagerProofs ------------------------
(***************************************************************************)
(* The safety properties of DatabaseManager, proved for any addresses and  *)
(* any instances that a process registers.                                 *)
(***************************************************************************)
EXTENDS DatabaseManager, LoadBalancerProofs

\* What is about to be marked unhealthy has failed, and a lookup that failed
\* leaves the connection for the INSERT.
FailureIsCurrent ==
    /\ operation \in Failures => current \in failed
    /\ operation = "lookupFailed" => connection # "null"
    /\ connected \/ operation # "idle" => current # None

\* The inductive invariant.
IInv ==
    /\ TypeOK
    /\ FailureIsCurrent
    /\ StatementsHaveConnection
    /\ UnhealthyInstancesFailed

-----------------------------------------------------------------------------

\* The initial states satisfy the inductive invariant.
LEMMA InitIInv == Init => IInv
  <1>. SUFFICES ASSUME Init PROVE IInv
    OBVIOUS
  <1>. USE DEF Init, LBInit
  <1>1. /\ instances \in Seq(Instance)
        /\ \A i \in DOMAIN instances : instances[i].isHealthy
    <2>1. Registered \in Seq(Addresses)
      BY RegisteredAssumption
    <2>2. \A i \in DOMAIN Registered : Registered[i] \in Addresses
      BY <2>1
    <2>3. \A i \in DOMAIN Registered :
            New(Registered[i]) \in Instance /\ New(Registered[i]).isHealthy
      BY <2>2 DEF New, Instance
    <2>4. DOMAIN Registered = 1..Len(Registered) /\ Len(Registered) \in Nat
      BY <2>1
    <2>5. instances = [i \in 1..Len(Registered) |-> New(Registered[i])]
      BY <2>4
    <2>. QED  BY <2>3, <2>4, <2>5
  <1>2. TypeOK
    <2>1. index = 0 /\ Len(instances) # 0
      <3>1. DOMAIN instances = DOMAIN Registered /\ Len(Registered) # 0
        BY RegisteredAssumption
      <3>2. Len(instances) = Len(Registered)
        BY <1>1, <3>1, RegisteredAssumption
      <3>. QED  BY <3>1, <3>2
    <2>2. index < Len(instances)
      BY <1>1, <2>1
    <2>3. LBTypeOK /\ index < Len(instances)
      BY <1>1, <2>1, <2>2 DEF LBTypeOK
    <2>. QED  BY <2>3 DEF TypeOK
  <1>3. FailureIsCurrent /\ StatementsHaveConnection
    BY DEF FailureIsCurrent, StatementsHaveConnection, Failures, Statements
  <1>4. UnhealthyInstancesFailed
    BY <1>1 DEF UnhealthyInstancesFailed
  <1>. QED  BY <1>2, <1>3, <1>4 DEF IInv

\* Every step keeps the inductive invariant.
LEMMA NextIInv == IInv /\ [Next]_vars => IInv'
  <1>. SUFFICES ASSUME IInv, [Next]_vars PROVE IInv'
    OBVIOUS
  <1>. USE DEF IInv, TypeOK, LBTypeOK, FailureIsCurrent, StatementsHaveConnection,
               UnhealthyInstancesFailed, Statements, Failures
  <1>1. ASSUME NEW statement \in Statements, UseConnection(statement)
        PROVE  IInv'
    BY <1>1 DEF UseConnection, lbVars
  <1>2. ASSUME NEW statement \in Statements, Connect(statement)
        PROVE  IInv'
    <2>1. PICK a \in up : GetNextHealthyInstance(a) /\ current' = a
      BY <1>2 DEF Connect
    <2>2. LBTypeOK' /\ instances' = instances /\ index' < Len(instances)
      BY <2>1, PickFacts
    <2>3. a \in Addresses /\ a # None
      BY NoneAssumption
    <2>. QED  BY <1>2, <2>1, <2>2, <2>3 DEF Connect
  <1>3. CASE ConnectFails
    <2>1. PICK a \in Addresses :
            /\ GetNextHealthyInstance(a)
            /\ current' = a
            /\ failed' = failed \cup {a}
      BY <1>3 DEF ConnectFails
    <2>2. LBTypeOK' /\ instances' = instances /\ index' < Len(instances)
      BY <2>1, PickFacts
    <2>3. a # None
      BY NoneAssumption
    <2>. QED  BY <1>3, <2>1, <2>2, <2>3 DEF ConnectFails
  <1>4. CASE StatementSucceeds
    BY <1>4 DEF StatementSucceeds, lbVars
  <1>5. CASE StatementFails
    BY <1>5 DEF StatementFails, lbVars
  <1>6. CASE MarkUnhealthy
    <2>1. /\ instances' \in Seq(Instance)
          /\ DOMAIN instances' = DOMAIN instances
          /\ \A i \in DOMAIN instances :
               /\ instances'[i].addr = instances[i].addr
               /\ \/ instances'[i].isHealthy = instances[i].isHealthy
                  \/ instances[i].addr = current /\ instances'[i].isHealthy = FALSE
      BY <1>6, MarkFacts DEF MarkUnhealthy
    <2>2. current \in failed /\ failed' = failed
      BY <1>6 DEF MarkUnhealthy
    <2>3. UnhealthyInstancesFailed'
      BY <2>1, <2>2
    <2>4. Len(instances') = Len(instances)
      BY <2>1
    <2>5. index' = index /\ served' \in {served, {}}
      BY <1>6 DEF MarkUnhealthy, UpdateHealthStatus
    <2>6. TypeOK'
      BY <1>6, <2>1, <2>4, <2>5 DEF MarkUnhealthy
    <2>7. FailureIsCurrent' /\ StatementsHaveConnection'
      BY <1>6 DEF MarkUnhealthy
    <2>. QED  BY <2>3, <2>6, <2>7
  <1>7. CASE Disconnect
    BY <1>7 DEF Disconnect, lbVars
  <1>8. ASSUME NEW a \in Addresses, ServerStops(a)
        PROVE  IInv'
    BY <1>8 DEF ServerStops, lbVars
  <1>9. ASSUME NEW a \in Addresses, ServerStarts(a)
        PROVE  IInv'
    BY <1>9 DEF ServerStarts, lbVars, dbVars
  <1>10. CASE UNCHANGED vars
    BY <1>10 DEF vars, lbVars, dbVars
  <1>. QED  BY <1>1, <1>2, <1>3, <1>4, <1>5, <1>6, <1>7, <1>8, <1>9, <1>10
            DEF Next, Request, Proceed

-----------------------------------------------------------------------------

\* The inductive invariant holds in every reachable state.
LEMMA InvariantHolds == Spec => []IInv
  BY InitIInv, NextIInv, PTL DEF Spec

\* Types, and the range of the balancer's index, which counts the instances
\* that are healthy now, whatever order they fail in.
THEOREM TypeCorrect == Spec => []TypeOK
  BY InvariantHolds, PTL DEF IInv

\* No statement runs on a null connection, whatever attempt or statement
\* failed before it, in whatever order servers stop and start.
THEOREM StatementsAreConnected == Spec => []StatementsHaveConnection
  BY InvariantHolds, PTL DEF IInv

\* Only instances where something failed are marked unhealthy, also when
\* addresses are registered several times.
THEOREM OnlyFailedAreUnhealthy == Spec => []UnhealthyInstancesFailed
  BY InvariantHolds, PTL DEF IInv

-----------------------------------------------------------------------------
(* There is no way back *)

\* No instance is healthy and no connection is open.
GivenUp == ~connected /\ HealthyInstances = {}

\* A dead connection is never replaced by a live one, only given back.
DeadUntilDisconnected ==
    [][connection = "dead" => connection' # "live"]_vars

\* Nothing makes an instance healthy again.
LEMMA HealthyShrink ==
    IInv /\ [Next]_vars => HealthyInstances' \subseteq HealthyInstances
  <1>. SUFFICES ASSUME IInv, [Next]_vars
                PROVE  HealthyInstances' \subseteq HealthyInstances
    OBVIOUS
  <1>1. LBTypeOK
    BY DEF IInv, TypeOK
  <1>2. CASE MarkUnhealthy
    <2>1. /\ DOMAIN instances' = DOMAIN instances
          /\ \A i \in DOMAIN instances :
               \/ instances'[i].isHealthy = instances[i].isHealthy
               \/ instances'[i].isHealthy = FALSE
      BY <1>1, <1>2, MarkFacts DEF MarkUnhealthy, LBTypeOK
    <2>. QED  BY <2>1 DEF HealthyInstances
  <1>3. ASSUME instances' = instances
        PROVE  HealthyInstances' \subseteq HealthyInstances
    BY <1>3 DEF HealthyInstances
  <1>4. ASSUME NEW statement \in Statements, UseConnection(statement) \/ Connect(statement)
        PROVE  instances' = instances
    BY <1>4 DEF UseConnection, Connect, GetNextHealthyInstance, lbVars
  <1>5. CASE ConnectFails \/ StatementSucceeds \/ StatementFails \/ Disconnect
    BY <1>3, <1>5
    DEF ConnectFails, StatementSucceeds, StatementFails, Disconnect,
        GetNextHealthyInstance, lbVars
  <1>6. ASSUME NEW a \in Addresses, ServerStops(a) \/ ServerStarts(a)
        PROVE  instances' = instances
    BY <1>6 DEF ServerStops, ServerStarts, lbVars
  <1>7. CASE UNCHANGED vars
    BY <1>3, <1>7 DEF vars, lbVars
  <1>. QED  BY <1>2, <1>3, <1>4, <1>5, <1>6, <1>7 DEF Next, Request, Proceed

\* Connecting is given up for good: when every instance was marked unhealthy
\* and the connection is closed, the process never connects again, even if all
\* of its database servers come back.
THEOREM GivingUpIsFinal == Spec => [](GivenUp => []GivenUp)
  <1>1. IInv /\ GivenUp /\ [Next]_vars => GivenUp'
    <2>. SUFFICES ASSUME IInv, GivenUp, [Next]_vars PROVE GivenUp'
      OBVIOUS
    <2>1. HealthyInstances' = {} /\ HealthyInstances = {} /\ ~connected
      BY HealthyShrink DEF GivenUp
    <2>2. ~connected'
      BY <2>1
      DEF Next, Request, Proceed, UseConnection, Connect, ConnectFails, Disconnect,
          StatementSucceeds, StatementFails, MarkUnhealthy, ServerStops, ServerStarts,
          GetNextHealthyInstance, vars, dbVars
    <2>. QED  BY <2>1, <2>2 DEF GivenUp
  <1>. QED  BY <1>1, InvariantHolds, PTL DEF Spec

\* A connection whose server stopped stays in the way: no attempt is made, and
\* so no failover, before it is given back by the destructor or the signal
\* handler.
THEOREM DeadConnectionIsKept == Spec => DeadUntilDisconnected
  <1>1. IInv /\ [Next]_vars => [connection = "dead" => connection' # "live"]_vars
    <2>. SUFFICES ASSUME IInv, [Next]_vars, connection = "dead"
                  PROVE  connection' # "live"
      OBVIOUS
    <2>1. connected
      BY DEF IInv, StatementsHaveConnection
    <2>. QED  BY <2>1
         DEF Next, Request, Proceed, UseConnection, Connect, ConnectFails, Disconnect,
             StatementSucceeds, StatementFails, MarkUnhealthy, ServerStops, ServerStarts,
             vars, dbVars
  <1>. QED  BY <1>1, InvariantHolds, PTL DEF Spec, DeadUntilDisconnected

-----------------------------------------------------------------------------
(* Whether attempts come to an end *)

\* The addresses are those of the registration, for ever.
AddressesStay ==
    /\ DOMAIN instances = DOMAIN Registered
    /\ \A i \in DOMAIN instances : instances[i].addr = Registered[i]

\* An attempt that failed is about to be marked on an instance that is healthy.
AttemptIsHealthy ==
    operation \in Failures /\ ~connected =>
        \E i \in HealthyInstances : instances[i].addr = current

\* The part of the invariant that is about attempts.
AttemptInv ==
    /\ AddressesStay
    /\ AttemptIsHealthy
    /\ LaterOnesStayHealthy

\* The instances are made from the registration.
LEMMA InitAttempt == Init => AttemptInv
  <1>. SUFFICES ASSUME Init PROVE AttemptInv
    OBVIOUS
  <1>1. /\ DOMAIN instances = DOMAIN Registered
        /\ \A i \in DOMAIN instances :
             instances[i].addr = Registered[i] /\ instances[i].isHealthy
    BY DEF Init, LBInit, New
  <1>2. operation \notin Failures
    BY DEF Init, Failures
  <1>. QED  BY <1>1, <1>2
       DEF AttemptInv, AddressesStay, AttemptIsHealthy, LaterOnesStayHealthy

\* The list changes only when a failure is marked.
LEMMA ListSteps ==
    ASSUME [Next]_vars
    PROVE  MarkUnhealthy \/ instances' = instances
  <1>1. ASSUME NEW statement \in Statements, UseConnection(statement) \/ Connect(statement)
        PROVE  instances' = instances
    BY <1>1 DEF UseConnection, Connect, GetNextHealthyInstance, lbVars
  <1>2. CASE ConnectFails \/ StatementSucceeds \/ StatementFails \/ Disconnect
    BY <1>2 DEF ConnectFails, StatementSucceeds, StatementFails, Disconnect,
                GetNextHealthyInstance, lbVars
  <1>3. ASSUME NEW a \in Addresses, ServerStops(a) \/ ServerStarts(a)
        PROVE  instances' = instances
    BY <1>3 DEF ServerStops, ServerStarts, lbVars
  <1>4. CASE UNCHANGED vars
    BY <1>4 DEF vars, lbVars
  <1>. QED  BY <1>1, <1>2, <1>3, <1>4 DEF Next, Request, Proceed

\* An attempt is only made on an instance that was healthy at the time, and
\* mutex_ is held until it is marked.
LEMMA NextAttempt == IInv /\ AttemptInv /\ [Next]_vars => AttemptInv'
  <1>. SUFFICES ASSUME IInv, AttemptInv, [Next]_vars PROVE AttemptInv'
    OBVIOUS
  <1>0. /\ instances \in Seq(Instance)
        /\ AddressesStay /\ AttemptIsHealthy /\ LaterOnesStayHealthy
        /\ StatementsHaveConnection
    BY DEF IInv, TypeOK, LBTypeOK, AttemptInv
  <1>1. CASE MarkUnhealthy
    <2>1. UpdateHealthStatus(current, FALSE) /\ operation' \notin Failures
      BY <1>1 DEF MarkUnhealthy, Failures
    <2>2. AddressesStay'
      BY <1>0, <2>1, MarkFacts DEF AddressesStay
    <2>3. LaterOnesStayHealthy'
      BY <1>0, <2>1, MarkKeepsLater
    <2>. QED  BY <2>1, <2>2, <2>3 DEF AttemptInv, AttemptIsHealthy
  <1>2. CASE instances' = instances
    <2>1. AddressesStay' /\ LaterOnesStayHealthy'
      BY <1>0, <1>2, SameKeepsLater DEF AddressesStay
    <2>2. HealthyInstances' = HealthyInstances
      BY <1>2 DEF HealthyInstances
    <2>3. ASSUME UNCHANGED <<operation, connected, current>>
          PROVE  AttemptIsHealthy'
      BY <1>0, <1>2, <2>2, <2>3 DEF AttemptIsHealthy
    <2>4. AttemptIsHealthy'
      <3>1. ASSUME NEW statement \in Statements, UseConnection(statement) \/ Connect(statement)
            PROVE  AttemptIsHealthy'
        BY <3>1 DEF UseConnection, Connect, AttemptIsHealthy, Failures, Statements
      <3>2. CASE ConnectFails
        <4>1. PICK a \in Addresses : GetNextHealthyInstance(a) /\ current' = a
          BY <3>2 DEF ConnectFails
        <4>2. \E i \in HealthyInstances : a = instances[i].addr
          BY <4>1 DEF GetNextHealthyInstance, HealthyAt
        <4>. QED  BY <1>2, <2>2, <4>1, <4>2 DEF AttemptIsHealthy
      <3>3. CASE StatementFails
        <4>1. connected /\ connected' = connected
          BY <1>0, <3>3 DEF StatementFails, StatementsHaveConnection
        <4>. QED  BY <4>1 DEF AttemptIsHealthy
      <3>4. CASE StatementSucceeds
        BY <3>4 DEF StatementSucceeds, AttemptIsHealthy, Failures
      <3>5. CASE MarkUnhealthy
        BY <3>5 DEF MarkUnhealthy, AttemptIsHealthy, Failures
      <3>6. CASE Disconnect
        BY <3>6 DEF Disconnect, AttemptIsHealthy, Failures
      <3>7. ASSUME NEW a \in Addresses, ServerStops(a) \/ ServerStarts(a)
            PROVE  AttemptIsHealthy'
        BY <2>3, <3>7 DEF ServerStops, ServerStarts, dbVars
      <3>8. CASE UNCHANGED vars
        BY <2>3, <3>8 DEF vars, dbVars
      <3>. QED  BY <3>1, <3>2, <3>3, <3>4, <3>5, <3>6, <3>7, <3>8 DEF Next, Request, Proceed
    <2>. QED  BY <2>1, <2>4 DEF AttemptInv
  <1>. QED  BY <1>1, <1>2, ListSteps

\* The invariant about attempts holds in every reachable state.
LEMMA AttemptInvHolds == Spec => []AttemptInv
  BY InitAttempt, NextAttempt, InvariantHolds, PTL DEF Spec

\* No address is registered twice.
RegisteredOnce ==
    \A i, j \in DOMAIN Registered : Registered[i] = Registered[j] => i = j

\* The healthy instance that an attempt was made on is no longer healthy.
UsesUpInstance ==
    \E i \in HealthyInstances : /\ instances[i].addr = current
                                /\ HealthyInstances' = HealthyInstances \ {i}

\* Every attempt that fails uses up one healthy instance.
AttemptsRunOut ==
    [][(operation \in Failures /\ operation' \notin Failures /\ ~connected)
         => UsesUpInstance]_vars

\* When no address is registered twice, the round robin never hands out an
\* instance that has failed and connecting is given up after at most as many
\* failures as there are instances, whatever their order.
THEOREM EveryFailureCounts == ASSUME RegisteredOnce PROVE Spec => AttemptsRunOut
  <1>1. IInv /\ AttemptInv /\ [Next]_vars =>
          [(operation \in Failures /\ operation' \notin Failures /\ ~connected)
             => UsesUpInstance]_vars
    <2>. SUFFICES ASSUME IInv, AttemptInv, [Next]_vars,
                         operation \in Failures, operation' \notin Failures, ~connected
                  PROVE  UsesUpInstance
      OBVIOUS
    <2>0. instances \in Seq(Instance) /\ AddressesStay /\ AttemptIsHealthy
      BY DEF IInv, TypeOK, LBTypeOK, AttemptInv
    <2>1. MarkUnhealthy
      <3>1. operation # "idle" /\ operation \notin Statements /\ operation' # operation
        BY DEF Failures, Statements
      <3>2. ASSUME NEW statement \in Statements
            PROVE  ~UseConnection(statement) /\ ~Connect(statement)
        BY <3>1 DEF UseConnection, Connect
      <3>3. ASSUME NEW a \in Addresses
            PROVE  ~ServerStops(a) /\ ~ServerStarts(a)
        BY <3>1 DEF ServerStops, ServerStarts, dbVars
      <3>. QED  BY <3>1, <3>2, <3>3
           DEF Next, Request, Proceed, ConnectFails, StatementSucceeds, StatementFails,
               Disconnect, vars, dbVars
    <2>2. UpdateHealthStatus(current, FALSE)
      BY <2>1 DEF MarkUnhealthy
    <2>3. PICK i \in HealthyInstances : instances[i].addr = current
      BY <2>0 DEF AttemptIsHealthy
    <2>4. i \in DOMAIN instances
      BY DEF HealthyInstances
    <2>5. Find(current) = i
      <3>1. /\ Find(current) \in DOMAIN instances
            /\ instances[Find(current)].addr = current
        BY <2>0, <2>3, <2>4, FindFirst
      <3>. QED  BY <2>0, <2>3, <2>4, <3>1 DEF AddressesStay, RegisteredOnce
    <2>6. i # 0
      BY <2>0, <2>4
    <2>7. /\ DOMAIN instances' = DOMAIN instances
          /\ instances'[i].isHealthy = FALSE
          /\ \A j \in DOMAIN instances :
               j # i => instances'[j].isHealthy = instances[j].isHealthy
      BY <2>0, <2>2, <2>5, <2>6, MarkFacts, MarkHitsFirst
    <2>8. HealthyInstances' = HealthyInstances \ {i}
      BY <2>4, <2>7 DEF HealthyInstances
    <2>. QED  BY <2>3, <2>8 DEF UsesUpInstance
  <1>. QED  BY <1>1, InvariantHolds, AttemptInvHolds, PTL DEF Spec, AttemptsRunOut

\* When an address is registered twice, some instance is healthy for ever: a
\* process whose servers are all down never gives connecting up.
THEOREM TwiceIsNeverGivenUp ==
    ASSUME ~RegisteredOnce PROVE Spec => [](HealthyInstances # {})
  <1>1. IInv /\ AttemptInv => HealthyInstances # {}
    <2>. SUFFICES ASSUME IInv, AttemptInv PROVE HealthyInstances # {}
      OBVIOUS
    <2>0. AddressesStay /\ LaterOnesStayHealthy
      BY DEF AttemptInv
    <2>1. PICK i, j \in DOMAIN Registered : Registered[i] = Registered[j] /\ i # j
      BY DEF RegisteredOnce
    <2>2. PICK k, l \in DOMAIN instances : k < l /\ instances[k].addr = instances[l].addr
      <3>1. DOMAIN Registered \subseteq Nat
        BY RegisteredAssumption
      <3>2. i < j \/ j < i
        BY <2>1, <3>1
      <3>. QED  BY <2>0, <2>1, <3>2 DEF AddressesStay
    <2>3. instances[l].isHealthy
      BY <2>0, <2>2 DEF LaterOnesStayHealthy
    <2>. QED  BY <2>3 DEF HealthyInstances
  <1>. QED  BY <1>1, InvariantHolds, AttemptInvHolds, PTL
=============================================================================
