----------------------- MODULE ServiceDirectoryProofs -----------------------
(***************************************************************************)
(* That the balancer holds what is registered and that its round robin     *)
(* leaves nobody out, proved for any addresses and any number of           *)
(* registrations, several of one address included.                         *)
(***************************************************************************)
EXTENDS ServiceDirectory, LoadBalancerProofs

\* While the holder of the registry's mutex_ has a change to pass on, the
\* registry is that one change ahead of the balancer.
RegistryIsAhead ==
    \/ /\ change = Free
       /\ registered = AddressesOf(instances)
    \/ /\ change.kind = "add"
       /\ change.addr \in Addresses
       /\ registered = Append(AddressesOf(instances), change.addr)
    \/ /\ change.kind = "remove"
       /\ change.addr \in Addresses
       /\ registered = RemoveFirst(AddressesOf(instances), change.addr)

\* The part of the invariant that is about the registry.
RegistryInv ==
    /\ instances \in Seq(Instance)
    /\ RegistryIsAhead

\* The bound on registrations is the balancer's, too, and a probe has a result
\* only while its address waits.
Bounds ==
    /\ Len(registered) <= MaxInstances
    /\ Len(instances) <= MaxInstances
    /\ probe # "none" => todo # << >>

\* The inductive invariant.
IInv ==
    /\ TypeOK
    /\ RegistryInv
    /\ Bounds
    /\ RoundIsArc

-----------------------------------------------------------------------------

\* Registry and balancer begin empty.
LEMMA InitRegistry == Init => RegistryInv
  <1>. SUFFICES ASSUME Init PROVE RegistryInv
    OBVIOUS
  <1>1. instances = << >> /\ registered = << >> /\ change = Free
    BY DEF Init, LBInit
  <1>2. instances \in Seq(Instance)
    BY <1>1
  <1>3. AddressesOf(instances) = << >>
    BY <1>1 DEF AddressesOf
  <1>. QED  BY <1>1, <1>2, <1>3 DEF RegistryInv, RegistryIsAhead

\* Every step keeps the registry at most one change ahead.
LEMMA NextRegistry == RegistryInv /\ [Next]_vars => RegistryInv'
  <1>. SUFFICES ASSUME RegistryInv, [Next]_vars PROVE RegistryInv'
    OBVIOUS
  <1>0. instances \in Seq(Instance) /\ RegistryIsAhead
    BY DEF RegistryInv
  <1>1. ASSUME NEW a \in Addresses, RegisterService(a)
        PROVE  RegistryInv'
    <2>1. /\ change = Free
          /\ registered' = Append(registered, a)
          /\ change' = [kind |-> "add", addr |-> a]
          /\ instances' = instances
      BY <1>1 DEF RegisterService, lbVars
    <2>2. registered = AddressesOf(instances)
      BY <1>0, <2>1 DEF RegistryIsAhead, Free
    <2>. QED  BY <1>0, <2>1, <2>2 DEF RegistryInv, RegistryIsAhead
  <1>2. ASSUME NEW a \in Addresses, UnregisterService(a)
        PROVE  RegistryInv'
    <2>1. /\ change = Free
          /\ registered' = RemoveFirst(registered, a)
          /\ change' = [kind |-> "remove", addr |-> a]
          /\ instances' = instances
      BY <1>2 DEF UnregisterService, lbVars
    <2>2. registered = AddressesOf(instances)
      BY <1>0, <2>1 DEF RegistryIsAhead, Free
    <2>. QED  BY <1>0, <2>1, <2>2 DEF RegistryInv, RegistryIsAhead
  <1>3. CASE PassToBalancer
    <2>1. change' = Free /\ registered' = registered
      BY <1>3 DEF PassToBalancer
    <2>2. CASE change.kind = "add" /\ AddServiceInstance(change.addr)
      <3>1. /\ change.addr \in Addresses
            /\ registered = Append(AddressesOf(instances), change.addr)
        BY <1>0, <2>2 DEF RegistryIsAhead, Free
      <3>2. /\ instances' \in Seq(Instance)
            /\ AddressesOf(instances') = registered
        BY <1>0, <2>2, <3>1, AddFacts
      <3>. QED  BY <2>1, <3>2 DEF RegistryInv, RegistryIsAhead
    <2>3. CASE change.kind = "remove" /\ RemoveServiceInstance(change.addr)
      <3>1. /\ change.addr \in Addresses
            /\ registered = RemoveFirst(AddressesOf(instances), change.addr)
        BY <1>0, <2>3 DEF RegistryIsAhead, Free
      <3>2. /\ instances' \in Seq(Instance)
            /\ AddressesOf(instances') = registered
        BY <1>0, <2>3, <3>1, RemoveFacts
      <3>. QED  BY <2>1, <3>2 DEF RegistryInv, RegistryIsAhead
    <2>. QED  BY <1>3, <2>2, <2>3 DEF PassToBalancer
  <1>4. CASE ReportProbe
    <2>1. /\ UpdateHealthStatus(Head(todo), probe = "up")
          /\ UNCHANGED <<registered, change>>
      BY <1>4 DEF ReportProbe
    <2>2. /\ instances' \in Seq(Instance)
          /\ AddressesOf(instances') = AddressesOf(instances)
      <3>1. (probe = "up") \in BOOLEAN
        OBVIOUS
      <3>. QED  BY <1>0, <2>1, <3>1, MarkKeepsAddresses
    <2>. QED  BY <1>0, <2>1, <2>2 DEF RegistryInv, RegistryIsAhead
  <1>5. ASSUME UNCHANGED <<instances, registered, change>>
        PROVE  RegistryInv'
    BY <1>0, <1>5 DEF RegistryInv, RegistryIsAhead
  <1>6. CASE StartHealthChecking \/ StopHealthChecking \/ TakeSnapshot \/ Probe
    BY <1>5, <1>6 DEF StartHealthChecking, StopHealthChecking, TakeSnapshot, Probe, lbVars
  <1>7. CASE Pick
    BY <1>5, <1>7 DEF Pick, GetNextHealthyInstance
  <1>8. ASSUME NEW a \in Addresses, Flip(a)
        PROVE  RegistryInv'
    BY <1>5, <1>8 DEF Flip, lbVars
  <1>9. CASE UNCHANGED vars
    BY <1>5, <1>9 DEF vars, lbVars
  <1>. QED  BY <1>1, <1>2, <1>3, <1>4, <1>6, <1>7, <1>8, <1>9 DEF Next, CheckerStep

-----------------------------------------------------------------------------

\* Removing the first occurrence of a value leaves a sequence, not a longer one.
LEMMA RemoveFirstType ==
    ASSUME NEW S, NEW s \in Seq(S), NEW a
    PROVE  RemoveFirst(s, a) \in Seq(S) /\ Len(RemoveFirst(s, a)) <= Len(s)
  <1>. DEFINE I == {i \in 1..Len(s) : s[i] = a}
  <1>1. CASE \E i \in 1..Len(s) : s[i] = a
    <2>1. I \in SUBSET Nat /\ I # {}
      BY <1>1
    <2>2. SelectInSeq(s, LAMBDA v : v = a) = Min(I)
      BY <2>1 DEF SelectInSeq
    <2>3. Min(I) \in 1..Len(s)
      BY <2>1, MinExists
    <2>4. RemoveFirst(s, a) = RemoveAt(s, Min(I))
      BY <1>1, <2>2 DEF RemoveFirst
    <2>5. /\ RemoveAt(s, Min(I)) \in Seq(S)
          /\ Len(RemoveAt(s, Min(I))) = Len(s) - 1
      BY <2>3, RemoveAtFacts
    <2>. DEFINE shorter == RemoveAt(s, Min(I))
    <2>. HIDE DEF shorter, I
    <2>6. shorter \in Seq(S) /\ Len(shorter) = Len(s) - 1 /\ Len(s) \in Nat
      BY <2>5 DEF shorter
    <2>. QED  BY <2>4, <2>6 DEF shorter
  <1>2. CASE ~ \E i \in 1..Len(s) : s[i] = a
    BY <1>2 DEF RemoveFirst
  <1>. QED  BY <1>1, <1>2

\* Every step keeps the types and the bounds.
LEMMA NextTypes == IInv /\ [Next]_vars => TypeOK' /\ Bounds'
  <1>. SUFFICES ASSUME IInv, [Next]_vars PROVE TypeOK' /\ Bounds'
    OBVIOUS
  <1>0. TypeOK /\ RegistryInv /\ Bounds
    BY DEF IInv
  <1>. USE MaxInstancesAssumption, NoAddressAssumption DEF TypeOK, LBTypeOK, Bounds
  <1>1. ASSUME NEW a \in Addresses, RegisterService(a)
        PROVE  TypeOK' /\ Bounds'
    BY <1>0, <1>1 DEF RegisterService, lbVars
  <1>2. ASSUME NEW a \in Addresses, UnregisterService(a)
        PROVE  TypeOK' /\ Bounds'
    <2>1. registered' \in Seq(Addresses) /\ Len(registered') <= Len(registered)
      BY <1>0, <1>2, RemoveFirstType DEF UnregisterService
    <2>2. Len(registered') <= MaxInstances
      BY <1>0, <2>1
    <2>. QED  BY <1>0, <1>2, <2>1, <2>2 DEF UnregisterService, lbVars
  <1>3. CASE PassToBalancer
    <2>1. /\ change' = Free
          /\ UNCHANGED <<registered, running, todo, probe, reachable>>
      BY <1>3 DEF PassToBalancer
    <2>2. instances' \in Seq(Instance) /\ RegistryIsAhead'
      BY <1>0, NextRegistry DEF RegistryInv
    <2>3. registered' = AddressesOf(instances')
      BY <2>1, <2>2 DEF RegistryIsAhead, Free
    <2>4. Len(instances') = Len(registered')
      BY <2>2, <2>3, AddressesType
    <2>5. index' \in {index, 0} /\ served' \in {served, {}}
      BY <1>3 DEF PassToBalancer, AddServiceInstance, RemoveServiceInstance
    <2>. QED  BY <1>0, <2>1, <2>2, <2>4, <2>5 DEF Free
  <1>4. CASE ReportProbe
    <2>1. /\ UpdateHealthStatus(Head(todo), probe = "up")
          /\ probe' = "none"
          /\ todo' = Tail(todo)
          /\ todo # << >>
          /\ UNCHANGED <<registered, change, running, reachable>>
      BY <1>0, <1>4 DEF ReportProbe
    <2>2. (probe = "up") \in BOOLEAN
      OBVIOUS
    <2>3. /\ instances' \in Seq(Instance)
          /\ DOMAIN instances' = DOMAIN instances
      BY <1>0, <2>1, <2>2, MarkFacts
    <2>4. Len(instances') = Len(instances)
      BY <1>0, <2>3
    <2>5. index' = index /\ served' \in {served, {}}
      BY <2>1 DEF UpdateHealthStatus
    <2>6. todo' \in Seq(Addresses)
      BY <1>0, <2>1
    <2>. QED  BY <1>0, <2>1, <2>3, <2>4, <2>5, <2>6 DEF Results
  <1>5. CASE Pick
    <2>1. PICK a \in Addresses : GetNextHealthyInstance(a)
      BY <1>5 DEF Pick
    <2>2. LBTypeOK' /\ instances' = instances /\ index' < Len(instances)
      BY <1>0, <2>1, PickFacts
    <2>3. index' < MaxInstances
      BY <1>0, <2>2
    <2>. QED  BY <1>0, <1>5, <2>2, <2>3 DEF Pick
  <1>6. CASE TakeSnapshot \/ Probe
    BY <1>0, <1>6 DEF TakeSnapshot, Probe, lbVars, Results
  <1>7. CASE StartHealthChecking \/ StopHealthChecking
    BY <1>0, <1>7 DEF StartHealthChecking, StopHealthChecking, lbVars
  <1>8. ASSUME NEW a \in Addresses, Flip(a)
        PROVE  TypeOK' /\ Bounds'
    BY <1>0, <1>8 DEF Flip, lbVars
  <1>9. CASE UNCHANGED vars
    BY <1>0, <1>9 DEF vars, lbVars
  <1>. QED  BY <1>1, <1>2, <1>3, <1>4, <1>5, <1>6, <1>7, <1>8, <1>9 DEF Next, CheckerStep

\* What a step may do to the balancer: a pick, nothing, or a new round that
\* begins at a changed list or where the last one stopped.
LEMMA BalancerStep ==
    ASSUME instances \in Seq(Instance), [Next]_vars
    PROVE  \/ \E a \in Addresses : GetNextHealthyInstance(a)
           \/ UNCHANGED lbVars
           \/ served' = {} /\ (index' # index => instances' # instances)
  <1>. DEFINE Allowed == \/ \E a \in Addresses : GetNextHealthyInstance(a)
                         \/ UNCHANGED lbVars
                         \/ served' = {} /\ (index' # index => instances' # instances)
  <1>1. ASSUME NEW a \in Addresses, RegisterService(a) \/ UnregisterService(a) \/ Flip(a)
        PROVE  Allowed
    BY <1>1 DEF RegisterService, UnregisterService, Flip
  <1>2. CASE PassToBalancer
    <2>1. CASE AddServiceInstance(change.addr)
      <3>1. Len(instances') = Len(instances) + 1 /\ Len(instances) \in Nat
        BY <2>1 DEF AddServiceInstance
      <3>2. instances' # instances
        BY <3>1
      <3>. QED  BY <2>1, <3>2 DEF AddServiceInstance
    <2>2. CASE RemoveServiceInstance(change.addr)
      BY <2>2 DEF RemoveServiceInstance, lbVars
    <2>. QED  BY <1>2, <2>1, <2>2 DEF PassToBalancer
  <1>3. CASE ReportProbe
    BY <1>3 DEF ReportProbe, UpdateHealthStatus, lbVars
  <1>4. CASE Pick
    BY <1>4 DEF Pick
  <1>5. CASE StartHealthChecking \/ StopHealthChecking \/ TakeSnapshot \/ Probe
    BY <1>5 DEF StartHealthChecking, StopHealthChecking, TakeSnapshot, Probe
  <1>6. CASE UNCHANGED vars
    BY <1>6 DEF vars, lbVars
  <1>. QED  BY <1>1, <1>2, <1>3, <1>4, <1>5, <1>6 DEF Next, CheckerStep

\* Every step takes an instance that the round has not served, or no instance.
LEMMA NextRound ==
    IInv /\ [Next]_vars =>
        /\ RoundIsArc'
        /\ index' # index /\ instances' = instances => index' \notin served
  <1>. SUFFICES ASSUME IInv, [Next]_vars
                PROVE  /\ RoundIsArc'
                       /\ index' # index /\ instances' = instances => index' \notin served
    OBVIOUS
  <1>0. LBTypeOK /\ RoundIsArc /\ instances \in Seq(Instance)
    BY DEF IInv, TypeOK, LBTypeOK
  <1>1. CASE \E a \in Addresses : GetNextHealthyInstance(a)
    BY <1>0, <1>1, PickIsNew
  <1>2. CASE UNCHANGED lbVars
    BY <1>0, <1>2 DEF lbVars, RoundIsArc, HealthyInstances
  <1>3. CASE served' = {} /\ (index' # index => instances' # instances)
    BY <1>3 DEF RoundIsArc
  <1>. QED  BY <1>0, <1>1, <1>2, <1>3, BalancerStep

\* The initial states satisfy the inductive invariant.
LEMMA InitIInv == Init => IInv
  <1>. SUFFICES ASSUME Init PROVE IInv
    OBVIOUS
  <1>1. RegistryInv
    BY InitRegistry
  <1>2. /\ registered = << >> /\ instances = << >> /\ todo = << >>
        /\ index = 0 /\ served = {} /\ probe = "none"
    BY DEF Init, LBInit
  <1>3. Len(registered) = 0 /\ Len(instances) = 0 /\ MaxInstances > 0
    BY <1>2, MaxInstancesAssumption
  <1>4. TypeOK
    <2>1. LBTypeOK /\ index < MaxInstances
      BY <1>1, <1>2, <1>3 DEF LBTypeOK, RegistryInv
    <2>2. registered \in Seq(Addresses) /\ todo \in Seq(Addresses)
      BY <1>2
    <2>3. change \in [kind : {"none", "add", "remove"}, addr : Addresses \cup {NoAddress}]
      BY DEF Init, Free
    <2>. QED  BY <2>1, <2>2, <2>3 DEF Init, TypeOK, Results
  <1>5. Bounds /\ RoundIsArc
    BY <1>2, <1>3, MaxInstancesAssumption DEF Bounds, RoundIsArc
  <1>. QED  BY <1>1, <1>4, <1>5 DEF IInv

\* Every step keeps the inductive invariant.
LEMMA NextIInv == IInv /\ [Next]_vars => IInv'
  <1>1. IInv => RegistryInv
    BY DEF IInv
  <1>. QED  BY <1>1, NextRegistry, NextTypes, NextRound DEF IInv

\* The inductive invariant holds in every reachable state.
LEMMA InvariantHolds == Spec => []IInv
  BY InitIInv, NextIInv, PTL DEF Spec

-----------------------------------------------------------------------------

\* Types, and the range of the balancer's index for any bound on the
\* registrations: it never points past the longest list, whatever was removed
\* or marked between two picks.
THEOREM TypeCorrect == Spec => []TypeOK
  BY InvariantHolds, PTL DEF IInv

\* With the registry's mutex_ free, the balancer holds one instance per
\* registration in the same order, whatever is registered twice, unregistered
\* without being registered, or marked by a stale probe.
THEOREM BalancerHoldsRegistered == Spec => []BalancerFollowsRegistry
  <1>1. IInv => BalancerFollowsRegistry
    BY DEF IInv, RegistryInv, RegistryIsAhead, BalancerFollowsRegistry, AddressesOf, Free
  <1>. QED  BY <1>1, InvariantHolds, PTL

\* While the healthy instances stay the same, none is picked twice before all
\* the others were, for any number of them and wherever the index was left by
\* the ones that are gone.
THEOREM RoundsServeAll == Spec => EveryRoundServesAll
  <1>1. IInv /\ [Next]_vars =>
          [index' # index /\ instances' = instances => index' \notin served]_lbVars
    BY NextRound
  <1>. QED  BY <1>1, InvariantHolds, PTL DEF Spec, EveryRoundServesAll

-----------------------------------------------------------------------------
(* Who is picked *)

\* A caller is sent to an address that is registered, or whose removal is under
\* way.
PicksAreRegistered ==
    [][\A a \in Addresses : GetNextHealthyInstance(a) =>
         \/ \E i \in DOMAIN registered : registered[i] = a
         \/ change = [kind |-> "remove", addr |-> a]]_vars

\* The other values stay when the first occurrence of one is removed.
LEMMA RemoveFirstKeeps ==
    ASSUME NEW S, NEW s \in Seq(S), NEW a, NEW i \in 1..Len(s), s[i] # a
    PROVE  \E j \in DOMAIN RemoveFirst(s, a) : RemoveFirst(s, a)[j] = s[i]
  <1>1. CASE \E k \in 1..Len(s) : s[k] = a
    <2>. DEFINE I == {k \in 1..Len(s) : s[k] = a}
    <2>1. I \in SUBSET Nat /\ I # {}
      BY <1>1
    <2>2. PICK n \in 1..Len(s) : s[n] = a /\ RemoveFirst(s, a) = RemoveAt(s, n)
      <3>1. SelectInSeq(s, LAMBDA v : v = a) = Min(I)
        BY <2>1 DEF SelectInSeq
      <3>2. Min(I) \in 1..Len(s) /\ s[Min(I)] = a
        BY <2>1, MinExists
      <3>. QED  BY <1>1, <3>1, <3>2 DEF RemoveFirst
    <2>. DEFINE rest == RemoveAt(s, n)
    <2>3. /\ rest \in Seq(S)
          /\ Len(rest) = Len(s) - 1
          /\ \A j \in 1..(Len(s) - 1) : rest[j] = IF j < n THEN s[j] ELSE s[j + 1]
      BY RemoveAtFacts
    <2>4. Len(s) \in Nat /\ i # n
      BY <2>2
    <2>. HIDE DEF rest
    <2>5. CASE i < n
      <3>1. i \in 1..(Len(s) - 1) /\ rest[i] = s[i]
        BY <2>3, <2>4, <2>5
      <3>2. i \in DOMAIN rest
        BY <2>3, <3>1
      <3>. QED  BY <2>2, <3>1, <3>2 DEF rest
    <2>6. CASE i > n
      <3>1. i - 1 \in 1..(Len(s) - 1) /\ ~(i - 1 < n) /\ (i - 1) + 1 = i
        BY <2>4, <2>6
      <3>2. rest[i - 1] = s[i]
        BY <2>3, <3>1
      <3>3. i - 1 \in DOMAIN rest
        BY <2>3, <3>1
      <3>. QED  BY <2>2, <3>2, <3>3 DEF rest
    <2>. QED  BY <2>4, <2>5, <2>6
  <1>2. CASE ~ \E k \in 1..Len(s) : s[k] = a
    BY <1>2 DEF RemoveFirst
  <1>. QED  BY <1>1, <1>2

\* Nobody is sent to a service after its unregistration has returned, whatever
\* probes of it come late, or before its registration.
THEOREM OnlyRegisteredArePicked == Spec => PicksAreRegistered
  <1>1. ASSUME RegistryInv, NEW a \in Addresses, GetNextHealthyInstance(a)
        PROVE  \/ \E i \in DOMAIN registered : registered[i] = a
               \/ change.kind = "remove" /\ change.addr = a
    <2>. DEFINE old == AddressesOf(instances)
    <2>1. /\ old \in Seq(Addresses)
          /\ Len(old) = Len(instances)
          /\ \A i \in 1..Len(instances) : old[i] = instances[i].addr
      BY <1>1, AddressesType DEF RegistryInv
    <2>2. PICK i \in 1..Len(old) : old[i] = a
      <3>1. PICK i \in HealthyInstances : a = instances[i].addr
        BY <1>1 DEF GetNextHealthyInstance, HealthyAt
      <3>2. i \in 1..Len(instances)
        BY <1>1, <3>1 DEF HealthyInstances, RegistryInv
      <3>. QED  BY <2>1, <3>1, <3>2
    <2>3. \/ registered = old
          \/ registered = Append(old, change.addr)
          \/ change.kind = "remove" /\ registered = RemoveFirst(old, change.addr)
      BY <1>1 DEF RegistryInv, RegistryIsAhead
    <2>. HIDE DEF old
    <2>4. CASE registered = old
      BY <2>1, <2>2, <2>4
    <2>5. CASE registered = Append(old, change.addr)
      BY <2>1, <2>2, <2>5
    <2>6. CASE change.kind = "remove" /\ registered = RemoveFirst(old, change.addr)
      BY <2>1, <2>2, <2>6, RemoveFirstKeeps
    <2>. QED  BY <2>3, <2>4, <2>5, <2>6
  <1>2. IInv /\ [Next]_vars =>
          [\A a \in Addresses : GetNextHealthyInstance(a) =>
             \/ \E i \in DOMAIN registered : registered[i] = a
             \/ change = [kind |-> "remove", addr |-> a]]_vars
    BY <1>1 DEF IInv, TypeOK
  <1>. QED  BY <1>2, InvariantHolds, PTL DEF Spec, PicksAreRegistered

-----------------------------------------------------------------------------
(* A service that is registered twice *)

\* Registering an address again, as a service does that restarts without
\* having been unregistered, makes an instance that no probe of the address
\* ever marks while the older one is there: it is picked dead or alive.
THEOREM OnlyFirstIsMarked == Spec => []LaterOnesStayHealthy
  <1>1. Init => LaterOnesStayHealthy
    BY DEF Init, LBInit, LaterOnesStayHealthy
  <1>2. ASSUME RegistryInv, LaterOnesStayHealthy, [Next]_vars
        PROVE  LaterOnesStayHealthy'
    <2>. instances \in Seq(Instance) /\ RegistryIsAhead
      BY <1>2 DEF RegistryInv
    <2>1. CASE PassToBalancer
      <3>1. CASE change.kind = "add" /\ AddServiceInstance(change.addr)
        <4>1. change.addr \in Addresses
          BY <3>1 DEF RegistryIsAhead, Free
        <4>. QED  BY <1>2, <3>1, <4>1, AddKeepsLater
      <3>2. CASE RemoveServiceInstance(change.addr)
        BY <1>2, <3>2, RemoveKeepsLater
      <3>. QED  BY <2>1, <3>1, <3>2 DEF PassToBalancer
    <2>2. CASE ReportProbe
      <3>1. UpdateHealthStatus(Head(todo), probe = "up") /\ (probe = "up") \in BOOLEAN
        BY <2>2 DEF ReportProbe
      <3>. QED  BY <1>2, <3>1, MarkKeepsLater
    <2>3. CASE UNCHANGED instances
      BY <1>2, <2>3, SameKeepsLater
    <2>4. ASSUME NEW a \in Addresses, RegisterService(a) \/ UnregisterService(a) \/ Flip(a)
          PROVE  UNCHANGED instances
      BY <2>4 DEF RegisterService, UnregisterService, Flip, lbVars
    <2>5. CASE StartHealthChecking \/ StopHealthChecking \/ TakeSnapshot \/ Probe
      BY <2>3, <2>5 DEF StartHealthChecking, StopHealthChecking, TakeSnapshot, Probe, lbVars
    <2>6. CASE Pick
      BY <2>3, <2>6 DEF Pick, GetNextHealthyInstance
    <2>7. CASE UNCHANGED vars
      BY <2>3, <2>7 DEF vars, lbVars
    <2>. QED  BY <1>2, <2>1, <2>2, <2>3, <2>4, <2>5, <2>6, <2>7 DEF Next, CheckerStep
  <1>3. IInv => RegistryInv
    BY DEF IInv
  <1>4. IInv /\ LaterOnesStayHealthy /\ [Next]_vars => LaterOnesStayHealthy'
    BY <1>2, <1>3
  <1>. QED  BY <1>1, <1>4, InvariantHolds, PTL DEF Spec
=============================================================================
