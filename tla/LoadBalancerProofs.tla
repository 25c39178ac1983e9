-------------------------- MODULE LoadBalancerProofs --------------------------
(***************************************************************************)
(* What the operations of LoadBalancer do to its list of instances and to  *)
(* the round robin over them, for the proofs about its users.              *)
(***************************************************************************)
EXTENDS LoadBalancer, FiniteSetTheorems, TLAPS

-----------------------------------------------------------------------------
(* The balancer's search *)

\* A nonempty set of natural numbers has a least element.
LEMMA MinExists ==
    ASSUME NEW S \in SUBSET Nat, S # {}
    PROVE  /\ Min(S) \in S
           /\ \A i \in S : Min(S) <= i
  <1>1. PICK m \in S : \A i \in S : ~ (<<i, m>> \in OpToRel(<, Nat))
    BY NatLessThanWellFounded, WFMin
  <1>2. \A i \in S : ~ (i < m)
    BY <1>1 DEF OpToRel
  <1>3. \E x \in S : \A i \in S : x <= i
    BY <1>2
  <1>. QED  BY <1>3 DEF Min

\* Find gives the position of the first instance at the address, if any.
LEMMA FindFirst ==
    ASSUME NEW a, instances \in Seq(Instance)
    PROVE  /\ Find(a) = 0 => \A i \in 1..Len(instances) : instances[i].addr # a
           /\ Find(a) # 0 => /\ Find(a) \in 1..Len(instances)
                             /\ instances[Find(a)].addr = a
                             /\ \A i \in 1..Len(instances) :
                                  instances[i].addr = a => Find(a) <= i
  <1>. DEFINE I == {i \in 1..Len(instances) : instances[i].addr = a}
  <1>1. Find(a) = IF I # {} THEN Min(I) ELSE 0
    BY DEF Find, SelectInSeq
  <1>2. I \in SUBSET Nat /\ 0 \notin I
    OBVIOUS
  <1>3. CASE I = {}
    BY <1>1, <1>3
  <1>4. CASE I # {}
    <2>1. Min(I) \in I /\ \A i \in I : Min(I) <= i
      BY <1>2, <1>4, MinExists
    <2>. QED  BY <1>1, <1>2, <1>4, <2>1
  <1>. QED  BY <1>3, <1>4

\* A mark changes the health of the first instance at the address, only.
LEMMA MarkFacts ==
    ASSUME instances \in Seq(Instance), NEW a, NEW h \in BOOLEAN,
           UpdateHealthStatus(a, h)
    PROVE  /\ instances' \in Seq(Instance)
           /\ DOMAIN instances' = DOMAIN instances
           /\ \A i \in DOMAIN instances :
                /\ instances'[i].addr = instances[i].addr
                /\ \/ instances'[i].isHealthy = instances[i].isHealthy
                   \/ instances[i].addr = a /\ instances'[i].isHealthy = h
  <1>1. CASE UNCHANGED instances
    BY <1>1
  <1>2. CASE Find(a) # 0 /\ instances' = [instances EXCEPT ![Find(a)].isHealthy = h]
    <2>1. Find(a) \in DOMAIN instances /\ instances[Find(a)].addr = a
      BY <1>2, FindFirst
    <2>2. instances[Find(a)] \in Instance
      BY <2>1
    <2>3. [instances[Find(a)] EXCEPT !.isHealthy = h] \in Instance
      BY <2>2 DEF Instance
    <2>4. instances' = [instances EXCEPT ![Find(a)] = [instances[Find(a)] EXCEPT !.isHealthy = h]]
      BY <1>2
    <2>5. instances' \in Seq(Instance) /\ DOMAIN instances' = DOMAIN instances
      BY <2>1, <2>3, <2>4
    <2>. QED  BY <2>1, <2>2, <2>4, <2>5 DEF Instance
  <1>. QED  BY <1>1, <1>2 DEF UpdateHealthStatus

-----------------------------------------------------------------------------
(* The addresses of the instances *)

\* The addresses in a list of instances, in order.
AddressesOf(list) == [i \in DOMAIN list |-> list[i].addr]

\* They are a sequence as long as the list.
LEMMA AddressesType ==
    ASSUME NEW list \in Seq(Instance)
    PROVE  /\ AddressesOf(list) \in Seq(Addresses)
           /\ Len(AddressesOf(list)) = Len(list)
           /\ \A i \in 1..Len(list) : AddressesOf(list)[i] = list[i].addr
  <1>1. DOMAIN list = 1..Len(list) /\ Len(list) \in Nat
    OBVIOUS
  <1>2. \A i \in 1..Len(list) : list[i].addr \in Addresses
    <2>1. \A i \in 1..Len(list) : list[i] \in Instance
      OBVIOUS
    <2>. QED  BY <2>1 DEF Instance
  <1>3. AddressesOf(list) = [i \in 1..Len(list) |-> list[i].addr]
    BY <1>1 DEF AddressesOf
  <1>. QED  BY <1>1, <1>2, <1>3

\* Two lists with the same addresses at every position.
LEMMA SameAddresses ==
    ASSUME NEW list \in Seq(Instance), NEW s \in Seq(Addresses), Len(s) = Len(list),
           \A i \in 1..Len(list) : s[i] = list[i].addr
    PROVE  AddressesOf(list) = s
  <1>1. \A t, u \in Seq(Addresses) :
          Len(t) = Len(u) /\ (\A i \in 1..Len(t) : t[i] = u[i]) => t = u
    OBVIOUS
  <1>. QED  BY <1>1, AddressesType

\* Searching the addresses finds what Find finds.
LEMMA FindInAddresses ==
    ASSUME instances \in Seq(Instance), NEW a
    PROVE  SelectInSeq(AddressesOf(instances), LAMBDA v : v = a) = Find(a)
  <1>1. {i \in 1..Len(AddressesOf(instances)) : AddressesOf(instances)[i] = a}
          = {i \in 1..Len(instances) : instances[i].addr = a}
    BY AddressesType
  <1>. QED  BY <1>1 DEF Find, SelectInSeq

\* Without its position n, a sequence has the elements before n where they
\* were and the others one position earlier.
LEMMA RemoveAtFacts ==
    ASSUME NEW S, NEW s \in Seq(S), NEW n \in 1..Len(s)
    PROVE  /\ RemoveAt(s, n) \in Seq(S)
           /\ Len(RemoveAt(s, n)) = Len(s) - 1
           /\ \A i \in 1..(Len(s) - 1) :
                RemoveAt(s, n)[i] = IF i < n THEN s[i] ELSE s[i + 1]
  <1>. DEFINE front == SubSeq(s, 1, n - 1)
              back == SubSeq(s, n + 1, Len(s))
  <1>1. /\ front \in Seq(S)
        /\ Len(front) = n - 1
        /\ \A i \in 1..(n - 1) : front[i] = s[i]
    OBVIOUS
  <1>2. /\ back \in Seq(S)
        /\ Len(back) = Len(s) - n
        /\ \A i \in 1..(Len(s) - n) : back[i] = s[n + i]
    OBVIOUS
  <1>3. RemoveAt(s, n) = front \o back
    BY DEF RemoveAt
  <1>4. n \in Nat \ {0} /\ Len(s) \in Nat /\ n <= Len(s)
    OBVIOUS
  <1>. HIDE DEF front, back
  <1>5. front \o back \in Seq(S) /\ Len(front \o back) = Len(s) - 1
    BY <1>1, <1>2, <1>4
  <1>6. ASSUME NEW i \in 1..(Len(s) - 1)
        PROVE  (front \o back)[i] = IF i < n THEN s[i] ELSE s[i + 1]
    <2>1. CASE i < n
      BY <1>1, <1>2, <1>4, <2>1
    <2>2. CASE ~(i < n)
      <3>1. (front \o back)[i] = back[i - (n - 1)]
        BY <1>1, <1>2, <1>4, <2>2
      <3>2. i - (n - 1) \in 1..(Len(s) - n) /\ n + (i - (n - 1)) = i + 1
        BY <1>4, <2>2
      <3>. QED  BY <1>2, <2>2, <3>1, <3>2
    <2>. QED  BY <2>1, <2>2
  <1>. QED  BY <1>3, <1>5, <1>6

-----------------------------------------------------------------------------
(* The operations on the addresses *)

\* Adding an instance appends its address.
LEMMA AddFacts ==
    ASSUME instances \in Seq(Instance), NEW a \in Addresses, AddServiceInstance(a)
    PROVE  /\ instances' \in Seq(Instance)
           /\ AddressesOf(instances') = Append(AddressesOf(instances), a)
  <1>. DEFINE old == AddressesOf(instances)
  <1>1. instances' = Append(instances, New(a)) /\ New(a) \in Instance /\ New(a).addr = a
    BY DEF AddServiceInstance, New, Instance
  <1>2. /\ instances' \in Seq(Instance)
        /\ Len(instances') = Len(instances) + 1
        /\ Len(instances) \in Nat
        /\ \A i \in 1..Len(instances) : instances'[i] = instances[i]
        /\ instances'[Len(instances) + 1] = New(a)
    BY <1>1
  <1>3. /\ old \in Seq(Addresses)
        /\ Len(old) = Len(instances)
        /\ \A i \in 1..Len(instances) : old[i] = instances[i].addr
    BY AddressesType
  <1>. HIDE DEF old
  <1>4. Append(old, a) \in Seq(Addresses) /\ Len(Append(old, a)) = Len(instances')
    BY <1>2, <1>3
  <1>5. \A i \in 1..Len(instances') : Append(old, a)[i] = instances'[i].addr
    BY <1>1, <1>2, <1>3
  <1>6. AddressesOf(instances') = Append(old, a)
    BY <1>2, <1>4, <1>5, SameAddresses
  <1>. QED  BY <1>2, <1>6 DEF old

\* Removing an instance removes the first occurrence of its address.
LEMMA RemoveFacts ==
    ASSUME instances \in Seq(Instance), NEW a \in Addresses, RemoveServiceInstance(a)
    PROVE  /\ instances' \in Seq(Instance)
           /\ AddressesOf(instances') = RemoveFirst(AddressesOf(instances), a)
  <1>. DEFINE old == AddressesOf(instances)
              n == Find(a)
  <1>1. /\ old \in Seq(Addresses)
        /\ Len(old) = Len(instances)
        /\ \A i \in 1..Len(instances) : old[i] = instances[i].addr
    BY AddressesType
  <1>2. CASE n = 0
    <2>1. instances' = instances
      BY <1>2 DEF RemoveServiceInstance
    <2>2. ~ \E i \in 1..Len(old) : old[i] = a
      BY <1>1, <1>2, FindFirst
    <2>. QED  BY <2>1, <2>2 DEF RemoveFirst
  <1>3. CASE n # 0
    <2>1. instances' = RemoveAt(instances, n)
      BY <1>3 DEF RemoveServiceInstance
    <2>2. n \in 1..Len(instances) /\ instances[n].addr = a
      BY <1>3, FindFirst
    <2>3. RemoveFirst(old, a) = RemoveAt(old, n)
      <3>1. \E i \in 1..Len(old) : old[i] = a
        BY <1>1, <2>2
      <3>. QED  BY <3>1, FindInAddresses DEF RemoveFirst
    <2>. HIDE DEF old, n
    <2>4. /\ instances' \in Seq(Instance)
          /\ Len(instances') = Len(instances) - 1
          /\ \A i \in 1..(Len(instances) - 1) :
               instances'[i] = IF i < n THEN instances[i] ELSE instances[i + 1]
      BY <2>1, <2>2, RemoveAtFacts
    <2>5. /\ RemoveAt(old, n) \in Seq(Addresses)
          /\ Len(RemoveAt(old, n)) = Len(instances) - 1
          /\ \A i \in 1..(Len(instances) - 1) :
               RemoveAt(old, n)[i] = IF i < n THEN old[i] ELSE old[i + 1]
      BY <1>1, <2>2, RemoveAtFacts
    <2>6. \A i \in 1..(Len(instances) - 1) :
            i \in 1..Len(instances) /\ i + 1 \in 1..Len(instances)
      OBVIOUS
    <2>7. \A i \in 1..(Len(instances) - 1) : RemoveAt(old, n)[i] = instances'[i].addr
      BY <1>1, <2>4, <2>5, <2>6
    <2>8. AddressesOf(instances') = RemoveAt(old, n)
      BY <2>4, <2>5, <2>7, SameAddresses
    <2>. QED  BY <2>3, <2>4, <2>8 DEF old
  <1>. QED  BY <1>2, <1>3

\* A mark leaves the addresses alone.
LEMMA MarkKeepsAddresses ==
    ASSUME instances \in Seq(Instance), NEW a, NEW h \in BOOLEAN,
           UpdateHealthStatus(a, h)
    PROVE  /\ instances' \in Seq(Instance)
           /\ AddressesOf(instances') = AddressesOf(instances)
  BY MarkFacts DEF AddressesOf

-----------------------------------------------------------------------------
(* The round robin *)

\* There are at most as many healthy instances as instances.
LEMMA HealthyFacts ==
    ASSUME instances \in Seq(Instance)
    PROVE  /\ Cardinality(HealthyInstances) \in 0..Len(instances)
           /\ HealthyInstances # {} => Cardinality(HealthyInstances) # 0
  <1>1. DOMAIN instances = 1..Len(instances) /\ Len(instances) \in Nat
    OBVIOUS
  <1>2. IsFiniteSet(1..Len(instances)) /\ Cardinality(1..Len(instances)) = Len(instances)
    BY <1>1, FS_Interval
  <1>3. HealthyInstances \in SUBSET (1..Len(instances))
    BY <1>1 DEF HealthyInstances
  <1>4. /\ IsFiniteSet(HealthyInstances)
        /\ Cardinality(HealthyInstances) <= Len(instances)
    BY <1>2, <1>3, FS_Subset
  <1>5. /\ Cardinality(HealthyInstances) \in Nat
        /\ Cardinality(HealthyInstances) = 0 <=> HealthyInstances = {}
    BY <1>4, FS_CardinalityType, FS_EmptySet
  <1>. QED  BY <1>1, <1>4, <1>5

\* What % does to the index.
LEMMA ModFacts ==
    ASSUME NEW m \in Nat, NEW n \in Nat \ {0}
    PROVE  /\ m % n \in 0..(n - 1)
           /\ m < n => m % n = m
           /\ m = n => m % n = 0
  OBVIOUS

\* A pick leaves an index of the healthy instances, whatever it was before.
LEMMA PickFacts ==
    ASSUME LBTypeOK, NEW a, GetNextHealthyInstance(a)
    PROVE  /\ LBTypeOK'
           /\ instances' = instances
           /\ index' < Cardinality(HealthyInstances)
           /\ index' < Len(instances)
  <1>. DEFINE n == Cardinality(HealthyInstances)
  <1>1. instances \in Seq(Instance) /\ index \in Nat /\ served \in SUBSET Nat
    BY DEF LBTypeOK
  <1>2. n \in 0..Len(instances) /\ n # 0 /\ Len(instances) \in Nat
    BY <1>1, HealthyFacts DEF GetNextHealthyInstance
  <1>3. /\ index' = (index + 1) % n
        /\ instances' = instances
        /\ served' = {} \/ served' = served \cup {index'}
    BY DEF GetNextHealthyInstance, Serve
  <1>. HIDE DEF n
  <1>4. index' \in 0..(n - 1)
    <2>1. index + 1 \in Nat /\ n \in Nat \ {0}
      BY <1>1, <1>2
    <2>2. (index + 1) % n \in 0..(n - 1)
      BY <2>1, ModFacts
    <2>. QED  BY <1>3, <2>2
  <1>5. index' \in Nat /\ index' < n /\ index' < Len(instances)
    BY <1>1, <1>2, <1>4
  <1>6. served' \in SUBSET Nat
    BY <1>1, <1>3, <1>5
  <1>. QED  BY <1>1, <1>3, <1>5, <1>6 DEF LBTypeOK, n

\* The indexes from first to last, counted round the n healthy instances.
Arc(first, last, n) ==
    {k \in 0..(n - 1) : IF first <= last THEN first <= k /\ k <= last
                                         ELSE first <= k \/ k <= last}

\* What has been served in this round is an arc that ends at the index, and
\* not yet the whole circle.
RoundIsArc ==
    served # {} =>
        /\ index < Cardinality(HealthyInstances)
        /\ served # 0..(Cardinality(HealthyInstances) - 1)
        /\ \E start \in 0..(Cardinality(HealthyInstances) - 1) :
             served = Arc(start, index, Cardinality(HealthyInstances))

\* The index after an arc that is not the whole circle is not on the arc, and
\* makes it one longer.
LEMMA ArcGrows ==
    ASSUME NEW n \in Nat \ {0}, NEW start \in 0..(n - 1), NEW last \in 0..(n - 1),
           Arc(start, last, n) # 0..(n - 1)
    PROVE  /\ (last + 1) % n \notin Arc(start, last, n)
           /\ Arc(start, last, n) \cup {(last + 1) % n} = Arc(start, (last + 1) % n, n)
  <1>. DEFINE next == (last + 1) % n
  <1>1. next = IF last + 1 < n THEN last + 1 ELSE 0
    <2>1. last + 1 \in Nat /\ (last + 1 < n \/ last + 1 = n)
      OBVIOUS
    <2>2. /\ last + 1 < n => (last + 1) % n = last + 1
          /\ last + 1 = n => (last + 1) % n = 0
      BY <2>1, ModFacts
    <2>. QED  BY <2>1, <2>2
  <1>. HIDE DEF next
  <1>2. \/ start <= last /\ (start # 0 \/ last < n - 1)
        \/ start > last + 1
    BY DEF Arc
  <1>3. next \notin Arc(start, last, n)
    BY <1>1, <1>2 DEF Arc
  <1>4. ASSUME NEW k \in 0..(n - 1)
        PROVE  k \in Arc(start, next, n) <=> k \in Arc(start, last, n) \/ k = next
    BY <1>1, <1>2 DEF Arc
  <1>5. next \in 0..(n - 1)
    BY <1>1
  <1>6. Arc(start, last, n) \subseteq 0..(n - 1) /\ Arc(start, next, n) \subseteq 0..(n - 1)
    BY DEF Arc
  <1>7. Arc(start, last, n) \cup {next} = Arc(start, next, n)
    BY <1>4, <1>5, <1>6
  <1>. QED  BY <1>3, <1>7 DEF next

\* A pick takes an instance that this round has not served.
LEMMA PickIsNew ==
    ASSUME LBTypeOK, RoundIsArc, NEW a, GetNextHealthyInstance(a)
    PROVE  index' \notin served /\ RoundIsArc'
  <1>. DEFINE n == Cardinality(HealthyInstances)
  <1>1. instances \in Seq(Instance) /\ index \in Nat
    BY DEF LBTypeOK
  <1>2. n \in Nat \ {0}
    BY <1>1, HealthyFacts DEF GetNextHealthyInstance
  <1>3. /\ index' = (index + 1) % n
        /\ served' = IF served \cup {index'} = 0..(n - 1) THEN {} ELSE served \cup {index'}
        /\ n' = n
    BY DEF GetNextHealthyInstance, Serve, HealthyInstances
  <1>. DEFINE IsArc(set, last) ==
                set # {} => /\ last < n
                            /\ set # 0..(n - 1)
                            /\ \E start \in 0..(n - 1) : set = Arc(start, last, n)
  <1>4. IsArc(served, index)
    BY DEF RoundIsArc
  <1>5. IsArc(served', index') => RoundIsArc'
    BY <1>3 DEF RoundIsArc
  <1>. HIDE DEF n
  <1>6. index' \in 0..(n - 1)
    <2>1. index + 1 \in Nat /\ n \in Nat \ {0}
      BY <1>1, <1>2
    <2>2. (index + 1) % n \in 0..(n - 1)
      BY <2>1, ModFacts
    <2>. QED  BY <1>3, <2>2
  <1>7. CASE served = {}
    <2>1. Arc(index', index', n) = {index'}
      BY <1>2, <1>6 DEF Arc
    <2>2. \/ served' = {}
          \/ served' = Arc(index', index', n) /\ served' # 0..(n - 1)
      BY <1>3, <1>7, <2>1
    <2>3. IsArc(served', index')
      BY <1>2, <1>6, <2>2
    <2>. QED  BY <1>7, <1>5, <2>3
  <1>8. CASE served # {}
    <2>1. PICK start \in 0..(n - 1) : served = Arc(start, index, n)
      BY <1>8, <1>4
    <2>2. index \in 0..(n - 1) /\ Arc(start, index, n) # 0..(n - 1)
      BY <1>1, <1>2, <1>8, <1>4, <2>1
    <2>3. index' \notin served /\ served \cup {index'} = Arc(start, index', n)
      BY <1>2, <1>3, <2>1, <2>2, ArcGrows
    <2>4. \/ served' = {}
          \/ served' = Arc(start, index', n) /\ served' # 0..(n - 1)
      BY <1>3, <2>3
    <2>5. IsArc(served', index')
      BY <1>2, <1>6, <2>4
    <2>. QED  BY <1>5, <2>3, <2>5
  <1>. QED  BY <1>7, <1>8

-----------------------------------------------------------------------------
(* An address that is registered more than once *)

\* A mark changes the first instance at the address and no other.
LEMMA MarkHitsFirst ==
    ASSUME instances \in Seq(Instance), NEW a, NEW h \in BOOLEAN,
           UpdateHealthStatus(a, h)
    PROVE  /\ Find(a) # 0 => instances'[Find(a)].isHealthy = h
           /\ \A i \in DOMAIN instances :
                i # Find(a) => instances'[i].isHealthy = instances[i].isHealthy
  <1>1. CASE UNCHANGED instances /\ (Find(a) = 0 \/ instances[Find(a)].isHealthy = h)
    BY <1>1
  <1>2. CASE Find(a) # 0 /\ instances' = [instances EXCEPT ![Find(a)].isHealthy = h]
    <2>1. Find(a) \in DOMAIN instances
      BY <1>2, FindFirst
    <2>2. instances[Find(a)] \in Instance
      BY <2>1
    <2>3. [instances[Find(a)] EXCEPT !.isHealthy = h].isHealthy = h
      BY <2>2 DEF Instance
    <2>4. instances' = [instances EXCEPT ![Find(a)] = [instances[Find(a)] EXCEPT !.isHealthy = h]]
      BY <1>2
    <2>. QED  BY <2>1, <2>3, <2>4
  <1>. QED  BY <1>1, <1>2 DEF UpdateHealthStatus

\* Of several instances at one address, only the first is ever marked: the
\* others are picked for ever, whatever the probes of the address say.
LaterOnesStayHealthy ==
    \A i, j \in DOMAIN instances :
        i < j /\ instances[i].addr = instances[j].addr => instances[j].isHealthy

\* The first instance at an address is never one of the later ones.
LEMMA MarkKeepsLater ==
    ASSUME instances \in Seq(Instance), LaterOnesStayHealthy,
           NEW a, NEW h \in BOOLEAN, UpdateHealthStatus(a, h)
    PROVE  LaterOnesStayHealthy'
  <1>. SUFFICES ASSUME NEW i \in DOMAIN instances', NEW j \in DOMAIN instances',
                       i < j, instances'[i].addr = instances'[j].addr
                PROVE  instances'[j].isHealthy
    BY DEF LaterOnesStayHealthy
  <1>1. i \in DOMAIN instances /\ j \in DOMAIN instances
    BY MarkFacts
  <1>2. instances[i].addr = instances[j].addr
    BY <1>1, MarkFacts
  <1>3. instances[j].isHealthy
    BY <1>1, <1>2 DEF LaterOnesStayHealthy
  <1>4. j # Find(a)
    <2>1. ASSUME j = Find(a) PROVE FALSE
      <3>1. j # 0
        BY <1>1
      <3>2. instances[j].addr = a /\ \A k \in 1..Len(instances) : instances[k].addr = a => j <= k
        BY <2>1, <3>1, FindFirst
      <3>3. j <= i
        BY <1>1, <1>2, <3>2
      <3>. QED  BY <1>1, <3>3
    <2>. QED  BY <2>1
  <1>. QED  BY <1>1, <1>3, <1>4, MarkHitsFirst

\* A new instance comes last and is healthy.
LEMMA AddKeepsLater ==
    ASSUME instances \in Seq(Instance), LaterOnesStayHealthy,
           NEW a \in Addresses, AddServiceInstance(a)
    PROVE  LaterOnesStayHealthy'
  <1>. SUFFICES ASSUME NEW i \in DOMAIN instances', NEW j \in DOMAIN instances',
                       i < j, instances'[i].addr = instances'[j].addr
                PROVE  instances'[j].isHealthy
    BY DEF LaterOnesStayHealthy
  <1>. DEFINE last == Len(instances) + 1
  <1>1. New(a) \in Instance /\ New(a).isHealthy
    BY DEF New, Instance
  <1>2. /\ DOMAIN instances' = 1..last
        /\ DOMAIN instances = 1..Len(instances)
        /\ Len(instances) \in Nat
        /\ \A k \in 1..Len(instances) : instances'[k] = instances[k]
        /\ instances'[last] = New(a)
    BY <1>1 DEF AddServiceInstance
  <1>3. CASE j = last
    BY <1>1, <1>2, <1>3
  <1>4. CASE j # last
    <2>1. i \in 1..Len(instances) /\ j \in 1..Len(instances)
      BY <1>2, <1>4
    <2>. QED  BY <1>2, <2>1 DEF LaterOnesStayHealthy
  <1>. QED  BY <1>3, <1>4

\* Without one instance the others keep their order.
LEMMA RemoveKeepsLater ==
    ASSUME instances \in Seq(Instance), LaterOnesStayHealthy,
           NEW a, RemoveServiceInstance(a)
    PROVE  LaterOnesStayHealthy'
  <1>. DEFINE n == Find(a)
              old(k) == IF k < n THEN k ELSE k + 1
  <1>1. CASE n = 0
    BY <1>1 DEF RemoveServiceInstance, LaterOnesStayHealthy
  <1>2. CASE n # 0
    <2>1. n \in 1..Len(instances) /\ instances' = RemoveAt(instances, n)
      BY <1>2, FindFirst DEF RemoveServiceInstance
    <2>. HIDE DEF n
    <2>2. /\ instances' \in Seq(Instance)
          /\ Len(instances') = Len(instances) - 1
          /\ \A k \in 1..(Len(instances) - 1) :
               instances'[k] = IF k < n THEN instances[k] ELSE instances[k + 1]
      BY <2>1, RemoveAtFacts
    <2>. SUFFICES ASSUME NEW i \in DOMAIN instances', NEW j \in DOMAIN instances',
                         i < j, instances'[i].addr = instances'[j].addr
                  PROVE  instances'[j].isHealthy
      BY DEF LaterOnesStayHealthy
    <2>3. /\ Len(instances) \in Nat
          /\ DOMAIN instances = 1..Len(instances)
          /\ DOMAIN instances' = 1..(Len(instances) - 1)
      BY <2>2
    <2>4. i \in 1..(Len(instances) - 1) /\ j \in 1..(Len(instances) - 1)
      BY <2>3
    <2>5. /\ old(i) \in DOMAIN instances
          /\ old(j) \in DOMAIN instances
          /\ old(i) < old(j)
      BY <2>1, <2>3, <2>4
    <2>6. instances'[i] = instances[old(i)] /\ instances'[j] = instances[old(j)]
      BY <2>2, <2>4
    <2>. HIDE DEF old
    <2>. QED  BY <2>5, <2>6 DEF LaterOnesStayHealthy
  <1>. QED  BY <1>1, <1>2

\* Picks and steps outside the balancer leave it alone.
LEMMA SameKeepsLater ==
    ASSUME LaterOnesStayHealthy, UNCHANGED instances
    PROVE  LaterOnesStayHealthy'
  BY DEF LaterOnesStayHealthy
=============================================================================
