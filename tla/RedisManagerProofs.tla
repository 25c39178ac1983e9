------------------------- MODULE RedisManagerProofs -------------------------
(***************************************************************************)
(* The safety properties of RedisManager, proved for any threads, contexts *)
(* and pool size.                                                          *)
(***************************************************************************)
EXTENDS RedisManager, FiniteSetTheorems, TLAPS

\* A thread holds a context exactly between getConnection and
\* returnConnection.  (Nothing is known of an "undefined" one.)
HoldsWhileUsing ==
    \A t \in Threads : /\ pc[t] \in {"using", "returning"} => ctx[t] # Null
                       /\ pc[t] \in {"idle", "taking"} => ctx[t] = Null

\* The inductive invariant.
IInv ==
    /\ TypeOK
    /\ HoldsWhileUsing
    /\ PoolWithinSize
    /\ ContextsPlacedOnce

-----------------------------------------------------------------------------

\* What removing the last context of a pool leaves.
LEMMA PopPool ==
    ASSUME NEW p \in Seq(Contexts), p # << >>
    PROVE  /\ Last(p) \in Contexts
           /\ Front(p) \in Seq(Contexts)
           /\ Len(Front(p)) = Len(p) - 1
           /\ DOMAIN Front(p) = 1..(Len(p) - 1)
           /\ \A i \in 1..(Len(p) - 1) : Front(p)[i] = p[i]
           /\ Last(p) = p[Len(p)]
           /\ DOMAIN p = 1..Len(p)
           /\ Len(p) \in Nat \ {0}
  <1>1. /\ Front(p) = SubSeq(p, 1, Len(p) - 1)
        /\ Last(p) = p[Len(p)]
    BY DEF Front, Last
  <1>2. /\ Len(p) \in Nat \ {0}
        /\ DOMAIN p = 1..Len(p)
        /\ p[Len(p)] \in Contexts
    OBVIOUS
  <1>3. /\ SubSeq(p, 1, Len(p) - 1) \in Seq(Contexts)
        /\ Len(SubSeq(p, 1, Len(p) - 1)) = Len(p) - 1
        /\ \A i \in 1..(Len(p) - 1) : SubSeq(p, 1, Len(p) - 1)[i] = p[i]
    BY <1>2
  <1>4. DOMAIN SubSeq(p, 1, Len(p) - 1) = 1..(Len(p) - 1)
    BY <1>2
  <1>. QED  BY <1>1, <1>2, <1>3, <1>4

\* What adding a context to a pool makes of it.
LEMMA PushPool ==
    ASSUME NEW p \in Seq(Contexts), NEW c \in Contexts
    PROVE  /\ Append(p, c) \in Seq(Contexts)
           /\ Len(Append(p, c)) = Len(p) + 1
           /\ DOMAIN p = 1..Len(p)
           /\ DOMAIN Append(p, c) = 1..(Len(p) + 1)
           /\ Len(p) \in Nat
           /\ Append(p, c)[Len(p) + 1] = c
           /\ \A i \in 1..Len(p) : Append(p, c)[i] = p[i]
  OBVIOUS

\* The contexts in a pool without its last one.
LEMMA PopRange ==
    ASSUME NEW p \in Seq(Contexts), p # << >>,
           \A i, j \in DOMAIN p : p[i] = p[j] => i = j
    PROVE  /\ Range(Front(p)) = Range(p) \ {Last(p)}
           /\ Last(p) \in Range(p)
           /\ \A i, j \in DOMAIN Front(p) : Front(p)[i] = Front(p)[j] => i = j
  <1>1. /\ Last(p) = p[Len(p)]
        /\ DOMAIN p = 1..Len(p)
        /\ DOMAIN Front(p) = 1..(Len(p) - 1)
        /\ Len(p) \in Nat \ {0}
        /\ \A i \in 1..(Len(p) - 1) : Front(p)[i] = p[i]
    BY PopPool
  <1>2. Last(p) \in Range(p)
    BY <1>1 DEF Range
  <1>3. /\ \A i \in 1..(Len(p) - 1) : i \in DOMAIN p /\ i # Len(p)
        /\ \A i \in 1..Len(p) : i # Len(p) => i \in 1..(Len(p) - 1)
    <2>1. \A n \in Nat \ {0} :
            /\ \A i \in 1..(n - 1) : i \in 1..n /\ i # n
            /\ \A i \in 1..n : i # n => i \in 1..(n - 1)
      OBVIOUS
    <2>. QED  BY <1>1, <2>1
  <1>4. \A i, j \in DOMAIN Front(p) : Front(p)[i] = Front(p)[j] => i = j
    BY <1>1, <1>3
  <1>5. Range(Front(p)) = Range(p) \ {Last(p)}
    <2>1. ASSUME NEW c \in Range(Front(p))
          PROVE  c \in Range(p) \ {Last(p)}
      <3>1. PICK i \in 1..(Len(p) - 1) : c = p[i]
        BY <1>1 DEF Range
      <3>2. Len(p) \in DOMAIN p
        BY <1>1
      <3>. QED  BY <1>1, <1>3, <3>1, <3>2 DEF Range
    <2>2. ASSUME NEW c \in Range(p), c # Last(p)
          PROVE  c \in Range(Front(p))
      <3>1. PICK i \in 1..Len(p) : c = p[i]
        BY <1>1 DEF Range
      <3>2. i # Len(p)
        BY <1>1, <2>2, <3>1
      <3>3. i \in 1..(Len(p) - 1)
        BY <1>3, <3>2
      <3>. QED  BY <1>1, <3>1, <3>3 DEF Range
    <2>. QED  BY <2>1, <2>2
  <1>. QED  BY <1>2, <1>4, <1>5

\* The contexts in a pool that one was added to.
LEMMA PushRange ==
    ASSUME NEW p \in Seq(Contexts), NEW c \in Contexts
    PROVE  /\ Range(Append(p, c)) = Range(p) \cup {c}
           /\ (/\ c \notin Range(p)
               /\ \A i, j \in DOMAIN p : p[i] = p[j] => i = j)
              => \A i, j \in DOMAIN Append(p, c) :
                   Append(p, c)[i] = Append(p, c)[j] => i = j
  <1>1. Range(Append(p, c)) = Range(p) \cup {c}
    <2>1. \A i \in 1..(Len(p) + 1) : i \in 1..Len(p) \/ i = Len(p) + 1
      BY PushPool
    <2>2. \A i \in 1..Len(p) : i \in 1..(Len(p) + 1)
      BY PushPool
    <2>3. Len(p) + 1 \in 1..(Len(p) + 1)
      BY PushPool
    <2>. QED  BY <2>1, <2>2, <2>3, PushPool DEF Range
  <1>2. ASSUME c \notin Range(p), \A i, j \in DOMAIN p : p[i] = p[j] => i = j
        PROVE  \A i, j \in DOMAIN Append(p, c) :
                 Append(p, c)[i] = Append(p, c)[j] => i = j
    BY <1>2, PushPool DEF Range
  <1>. QED  BY <1>1, <1>2

-----------------------------------------------------------------------------
(* What the operations on contexts do *)

\* A new context is none that was allocated.
LEMMA CreateFacts ==
    ASSUME TypeOK, NEW c, NEW allocated \in SUBSET live,
           CreateConnection(c, allocated)
    PROVE  /\ c \in Contexts \cup {Null}
           /\ live' \in SUBSET Contexts
           /\ broken' \in SUBSET live'
           /\ live' = allocated \cup ({c} \ {Null})
           /\ c # Null => c \notin allocated
  BY ContextsAssumption DEF TypeOK, CreateConnection

\* Taking a context keeps the types, and never makes the pool longer.
LEMMA TakeType ==
    ASSUME TypeOK, NEW t \in Threads, NEW c, TakeContext(t, c)
    PROVE  /\ pool' \in Seq(Contexts)
           /\ Len(pool') <= Len(pool)
           /\ c \in Contexts \cup {Null}
           /\ live' \in SUBSET Contexts
           /\ broken' \in SUBSET live'
  <1>0. pool \in Seq(Contexts) /\ Len(pool) \in Nat /\ broken \in SUBSET live
        /\ live \in SUBSET Contexts
    BY DEF TypeOK
  <1>1. CASE pool = << >>
    <2>1. CreateConnection(c, live) /\ pool' = pool
      BY <1>1 DEF TakeContext
    <2>. QED  BY <1>0, <2>1, CreateFacts
  <1>2. CASE pool # << >>
    <2>1. /\ pool' = Front(pool)
          /\ \/ c = Last(pool) /\ UNCHANGED contextVars
             \/ CreateConnection(c, live \ {Last(pool)})
      BY <1>2 DEF TakeContext
    <2>2. /\ Front(pool) \in Seq(Contexts)
          /\ Len(Front(pool)) = Len(pool) - 1
          /\ Last(pool) \in Contexts
      BY <1>0, <1>2, PopPool
    <2>3. pool' \in Seq(Contexts) /\ Len(pool') <= Len(pool)
      BY <1>0, <2>1, <2>2
    <2>4. CASE c = Last(pool) /\ UNCHANGED contextVars
      BY <1>0, <2>2, <2>3, <2>4 DEF contextVars
    <2>5. CASE CreateConnection(c, live \ {Last(pool)})
      BY <2>3, <2>5, CreateFacts
    <2>. QED  BY <2>1, <2>4, <2>5
  <1>. QED  BY <1>1, <1>2

\* The context taken is in nobody's hands and no longer in the pool.
LEMMA TakePlaced ==
    ASSUME TypeOK, ContextsPlacedOnce, \A t \in Threads : pc[t] # "undefined",
           NEW t \in Threads, NEW c, TakeContext(t, c)
    PROVE  /\ live' = Range(pool') \cup Held \cup ({c} \ {Null})
           /\ c # Null => c \notin Range(pool') \cup Held
           /\ Range(pool') \cap Held = {}
           /\ \A i, j \in DOMAIN pool' : pool'[i] = pool'[j] => i = j
  <1>0. /\ live = Range(pool) \cup Held
        /\ Range(pool) \cap Held = {}
        /\ \A i, j \in DOMAIN pool : pool[i] = pool[j] => i = j
        /\ pool \in Seq(Contexts)
    BY DEF TypeOK, ContextsPlacedOnce
  <1>1. CASE pool = << >>
    <2>1. CreateConnection(c, live) /\ pool' = pool
      BY <1>1 DEF TakeContext
    <2>. QED  BY <1>0, <2>1, CreateFacts
  <1>2. CASE pool # << >>
    <2>1. /\ pool' = Front(pool)
          /\ \/ c = Last(pool) /\ UNCHANGED contextVars
             \/ CreateConnection(c, live \ {Last(pool)})
      BY <1>2 DEF TakeContext
    <2>2. /\ Range(Front(pool)) = Range(pool) \ {Last(pool)}
          /\ Last(pool) \in Range(pool)
          /\ \A i, j \in DOMAIN Front(pool) : Front(pool)[i] = Front(pool)[j] => i = j
      BY <1>0, <1>2, PopRange
    <2>3. Last(pool) \in Contexts /\ Last(pool) # Null
      BY <1>0, <1>2, PopPool, ContextsAssumption
    <2>4. CASE c = Last(pool) /\ UNCHANGED contextVars
      BY <1>0, <2>1, <2>2, <2>3, <2>4 DEF contextVars
    <2>5. CASE CreateConnection(c, live \ {Last(pool)})
      <3>1. /\ live' = (live \ {Last(pool)}) \cup ({c} \ {Null})
            /\ c # Null => c \notin live \ {Last(pool)}
        BY <2>5, CreateFacts
      <3>. QED  BY <1>0, <2>1, <2>2, <3>1
    <2>. QED  BY <2>1, <2>4, <2>5
  <1>. QED  BY <1>1, <1>2

\* A step that moves no context keeps each in its place.
LEMMA KeepPlaced ==
    ASSUME ContextsPlacedOnce, UNCHANGED <<pool, ctx, live>>,
           (\A t \in Threads : pc'[t] # "undefined")
             => \A t \in Threads : pc[t] # "undefined"
    PROVE  ContextsPlacedOnce'
  BY DEF ContextsPlacedOnce, Held

-----------------------------------------------------------------------------
(* The initial states *)

\* The initial states satisfy the inductive invariant.
LEMMA InitIInv == Init => IInv
  <1>. SUFFICES ASSUME Init PROVE IInv
    OBVIOUS
  <1>. USE DEF Init
  <1>1. TypeOK
    BY DEF TypeOK, Phases, Steps
  <1>2. HoldsWhileUsing /\ PoolWithinSize
    BY PoolSizeAssumption DEF HoldsWhileUsing, PoolWithinSize
  <1>3. ContextsPlacedOnce
    BY DEF ContextsPlacedOnce, Range, Held
  <1>. QED  BY <1>1, <1>2, <1>3 DEF IInv

-----------------------------------------------------------------------------
(* The steps *)

\* No thread comes back from undefined behaviour.
LEMMA UndefinedStays ==
    ASSUME TypeOK, [Next]_vars, \A t \in Threads : pc'[t] # "undefined"
    PROVE  \A t \in Threads : pc[t] # "undefined"
  <1>1. SUFFICES ASSUME NEW t \in Threads, pc[t] = "undefined"
                 PROVE  pc'[t] = "undefined"
    OBVIOUS
  <1>. USE DEF TypeOK
  <1>2. CASE Initialize
    BY <1>1, <1>2 DEF Initialize, InitializeLocks, InitializeConnects, InitializeReturns,
                      Disconnect, threadVars
  <1>3. CASE Stop \/ RedisGoes \/ RedisComes
    BY <1>1, <1>3 DEF Stop, RedisGoes, RedisComes, threadVars
  <1>4. ASSUME NEW u \in Threads, Operate(u)
        PROVE  pc'[t] = "undefined"
    BY <1>1, <1>4 DEF Operate, GetConnection, GotConnection, Command, ReturnConnection
  <1>5. CASE UNCHANGED vars
    BY <1>1, <1>5 DEF vars, threadVars
  <1>. QED  BY <1>2, <1>3, <1>4, <1>5 DEF Next

\* Startup and shutdown keep the inductive invariant.
LEMMA InitializeStep ==
    ASSUME IInv, Initialize
    PROVE  IInv'
  <1>. USE DEF IInv
  <1>0. (\A t \in Threads : pc'[t] # "undefined") => \A t \in Threads : pc[t] # "undefined"
    BY UndefinedStays DEF Next
  <1>1. CASE InitializeLocks
    <2>1. TypeOK' /\ HoldsWhileUsing' /\ PoolWithinSize'
      BY <1>1 DEF InitializeLocks, TypeOK, HoldsWhileUsing, PoolWithinSize, threadVars, contextVars
    <2>2. ContextsPlacedOnce'
      BY <1>0, <1>1, KeepPlaced DEF InitializeLocks, threadVars, contextVars
    <2>. QED  BY <2>1, <2>2
  <1>2. CASE InitializeConnects
    <2>1. PICK c \in Contexts \cup {Null} :
            /\ CreateConnection(c, live)
            /\ pool' = IF c = Null THEN pool ELSE Append(pool, c)
            /\ phase' = IF c = Null THEN "failed" ELSE phase
      BY <1>2 DEF InitializeConnects
    <2>2. Len(pool) < PoolSize /\ UNCHANGED <<mutex, pc, ctx, ok, up>>
      BY <1>2 DEF InitializeConnects, threadVars
    <2>3. /\ live' \in SUBSET Contexts
          /\ broken' \in SUBSET live'
          /\ live' = live \cup ({c} \ {Null})
          /\ c # Null => c \notin live
      BY <2>1, CreateFacts
    <2>4. pool \in Seq(Contexts) /\ Len(pool) \in Nat
      BY DEF TypeOK
    <2>5. pool' \in Seq(Contexts) /\ Len(pool') <= PoolSize
      <3>1. CASE c = Null
        BY <2>1, <2>2, <2>4, <3>1, PoolSizeAssumption
      <3>2. CASE c # Null
        BY <2>1, <2>2, <2>4, <3>2, PushPool, PoolSizeAssumption
      <3>. QED  BY <3>1, <3>2
    <2>6. TypeOK'
      BY <2>1, <2>2, <2>3, <2>5 DEF TypeOK, Phases
    <2>7. HoldsWhileUsing' /\ PoolWithinSize'
      BY <2>2, <2>5 DEF HoldsWhileUsing, PoolWithinSize
    <2>8. ContextsPlacedOnce'
      <3>1. CASE c = Null
        BY <1>0, <2>1, <2>2, <2>3, <3>1, KeepPlaced
      <3>2. CASE c # Null
        <4>1. SUFFICES ASSUME \A t \in Threads : pc[t] # "undefined"
                       PROVE  ContextsPlacedOnce'
          BY <1>0 DEF ContextsPlacedOnce
        <4>2. /\ live = Range(pool) \cup Held
              /\ Range(pool) \cap Held = {}
              /\ \A i, j \in DOMAIN pool : pool[i] = pool[j] => i = j
              /\ \A t, u \in Threads : ctx[t] # Null /\ ctx[t] = ctx[u] => t = u
          BY <4>1 DEF ContextsPlacedOnce
        <4>3. /\ Range(pool') = Range(pool) \cup {c}
              /\ \A i, j \in DOMAIN pool' : pool'[i] = pool'[j] => i = j
          BY <2>1, <2>3, <2>4, <3>2, <4>2, PushRange
        <4>4. Held' = Held
          BY <2>2 DEF Held
        <4>. QED  BY <2>2, <2>3, <3>2, <4>2, <4>3, <4>4 DEF ContextsPlacedOnce
      <3>. QED  BY <3>1, <3>2
    <2>. QED  BY <2>6, <2>7, <2>8
  <1>3. CASE InitializeReturns
    <2>1. TypeOK' /\ HoldsWhileUsing' /\ PoolWithinSize'
      BY <1>3 DEF InitializeReturns, TypeOK, Phases, HoldsWhileUsing, PoolWithinSize,
                  threadVars, contextVars
    <2>2. ContextsPlacedOnce'
      BY <1>0, <1>3, KeepPlaced DEF InitializeReturns, threadVars, contextVars
    <2>. QED  BY <2>1, <2>2
  <1>4. CASE Disconnect
    <2>1. /\ live' = live \ Range(pool)
          /\ broken' = broken \ Range(pool)
          /\ pool' = << >>
          /\ phase' \in Phases
          /\ UNCHANGED <<mutex, ctx, ok, up>>
      BY <1>4 DEF Disconnect, Phases
    <2>2. /\ pc' \in [Threads -> Steps]
          /\ \A t \in Threads : pc'[t] = pc[t] \/ pc'[t] = "undefined"
      BY <1>4 DEF Disconnect, TypeOK, Steps
    <2>3. TypeOK'
      BY <2>1, <2>2 DEF TypeOK
    <2>4. HoldsWhileUsing'
      BY <2>1, <2>2 DEF HoldsWhileUsing
    <2>5. PoolWithinSize'
      BY <2>1, PoolSizeAssumption DEF PoolWithinSize
    <2>6. ContextsPlacedOnce'
      <3>1. Range(pool') = {} /\ Held' = Held
        BY <2>1 DEF Range, Held
      <3>2. \A i, j \in DOMAIN pool' : pool'[i] = pool'[j] => i = j
        BY <2>1
      <3>. QED  BY <1>0, <2>1, <3>1, <3>2 DEF ContextsPlacedOnce
    <2>. QED  BY <2>3, <2>4, <2>5, <2>6
  <1>. QED  BY <1>1, <1>2, <1>3, <1>4 DEF Initialize

\* The operations of a thread keep the inductive invariant.
LEMMA OperateStep ==
    ASSUME IInv, NEW t \in Threads, Operate(t)
    PROVE  IInv'
  <1>. USE DEF IInv
  <1>0. (\A u \in Threads : pc'[u] # "undefined") => \A u \in Threads : pc[u] # "undefined"
    BY UndefinedStays DEF Next
  <1>1. CASE GetConnection(t)
    <2>1. TypeOK' /\ HoldsWhileUsing' /\ PoolWithinSize'
      BY <1>1 DEF GetConnection, TypeOK, Steps, HoldsWhileUsing, PoolWithinSize, contextVars
    <2>2. ContextsPlacedOnce'
      BY <1>0, <1>1, KeepPlaced DEF GetConnection, contextVars
    <2>. QED  BY <2>1, <2>2
  <1>2. CASE GotConnection(t)
    <2>1. PICK c \in Contexts \cup {Null} :
            /\ TakeContext(t, c)
            /\ ctx' = [ctx EXCEPT ![t] = c]
            /\ pc' = [pc EXCEPT ![t] = IF c = Null THEN "idle" ELSE "using"]
            /\ ok' = [ok EXCEPT ![t] = IF c = Null THEN FALSE ELSE @]
      BY <1>2 DEF GotConnection
    <2>2. pc[t] = "taking" /\ UNCHANGED <<phase, mutex, up>>
      BY <1>2 DEF GotConnection
    <2>3. /\ pool' \in Seq(Contexts)
          /\ Len(pool') <= Len(pool)
          /\ live' \in SUBSET Contexts
          /\ broken' \in SUBSET live'
      BY <2>1, TakeType
    <2>4. TypeOK'
      <3>1. ok' \in [Threads -> BOOLEAN]
        BY <2>1 DEF TypeOK
      <3>2. pc' \in [Threads -> Steps] /\ ctx' \in [Threads -> Contexts \cup {Null}]
        BY <2>1 DEF TypeOK, Steps
      <3>. QED  BY <2>2, <2>3, <3>1, <3>2 DEF TypeOK
    <2>5. HoldsWhileUsing'
      BY <2>1 DEF HoldsWhileUsing, TypeOK
    <2>6. PoolWithinSize'
      <3>1. Len(pool) \in Nat /\ Len(pool') \in Nat
        BY <2>3 DEF TypeOK
      <3>. QED  BY <2>3, <3>1, PoolSizeAssumption DEF PoolWithinSize
    <2>7. ContextsPlacedOnce'
      <3>1. SUFFICES ASSUME \A u \in Threads : pc[u] # "undefined"
                     PROVE  ContextsPlacedOnce'
        BY <1>0 DEF ContextsPlacedOnce
      <3>2. /\ live' = Range(pool') \cup Held \cup ({c} \ {Null})
            /\ c # Null => c \notin Range(pool') \cup Held
            /\ Range(pool') \cap Held = {}
            /\ \A i, j \in DOMAIN pool' : pool'[i] = pool'[j] => i = j
        BY <2>1, <3>1, TakePlaced
      <3>3. ctx[t] = Null
        BY <2>2 DEF HoldsWhileUsing
      <3>4. Held' = Held \cup ({c} \ {Null})
        BY <2>1, <3>3 DEF Held, TypeOK
      <3>5. \A u, v \in Threads : ctx'[u] # Null /\ ctx'[u] = ctx'[v] => u = v
        <4>1. \A u, v \in Threads : ctx[u] # Null /\ ctx[u] = ctx[v] => u = v
          BY <3>1 DEF ContextsPlacedOnce
        <4>2. c # Null => \A u \in Threads : ctx[u] # c
          BY <3>2 DEF Held
        <4>. QED  BY <2>1, <4>1, <4>2 DEF TypeOK
      <3>. QED  BY <3>2, <3>4, <3>5 DEF ContextsPlacedOnce
    <2>. QED  BY <2>4, <2>5, <2>6, <2>7
  <1>3. CASE Command(t)
    <2>1. TypeOK' /\ HoldsWhileUsing' /\ PoolWithinSize'
      BY <1>3 DEF Command, TypeOK, Steps, HoldsWhileUsing, PoolWithinSize, contextVars
    <2>2. ContextsPlacedOnce'
      BY <1>0, <1>3, KeepPlaced DEF Command, contextVars
    <2>. QED  BY <2>1, <2>2
  <1>4. CASE ReturnConnection(t)
    <2>1. /\ pc[t] = "returning"
          /\ pc' = [pc EXCEPT ![t] = "idle"]
          /\ ctx' = [ctx EXCEPT ![t] = Null]
          /\ UNCHANGED <<phase, mutex, ok, up>>
      BY <1>4 DEF ReturnConnection
    <2>2. ctx[t] \in Contexts /\ ctx[t] # Null
      BY <2>1 DEF HoldsWhileUsing, TypeOK
    <2>3. /\ pool \in Seq(Contexts)
          /\ Len(pool) \in Nat
          /\ live \in SUBSET Contexts
          /\ broken \in SUBSET live
      BY DEF TypeOK
    <2>4. \/ /\ live' = live \ {ctx[t]}
             /\ broken' = broken \ {ctx[t]}
             /\ pool' = pool
          \/ /\ Len(pool) < PoolSize
             /\ pool' = Append(pool, ctx[t])
             /\ live' = live
             /\ broken' = broken
      BY <1>4, <2>3, PoolSizeAssumption DEF ReturnConnection, Free, contextVars
    <2>5. pool' \in Seq(Contexts) /\ Len(pool') <= PoolSize
      BY <2>2, <2>3, <2>4, PushPool, PoolSizeAssumption DEF PoolWithinSize
    <2>6. TypeOK'
      BY <2>1, <2>3, <2>4, <2>5 DEF TypeOK, Steps
    <2>7. HoldsWhileUsing' /\ PoolWithinSize'
      BY <2>1, <2>5 DEF HoldsWhileUsing, PoolWithinSize, TypeOK
    <2>8. ContextsPlacedOnce'
      <3>1. SUFFICES ASSUME \A u \in Threads : pc[u] # "undefined"
                     PROVE  ContextsPlacedOnce'
        BY <1>0 DEF ContextsPlacedOnce
      <3>2. /\ live = Range(pool) \cup Held
            /\ Range(pool) \cap Held = {}
            /\ \A i, j \in DOMAIN pool : pool[i] = pool[j] => i = j
            /\ \A u, v \in Threads : ctx[u] # Null /\ ctx[u] = ctx[v] => u = v
        BY <3>1 DEF ContextsPlacedOnce
      <3>3. Held' = Held \ {ctx[t]} /\ ctx[t] \in Held
        BY <2>1, <2>2, <3>2 DEF Held, TypeOK
      <3>4. \A u, v \in Threads : ctx'[u] # Null /\ ctx'[u] = ctx'[v] => u = v
        BY <2>1, <3>2 DEF TypeOK
      <3>5. CASE live' = live \ {ctx[t]} /\ pool' = pool
        BY <3>2, <3>3, <3>4, <3>5 DEF ContextsPlacedOnce
      <3>6. CASE pool' = Append(pool, ctx[t]) /\ live' = live
        <4>1. /\ Range(pool') = Range(pool) \cup {ctx[t]}
              /\ \A i, j \in DOMAIN pool' : pool'[i] = pool'[j] => i = j
          BY <2>2, <2>3, <3>2, <3>3, <3>6, PushRange
        <4>. QED  BY <3>2, <3>3, <3>4, <3>6, <4>1 DEF ContextsPlacedOnce
      <3>. QED  BY <2>4, <3>5, <3>6
    <2>. QED  BY <2>6, <2>7, <2>8
  <1>. QED  BY <1>1, <1>2, <1>3, <1>4 DEF Operate

\* Every step keeps the inductive invariant.
LEMMA NextIInv == IInv /\ [Next]_vars => IInv'
  <1>. SUFFICES ASSUME IInv, [Next]_vars PROVE IInv'
    OBVIOUS
  <1>1. CASE Initialize
    BY <1>1, InitializeStep
  <1>2. CASE \E t \in Threads : Operate(t)
    BY <1>2, OperateStep
  <1>3. CASE Stop \/ RedisGoes \/ RedisComes \/ UNCHANGED vars
    <2>. USE DEF IInv, Stop, RedisGoes, RedisComes, vars, threadVars, contextVars
    <2>1. TypeOK'
      BY <1>3 DEF TypeOK, Phases
    <2>2. HoldsWhileUsing' /\ PoolWithinSize'
      BY <1>3 DEF HoldsWhileUsing, PoolWithinSize
    <2>3. ContextsPlacedOnce'
      BY <1>3, KeepPlaced
    <2>. QED  BY <2>1, <2>2, <2>3
  <1>. QED  BY <1>1, <1>2, <1>3 DEF Next

-----------------------------------------------------------------------------

\* The inductive invariant holds in every reachable state.
LEMMA InvariantHolds == Spec => []IInv
  BY InitIInv, NextIInv, PTL DEF Spec

\* Every variable keeps its type, also after a shutdown came into the middle
\* of an operation.
THEOREM TypeCorrect == Spec => []TypeOK
  BY InvariantHolds, PTL DEF IInv

\* returnConnection never lets the pool grow beyond pool size, however many
\* contexts getConnection made while it was empty.
THEOREM PoolBounded == Spec => []PoolWithinSize
  BY InvariantHolds, PTL DEF IInv

\* No context is shared, lost or used after redisFree, for any number of
\* threads, unless disconnect hit a pool operation.
THEOREM ContextsExclusive == Spec => []ContextsPlacedOnce
  BY InvariantHolds, PTL DEF IInv

-----------------------------------------------------------------------------
(* The pool of contexts implements ResourcePool. *)

\* An abstract step is one of the pool, as long as no thread is undefined.
PoolStep == Pool!Next \/ UNCHANGED (Pool!vars)

\* What the abstract pool counts as in use is what the threads hold.
LEMMA InUseHeld == Pool!InUse = Held
  BY DEF Pool!InUse, Held

\* A step that moves no context is no step of the pool.
LEMMA QuietPool ==
    ASSUME UNCHANGED <<pool, ctx>>
    PROVE  PoolStep
  BY DEF PoolStep, Pool!vars

\* A context that initialize makes is new to the pool.
LEMMA ConnectPool ==
    ASSUME IInv, \A t \in Threads : pc[t] # "undefined", InitializeConnects
    PROVE  PoolStep
  <1>1. PICK c \in Contexts \cup {Null} :
          /\ CreateConnection(c, live)
          /\ pool' = IF c = Null THEN pool ELSE Append(pool, c)
    BY DEF InitializeConnects
  <1>2. ctx' = ctx
    BY DEF InitializeConnects, threadVars
  <1>3. CASE c = Null
    BY <1>1, <1>2, <1>3, QuietPool
  <1>4. CASE c # Null
    <2>1. TypeOK /\ live = Range(pool) \cup Held /\ Range(pool) \cap Held = {}
      BY DEF IInv, ContextsPlacedOnce
    <2>2. c \notin live /\ pool \in Seq(Contexts) /\ live \in SUBSET Contexts
      BY <1>1, <1>4, <2>1, CreateFacts DEF TypeOK
    <2>3. Range(pool') = Range(pool) \cup {c}
      BY <1>1, <1>4, <2>2, PushRange
    <2>4. Pool!Fill
      BY <1>2, <1>4, <2>1, <2>2, <2>3, InUseHeld DEF Pool!Fill
    <2>. QED  BY <2>4 DEF PoolStep, Pool!Next
  <1>. QED  BY <1>3, <1>4

\* getConnection takes a free context or a new one, or finds only that a
\* pooled one is unfit.
LEMMA TakePool ==
    ASSUME IInv, \A t \in Threads : pc[t] # "undefined",
           NEW t \in Threads, GotConnection(t)
    PROVE  PoolStep
  <1>1. PICK c \in Contexts \cup {Null} :
          TakeContext(t, c) /\ ctx' = [ctx EXCEPT ![t] = c]
    BY DEF GotConnection
  <1>2. /\ TypeOK /\ ContextsPlacedOnce
        /\ live = Range(pool) \cup Held
        /\ pool \in Seq(Contexts)
        /\ ctx \in [Threads -> Contexts \cup {Null}]
        /\ ctx[t] = Null
    BY DEF IInv, ContextsPlacedOnce, TypeOK, HoldsWhileUsing, GotConnection
  <1>3. /\ c # Null => c \notin Range(pool') \cup Held
        /\ Range(pool') \cap Held = {}
    BY <1>1, <1>2, TakePlaced
  <1>4. Range(pool') \subseteq Range(pool)
    <2>1. CASE pool = << >>
      BY <1>1, <2>1 DEF TakeContext
    <2>2. CASE pool # << >>
      <3>1. pool' = Front(pool)
        BY <1>1, <2>2 DEF TakeContext
      <3>2. \A i, j \in DOMAIN pool : pool[i] = pool[j] => i = j
        BY <1>2 DEF ContextsPlacedOnce
      <3>. QED  BY <1>2, <2>2, <3>1, <3>2, PopRange
    <2>. QED  BY <2>1, <2>2
  <1>5. CASE c = Null
    <2>1. ctx' = ctx
      BY <1>1, <1>2, <1>5
    <2>2. Pool!Discard
      BY <1>4, <2>1 DEF Pool!Discard
    <2>. QED  BY <2>2 DEF PoolStep, Pool!Next
  <1>6. CASE c # Null
    <2>1. ctx'[t] = c
      BY <1>1, <1>2
    <2>2. Pool!Take(t)
      BY <1>1, <1>2, <1>3, <1>4, <1>6, <2>1, InUseHeld DEF Pool!Take
    <2>. QED  BY <2>2 DEF PoolStep, Pool!Next
  <1>. QED  BY <1>5, <1>6

\* returnConnection gives the thread's context back, or frees it.
LEMMA GivePool ==
    ASSUME IInv, NEW t \in Threads, ReturnConnection(t)
    PROVE  PoolStep
  <1>1. /\ pool \in Seq(Contexts)
        /\ ctx[t] \in Contexts /\ ctx[t] # Null
        /\ ctx' = [ctx EXCEPT ![t] = Null]
    BY DEF IInv, TypeOK, HoldsWhileUsing, ReturnConnection
  <1>2. pool' = pool \/ pool' = Append(pool, ctx[t])
    BY DEF ReturnConnection
  <1>3. Range(pool') = Range(pool) \/ Range(pool') = Range(pool) \cup {ctx[t]}
    BY <1>1, <1>2, PushRange
  <1>4. Pool!Give(t)
    BY <1>1, <1>3 DEF Pool!Give
  <1>. QED  BY <1>4 DEF PoolStep, Pool!Next

\* Every step of RedisManager that leaves no thread undefined is a step of the
\* pool or a stutter.
LEMMA NextPool ==
    ASSUME IInv, [Next]_vars, \A t \in Threads : pc'[t] # "undefined"
    PROVE  PoolStep
  <1>0. \A t \in Threads : pc[t] # "undefined"
    BY UndefinedStays DEF IInv
  <1>1. CASE InitializeConnects
    BY <1>0, <1>1, ConnectPool
  <1>2. CASE Disconnect
    <2>1. Range(pool') = {} /\ ctx' = ctx
      BY <1>2 DEF Disconnect, Range
    <2>2. Pool!Discard
      BY <2>1 DEF Pool!Discard
    <2>. QED  BY <2>2 DEF PoolStep, Pool!Next
  <1>3. CASE \E t \in Threads : GotConnection(t)
    BY <1>0, <1>3, TakePool
  <1>4. CASE \E t \in Threads : ReturnConnection(t)
    BY <1>4, GivePool
  <1>5. CASE \/ InitializeLocks \/ InitializeReturns \/ Stop \/ RedisGoes \/ RedisComes
             \/ \E t \in Threads : GetConnection(t) \/ Command(t)
             \/ UNCHANGED vars
    BY <1>5, QuietPool DEF InitializeLocks, InitializeReturns, Stop, RedisGoes, RedisComes,
                           GetConnection, Command, vars, threadVars
  <1>. QED  BY <1>1, <1>2, <1>3, <1>4, <1>5 DEF Next, Initialize, Operate

\* The pool starts empty.
LEMMA InitPool == Init => Pool!Init
  BY DEF Init, Pool!Init, Range

\* RedisManager implements a pool of resources, until a step is undefined: no
\* context that a thread uses is given to another or put into the pool.
THEOREM PoolIsKept == Spec => ImplementsPool
  <1>1. IInv /\ [Next]_vars => [Pool!Next \/ Undefined']_(Pool!vars)
    BY NextPool DEF PoolStep, Undefined
  <1>. QED  BY <1>1, InitPool, InvariantHolds, PTL DEF Spec, ImplementsPool

-----------------------------------------------------------------------------
(* A startup that fails *)

\* initialize holds its mutex when it fails, and the disconnect that it calls
\* is what would end it.
Failed == phase = "failed"
FailedHoldsMutex == Failed => mutex = "initialize"

\* Every step keeps the mutex held, and the startup failed.
LEMMA NextFailed ==
    FailedHoldsMutex /\ [Next]_vars => FailedHoldsMutex' /\ (Failed => Failed')
  <1>. SUFFICES ASSUME FailedHoldsMutex, [Next]_vars
                PROVE  FailedHoldsMutex' /\ (Failed => Failed')
    OBVIOUS
  <1>. USE DEF FailedHoldsMutex, Failed
  <1>1. CASE Initialize
    BY <1>1 DEF Initialize, InitializeLocks, InitializeConnects, InitializeReturns, Disconnect
  <1>2. ASSUME NEW t \in Threads, Operate(t)
        PROVE  UNCHANGED <<phase, mutex>>
    BY <1>2 DEF Operate, GetConnection, GotConnection, Command, ReturnConnection
  <1>3. CASE Stop
    BY <1>3 DEF Stop
  <1>4. CASE RedisGoes \/ RedisComes \/ UNCHANGED vars
    BY <1>4 DEF RedisGoes, RedisComes, vars
  <1>. QED  BY <1>1, <1>2, <1>3, <1>4 DEF Next

\* One connection that fails at startup is enough, for any pool size and
\* whatever the Redis server does afterwards: the process never goes on, with
\* Redis or without.
THEOREM FailedStartupHangs == Spec => [](Failed => []Failed)
  <1>1. Init => FailedHoldsMutex
    BY DEF Init, FailedHoldsMutex, Failed
  <1>. QED  BY <1>1, NextFailed, PTL DEF Spec

-----------------------------------------------------------------------------
(* The number of contexts *)

\* Although getConnection makes a context whenever the pool is empty, there
\* are never more at one time than the pool holds or than threads serve.
ContextsBounded ==
    ~Undefined => \/ Cardinality(live) <= PoolSize
                  \/ Cardinality(live) <= Cardinality(Threads)

\* Nobody has a context before startup is over.
IdleBeforeServing == ~Serving => \A t \in Threads : pc[t] = "idle"

\* The invariant about the number of contexts.
BoundInv ==
    /\ IdleBeforeServing
    /\ ~Undefined => IsFiniteSet(live)
    /\ ContextsBounded

\* A thread holds one context at most.
LEMMA HeldFinite ==
    ASSUME NEW c \in [Threads -> Contexts \cup {Null}], IsFiniteSet(Threads)
    PROVE  LET held == {c[t] : t \in Threads} \ {Null}
           IN  IsFiniteSet(held) /\ Cardinality(held) <= Cardinality(Threads)
  <1>. DEFINE values == {c[t] : t \in Threads}
              held == values \ {Null}
  <1>1. c \in Surjection(Threads, values)
    <2>1. c \in [Threads -> values]
      OBVIOUS
    <2>. QED  BY <2>1 DEF Surjection
  <1>2. IsFiniteSet(values) /\ Cardinality(values) <= Cardinality(Threads)
    BY <1>1, FS_Surjection
  <1>3. IsFiniteSet(held) /\ Cardinality(held) <= Cardinality(values)
    BY <1>2, FS_Subset
  <1>4. /\ Cardinality(held) \in Nat
        /\ Cardinality(values) \in Nat
        /\ Cardinality(Threads) \in Nat
    BY <1>2, <1>3, FS_CardinalityType
  <1>. QED  BY <1>2, <1>3, <1>4

\* A pool has no more contexts than places.
LEMMA PoolFinite ==
    ASSUME NEW p \in Seq(Contexts)
    PROVE  IsFiniteSet(Range(p)) /\ Cardinality(Range(p)) <= Len(p)
  <1>1. DOMAIN p = 1..Len(p) /\ Len(p) \in Nat
    OBVIOUS
  <1>2. p \in Surjection(1..Len(p), Range(p))
    <2>1. p \in [1..Len(p) -> Range(p)]
      BY <1>1 DEF Range
    <2>. QED  BY <1>1, <2>1 DEF Surjection, Range
  <1>3. IsFiniteSet(1..Len(p)) /\ Cardinality(1..Len(p)) = Len(p)
    BY <1>1, FS_Interval
  <1>. QED  BY <1>2, <1>3, FS_Surjection

\* A getConnection that finds contexts in the pool replaces the one it takes,
\* if at all.
LEMMA TakeKeepsNumber ==
    ASSUME IInv, ~Undefined, IsFiniteSet(live), pool # << >>,
           NEW t \in Threads, NEW c, TakeContext(t, c)
    PROVE  IsFiniteSet(live') /\ Cardinality(live') <= Cardinality(live)
  <1>. DEFINE last == Last(pool)
              rest == live \ {last}
  <1>0. TypeOK /\ pool \in Seq(Contexts)
        /\ live = Range(pool) \cup Held
        /\ \A i, j \in DOMAIN pool : pool[i] = pool[j] => i = j
    BY DEF IInv, TypeOK, ContextsPlacedOnce, Undefined
  <1>1. last \in live
    BY <1>0, PopRange
  <1>2. /\ IsFiniteSet(rest)
        /\ Cardinality(rest) = Cardinality(live) - 1
        /\ Cardinality(live) \in Nat
    BY <1>1, FS_RemoveElement, FS_CardinalityType
  <1>3. CASE live' = live
    BY <1>2, <1>3
  <1>4. CASE CreateConnection(c, rest)
    <2>1. live' = rest \/ (live' = rest \cup {c} /\ c \notin rest)
      <3>1. live' = rest \cup ({c} \ {Null}) /\ (c # Null => c \notin rest)
        BY <1>0, <1>4, CreateFacts
      <3>. QED  BY <3>1
    <2>. HIDE DEF rest
    <2>2. CASE live' = rest
      BY <1>2, <2>2
    <2>3. CASE live' = rest \cup {c} /\ c \notin rest
      <3>1. IsFiniteSet(live') /\ Cardinality(live') = Cardinality(rest) + 1
        BY <1>2, <2>3, FS_AddElement
      <3>. QED  BY <1>2, <3>1
    <2>. QED  BY <2>1, <2>2, <2>3
  <1>. QED  BY <1>3, <1>4 DEF TakeContext, contextVars

\* What a step may do to the set of contexts.
LEMMA LiveSteps ==
    ASSUME IInv, [Next]_vars
    PROVE  \/ InitializeConnects
           \/ \E t \in Threads : GotConnection(t)
           \/ live' \subseteq live
  <1>1. CASE \/ InitializeLocks \/ InitializeReturns \/ Stop \/ RedisGoes \/ RedisComes
             \/ \E t \in Threads : GetConnection(t) \/ Command(t)
             \/ UNCHANGED vars
    BY <1>1 DEF InitializeLocks, InitializeReturns, Stop, RedisGoes, RedisComes,
                GetConnection, Command, vars, contextVars
  <1>2. CASE Disconnect
    BY <1>2 DEF Disconnect
  <1>3. CASE \E t \in Threads : ReturnConnection(t)
    BY <1>3 DEF ReturnConnection, Free, contextVars
  <1>. QED  BY <1>1, <1>2, <1>3 DEF Next, Initialize, Operate

\* Threads begin only when startup is over, which it is for good.
LEMMA NextIdle ==
    ASSUME IInv, IdleBeforeServing, [Next]_vars
    PROVE  IdleBeforeServing'
  <1>. USE DEF IdleBeforeServing, Serving
  <1>1. CASE Initialize
    BY <1>1 DEF Initialize, InitializeLocks, InitializeConnects, InitializeReturns,
                Disconnect, threadVars
  <1>2. ASSUME NEW t \in Threads, Operate(t)
        PROVE  IdleBeforeServing'
    BY <1>2 DEF Operate, GetConnection, GotConnection, Command, ReturnConnection, IInv, TypeOK
  <1>3. CASE Stop \/ RedisGoes \/ RedisComes \/ UNCHANGED vars
    BY <1>3 DEF Stop, RedisGoes, RedisComes, vars, threadVars
  <1>. QED  BY <1>1, <1>2, <1>3 DEF Next

\* Every step keeps the number of contexts within its bound.
LEMMA NextBound ==
    ASSUME IInv, BoundInv, IsFiniteSet(Threads), [Next]_vars
    PROVE  BoundInv'
  <1>1. IdleBeforeServing'
    BY NextIdle DEF BoundInv
  <1>2. SUFFICES ASSUME ~Undefined'
                 PROVE  /\ IsFiniteSet(live')
                        /\ \/ Cardinality(live') <= PoolSize
                           \/ Cardinality(live') <= Cardinality(Threads)
    BY <1>1 DEF BoundInv, ContextsBounded
  <1>3. IInv'
    BY NextIInv
  <1>4. ~Undefined
    BY <1>2, UndefinedStays DEF Undefined, IInv
  <1>5. /\ IsFiniteSet(live)
        /\ \/ Cardinality(live) <= PoolSize
           \/ Cardinality(live) <= Cardinality(Threads)
    BY <1>4 DEF BoundInv, ContextsBounded
  <1>6. /\ Cardinality(live) \in Nat
        /\ Cardinality(Threads) \in Nat
        /\ PoolSize \in Nat
    BY <1>5, FS_CardinalityType, PoolSizeAssumption
  <1>7. live' = Range(pool') \cup Held'
    BY <1>2, <1>3 DEF IInv, ContextsPlacedOnce, Undefined
  <1>8. ASSUME IsFiniteSet(live'), Cardinality(live') <= Cardinality(live)
        PROVE  \/ Cardinality(live') <= PoolSize
               \/ Cardinality(live') <= Cardinality(Threads)
    <2>1. Cardinality(live') \in Nat
      BY <1>8, FS_CardinalityType
    <2>. QED  BY <1>5, <1>6, <1>8, <2>1
  <1>9. CASE InitializeConnects
    <2>1. \A t \in Threads : ctx[t] = Null
      BY <1>9 DEF InitializeConnects, BoundInv, IdleBeforeServing, Serving, IInv, HoldsWhileUsing
    <2>2. Held' = {}
      BY <1>9, <2>1 DEF InitializeConnects, threadVars, Held
    <2>3. pool' \in Seq(Contexts) /\ Len(pool') <= PoolSize /\ Len(pool') \in Nat
      BY <1>3 DEF IInv, TypeOK, PoolWithinSize
    <2>4. IsFiniteSet(live') /\ Cardinality(live') <= Len(pool')
      BY <1>7, <2>2, <2>3, PoolFinite
    <2>5. Cardinality(live') \in Nat
      BY <2>4, FS_CardinalityType
    <2>. QED  BY <1>6, <2>3, <2>4, <2>5
  <1>10. CASE \E t \in Threads : GotConnection(t)
    <2>1. PICK t \in Threads, c \in Contexts \cup {Null} : TakeContext(t, c)
      BY <1>10 DEF GotConnection
    <2>2. CASE pool = << >>
      <3>1. Range(pool') = {}
        BY <2>1, <2>2 DEF TakeContext, Range
      <3>2. IsFiniteSet(Held)' /\ Cardinality(Held') <= Cardinality(Threads)
        <4>1. ctx' \in [Threads -> Contexts \cup {Null}]
          BY <1>3 DEF IInv, TypeOK
        <4>. QED  BY <4>1, HeldFinite DEF Held
      <3>. QED  BY <1>7, <3>1, <3>2
    <2>3. CASE pool # << >>
      BY <1>4, <1>5, <1>8, <2>1, <2>3, TakeKeepsNumber
    <2>. QED  BY <2>2, <2>3
  <1>11. CASE live' \subseteq live
    <2>1. IsFiniteSet(live') /\ Cardinality(live') <= Cardinality(live)
      BY <1>5, <1>11, FS_Subset
    <2>. QED  BY <1>8, <2>1
  <1>. QED  BY <1>9, <1>10, <1>11, LiveSteps

\* For any finite number of threads, the process never has more contexts than
\* its pool holds or than it has threads, whichever is more, across broken
\* connections and a full or empty pool.
THEOREM ContextsAreBounded ==
    ASSUME IsFiniteSet(Threads) PROVE Spec => []ContextsBounded
  <1>1. Init => BoundInv
    <2>. SUFFICES ASSUME Init PROVE BoundInv
      OBVIOUS
    <2>1. live = {} /\ \A t \in Threads : pc[t] = "idle"
      BY DEF Init
    <2>2. IsFiniteSet(live) /\ Cardinality(live) = 0
      BY <2>1, FS_EmptySet
    <2>. QED  BY <2>1, <2>2, PoolSizeAssumption DEF BoundInv, IdleBeforeServing, ContextsBounded
  <1>2. IInv /\ BoundInv /\ [Next]_vars => BoundInv'
    BY NextBound
  <1>3. BoundInv => ContextsBounded
    BY DEF BoundInv
  <1>. QED  BY <1>1, <1>2, <1>3, InvariantHolds, PTL DEF Spec
=============================================================================
