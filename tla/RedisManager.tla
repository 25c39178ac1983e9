---------------------------- MODULE RedisManager ----------------------------
(***************************************************************************)
(* RedisManager in one process: startup, the pool of connections shared by *)
(* the threads that serve, and disconnect.                                 *)
(*                                                                         *)
(* initialize and disconnect hold mutex_, getConnection and                *)
(* returnConnection hold poolMutex_, so nothing keeps disconnect and the   *)
(* other two apart, although all four change connectionPool_.  Neither     *)
(* mutex is recursive.  A pool operation takes two steps, and poolMutex_   *)
(* is held by the thread that is "taking" or "returning".                  *)
(*                                                                         *)
(* initialize is called again by the StatusServiceImpl and by every        *)
(* session of the Gate; it then finds initialized_ set and changes         *)
(* nothing, so only the first call is here.                                *)
(***************************************************************************)
EXTENDS SequencesExt

CONSTANTS
    Threads,    \* the threads that serve requests
    Contexts,   \* bound: redisContexts that exist at one time
    PoolSize,   \* poolSize_
    Null        \* the null pointer

ASSUME PoolSizeAssumption == PoolSize \in Nat \ {0}
ASSUME ContextsAssumption == Null \notin Contexts

VARIABLES
    phase,      \* how far the process is
    mutex,      \* who holds mutex_
    pool,       \* connectionPool_
    pc,         \* what each thread does
    ctx,        \* the context that each thread has
    ok,         \* history: did the thread's last operation succeed?
    live,       \* allocated contexts
    broken,     \* contexts whose connection the server has dropped
    up          \* does the Redis server accept connections?

threadVars == <<pc, ctx, ok>>
contextVars == <<live, broken>>
vars == <<phase, mutex, pool, threadVars, contextVars, up>>

Phases == {"starting", "failed", "serving", "stopping", "stopped"}
Steps == {"idle", "taking", "using", "returning", "undefined"}

\* c is a new context, beside the allocated ones, or Null.
CreateConnection(c, allocated) ==
    /\ IF up THEN c \in Contexts \ allocated ELSE c = Null
    /\ live' = allocated \cup ({c} \ {Null})
    /\ broken' = broken \cap allocated

Free(c) ==
    /\ live' = live \ {c}
    /\ broken' = broken \ {c}

-----------------------------------------------------------------------------
(* Startup and shutdown *)

InitializeLocks ==
    /\ phase = "starting"
    /\ mutex = "free"
    /\ mutex' = "initialize"
    /\ UNCHANGED <<phase, pool, threadVars, contextVars, up>>

InitializeConnects ==
    /\ phase = "starting"
    /\ mutex = "initialize"
    /\ Len(pool) < PoolSize
    /\ \E c \in Contexts \cup {Null} :
         /\ CreateConnection(c, live)
         /\ pool' = IF c = Null THEN pool ELSE Append(pool, c)
         /\ phase' = IF c = Null THEN "failed" ELSE phase
    /\ UNCHANGED <<mutex, threadVars, up>>

InitializeReturns ==
    /\ phase = "starting"
    /\ Len(pool) = PoolSize
    /\ phase' = "serving"
    /\ mutex' = "free"
    /\ UNCHANGED <<pool, threadVars, contextVars, up>>

\* The process is told to stop, by a signal or through its server.
Stop ==
    /\ phase = "serving"
    /\ phase' = "stopping"
    /\ UNCHANGED <<mutex, pool, threadVars, contextVars, up>>

\* Called by initialize when it fails, and at shutdown.  It does not wait for
\* the thread that is inside a pool operation: what that thread does with the
\* vector and its contexts from then on is undefined, unless it comes before
\* or after.
Disconnect ==
    /\ phase \in {"failed", "stopping"}
    /\ mutex = "free"
    /\ live' = live \ Range(pool)
    /\ broken' = broken \ Range(pool)
    /\ pool' = << >>
    /\ pc' \in {pc, [t \in Threads |-> IF pc[t] \in {"taking", "returning"}
                                       THEN "undefined" ELSE pc[t]]}
    /\ phase' = IF phase = "failed" THEN "serving" ELSE "stopped"
    /\ UNCHANGED <<mutex, ctx, ok, up>>

-----------------------------------------------------------------------------
(* An operation: getConnection, one command, returnConnection *)

PoolMutexFree == \A t \in Threads : pc[t] \notin {"taking", "returning"}

Serving == phase \in {"serving", "stopping", "stopped"}

GetConnection(t) ==
    /\ Serving
    /\ pc[t] = "idle"
    /\ PoolMutexFree
    /\ pc' = [pc EXCEPT ![t] = "taking"]
    /\ UNCHANGED <<phase, mutex, pool, ctx, ok, contextVars, up>>

\* Defects: the context is handed out as it is, or left in the pool.
TakeUnchecked(t, c) ==
    IF pool = << >>
    THEN CreateConnection(c, live) /\ UNCHANGED pool
    ELSE c = Last(pool) /\ pool' = Front(pool) /\ UNCHANGED contextVars

TakeWithoutPop(t, c) ==
    IF pool = << >>
    THEN CreateConnection(c, live) /\ UNCHANGED pool
    ELSE /\ UNCHANGED pool
         /\ IF Last(pool) \notin broken
            THEN c = Last(pool) /\ UNCHANGED contextVars
            ELSE CreateConnection(c, live \ {Last(pool)})

\* The last context of the pool when it answers the ping, else a new one.
TakeContext(t, c) ==
    IF pool = << >>
    THEN CreateConnection(c, live) /\ UNCHANGED pool
    ELSE /\ pool' = Front(pool)
         /\ IF Last(pool) \notin broken
            THEN c = Last(pool) /\ UNCHANGED contextVars
            ELSE CreateConnection(c, live \ {Last(pool)})

\* Defect: the caller does not look at what it gets.
UseAnyway(t) ==
    /\ pc[t] = "taking"
    /\ \E c \in Contexts \cup {Null} :
         /\ TakeContext(t, c)
         /\ ctx' = [ctx EXCEPT ![t] = c]
         /\ pc' = [pc EXCEPT ![t] = "using"]
         /\ UNCHANGED ok
    /\ UNCHANGED <<phase, mutex, up>>

GotConnection(t) ==
    /\ pc[t] = "taking"
    /\ \E c \in Contexts \cup {Null} :
         /\ TakeContext(t, c)
         /\ ctx' = [ctx EXCEPT ![t] = c]
         /\ pc' = [pc EXCEPT ![t] = IF c = Null THEN "idle" ELSE "using"]
         /\ ok' = [ok EXCEPT ![t] = IF c = Null THEN FALSE ELSE @]
    /\ UNCHANGED <<phase, mutex, up>>

\* A command on a dropped connection fails, and the context stays in error.
Command(t) ==
    /\ pc[t] = "using"
    /\ PoolMutexFree
    /\ ok' = [ok EXCEPT ![t] = up /\ ctx[t] \notin broken]
    /\ pc' = [pc EXCEPT ![t] = "returning"]
    /\ UNCHANGED <<phase, mutex, pool, ctx, contextVars, up>>

\* Defect: the context is kept however full the pool is.
KeepContext(t) ==
    /\ pc[t] = "returning"
    /\ pool' = Append(pool, ctx[t])
    /\ UNCHANGED contextVars
    /\ pc' = [pc EXCEPT ![t] = "idle"]
    /\ ctx' = [ctx EXCEPT ![t] = Null]
    /\ UNCHANGED <<phase, mutex, ok, up>>

\* A context that no longer works is kept, too.
ReturnConnection(t) ==
    /\ pc[t] = "returning"
    /\ IF Len(pool) >= PoolSize
       THEN Free(ctx[t]) /\ UNCHANGED pool
       ELSE pool' = Append(pool, ctx[t]) /\ UNCHANGED contextVars
    /\ pc' = [pc EXCEPT ![t] = "idle"]
    /\ ctx' = [ctx EXCEPT ![t] = Null]
    /\ UNCHANGED <<phase, mutex, ok, up>>

-----------------------------------------------------------------------------
(* The Redis server *)

RedisGoes ==
    /\ up
    /\ up' = FALSE
    /\ broken' = live
    /\ UNCHANGED <<phase, mutex, pool, threadVars, live>>

RedisComes ==
    /\ ~up
    /\ up' = TRUE
    /\ UNCHANGED <<phase, mutex, pool, threadVars, contextVars>>

-----------------------------------------------------------------------------

Init ==
    /\ phase = "starting"
    /\ mutex = "free"
    /\ pool = << >>
    /\ pc = [t \in Threads |-> "idle"]
    /\ ctx = [t \in Threads |-> Null]
    /\ ok = [t \in Threads |-> TRUE]
    /\ live = {}
    /\ broken = {}
    /\ up \in BOOLEAN

Initialize == InitializeLocks \/ InitializeConnects \/ InitializeReturns \/ Disconnect

Operate(t) == GetConnection(t) \/ GotConnection(t) \/ Command(t) \/ ReturnConnection(t)

Next ==
    \/ Initialize
    \/ Stop
    \/ \E t \in Threads : Operate(t)
    \/ RedisGoes
    \/ RedisComes

Spec == Init /\ [][Next]_vars

\* Threads and startup keep going, and each thread gets poolMutex_ in turn.
Fairness == WF_vars(Initialize) /\ \A t \in Threads : SF_vars(Operate(t))
FairSpec == Spec /\ Fairness

-----------------------------------------------------------------------------
(* Properties *)

\* Every variable keeps its type.
TypeOK ==
    /\ phase \in Phases
    /\ mutex \in {"free", "initialize"}
    /\ pool \in Seq(Contexts)
    /\ pc \in [Threads -> Steps]
    /\ ctx \in [Threads -> Contexts \cup {Null}]
    /\ ok \in [Threads -> BOOLEAN]
    /\ live \in SUBSET Contexts
    /\ broken \in SUBSET live
    /\ up \in BOOLEAN

\* The contexts that threads work with.
Held == {ctx[t] : t \in Threads} \ {Null}

\* Unless disconnect came into the middle of a pool operation, every context
\* is in one place, in the pool or with one thread, and no context is lost or
\* used after it was freed: across broken connections, a full or empty pool
\* and a shutdown with operations under way.
ContextsPlacedOnce ==
    (\A t \in Threads : pc[t] # "undefined") =>
        /\ live = Range(pool) \cup Held
        /\ Range(pool) \cap Held = {}
        /\ \A i, j \in DOMAIN pool : pool[i] = pool[j] => i = j
        /\ \A t, u \in Threads : ctx[t] # Null /\ ctx[t] = ctx[u] => t = u

Undefined == \E t \in Threads : pc[t] = "undefined"

\* The pool of contexts keeps what a pool promises, in every step until one is
\* undefined: a startup that fails, broken connections, a full or empty pool, a
\* shutdown between the operations.
Pool == INSTANCE ResourcePool WITH
    Holders <- Threads, Resources <- Contexts, None <- Null,
    free <- Range(pool), holds <- ctx
ImplementsPool == Pool!Init /\ [][Pool!Next \/ Undefined']_(Pool!vars)

\* Contexts made while the pool was empty do not make it grow for good.
PoolWithinSize == Len(pool) <= PoolSize

\* Once Redis is there to stay, a thread's operations stop failing, whatever
\* broken connections were pooled or in use.
RedisRecovers ==
    <>[](up /\ phase = "serving") => \A t \in Threads : <>[]ok[t]

\* "Failed to connect to Redis, continuing without Redis support" (main.cpp
\* of both servers): startup comes to an end. It does not, when a connection
\* fails: disconnect waits for the mutex_ that initialize holds.
StartupEnds == <>Serving
=============================================================================
