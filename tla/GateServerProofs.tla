-------------------------- MODULE GateServerProofs --------------------------
(***************************************************************************)
(* The safety properties of GateServer, proved for any users, sessions and *)
(* pool size.                                                              *)
(***************************************************************************)
EXTENDS GateServer, TLAPS

USE DEF NoClient

\* The clients handed out so far are numbered up to made.
ClientsNumbered ==
    /\ \A s \in Sessions : client[s] <= made
    /\ \A i \in DOMAIN pool : pool[i] <= made

\* Exactly the open sessions hold a client.
HolderIsOpen ==
    \A s \in Sessions : client[s] # NoClient <=> Open(s)

\* Handlers and timers belong to sessions that exist.
HandledSessionExists ==
    \A s \in Sessions : pending[s] # {} \/ s \in due => owner[s] \in Users

\* The inductive invariant. NoClientLost and OnlineHasOpenSession need
\* HolderIsOpen: a session that fails again has no client, so its second
\* fail() neither returns nor reports anything.
IInv ==
    /\ TypeOK
    /\ ClientsNumbered
    /\ ClientPlacedOnce
    /\ NoClientLost
    /\ HolderIsOpen
    /\ HandledSessionExists
    /\ RegisteredSessionIsOpen
    /\ OnlineHasOpenSession

-----------------------------------------------------------------------------

\* The pool a fresh StatusClientManager fills holds the clients 1..PoolSize.
LEMMA FreshPoolType ==
    /\ FreshPool \in Seq(Clients)
    /\ DOMAIN FreshPool = 1..PoolSize
    /\ \A i \in 1..PoolSize : FreshPool[i] = i
  BY PoolSizeAssumption DEF FreshPool, Clients

\* Taking the last client of the pool leaves the others where they were.
LEMMA PopType ==
    ASSUME NEW p \in Seq(Clients), p # << >>
    PROVE  /\ p[Len(p)] \in Clients
           /\ SubSeq(p, 1, Len(p) - 1) \in Seq(Clients)
           /\ DOMAIN p = 1..Len(p)
           /\ Len(p) \in Nat \ {0}
           /\ DOMAIN SubSeq(p, 1, Len(p) - 1) = 1..(Len(p) - 1)
           /\ \A i \in 1..(Len(p) - 1) : SubSeq(p, 1, Len(p) - 1)[i] = p[i]
  OBVIOUS

\* Returning a client adds it behind the others.
LEMMA PushType ==
    ASSUME NEW p \in Seq(Clients), NEW c \in Clients
    PROVE  /\ Append(p, c) \in Seq(Clients)
           /\ DOMAIN p = 1..Len(p)
           /\ Len(p) \in Nat
           /\ DOMAIN Append(p, c) = 1..(Len(p) + 1)
           /\ Append(p, c)[Len(p) + 1] = c
           /\ \A i \in 1..Len(p) : Append(p, c)[i] = p[i]
  OBVIOUS

-----------------------------------------------------------------------------
(* Type correctness *)

\* Reporting a status keeps the types.
LEMMA ReportType ==
    ASSUME TypeOK, NEW s \in Sessions, owner[s] \in Users,
           NEW status \in Statuses, UpdateUserStatus(s, status)
    PROVE  /\ presence' \in [Users -> Statuses]
           /\ late' \in SUBSET (Users \X Statuses)
           /\ stale' \in SUBSET Users
  BY DEF TypeOK, UpdateUserStatus, presenceVars, Statuses

\* Adding a connection keeps the types of the two maps.
LEMMA AddConnectionType ==
    ASSUME RegistryTypeOK, NEW u \in Users, NEW s \in Sessions, AddConnection(u, s)
    PROVE  RegistryTypeOK'
  BY DEF RegistryTypeOK, AddConnection, Put, SessionsOf

\* Maps without entries have their types.
LEMMA EmptyMapsType ==
    /\ RegistryInit => RegistryTypeOK
    /\ userSessions' = Nothing /\ sessionToUser' = Nothing => RegistryTypeOK'
  BY DEF RegistryInit, RegistryTypeOK, Nothing

\* Maps that stay the same keep their types.
LEMMA SameMapsType ==
    ASSUME RegistryTypeOK, UNCHANGED connectionVars
    PROVE  RegistryTypeOK'
  BY DEF RegistryTypeOK, connectionVars

\* Acquiring a client keeps the types.
LEMMA AcquireType ==
    ASSUME TypeOK, NEW s \in Sessions, AcquireClient(s)
    PROVE  /\ client' \in [Sessions -> Nat]
           /\ pool' \in Seq(Clients)
           /\ made' \in Nat
  <1>1. CASE pool # << >>
    BY <1>1, PopType DEF TypeOK, AcquireClient, Clients
  <1>2. CASE pool = << >>
    <2>1. pool' = pool /\ made' = made + 1 /\ client' = [client EXCEPT ![s] = made + 1]
      BY <1>2 DEF AcquireClient
    <2>. QED  BY <2>1 DEF TypeOK
  <1>. QED  BY <1>1, <1>2

\* Releasing a client keeps the types.
LEMMA ReleaseType ==
    ASSUME TypeOK, NEW s \in Sessions, ReleaseClient(s)
    PROVE  /\ client' \in [Sessions -> Nat]
           /\ pool' \in Seq(Clients)
           /\ made' \in Nat
  <1>1. CASE client[s] = NoClient
    BY <1>1 DEF TypeOK, ReleaseClient
  <1>2. CASE client[s] # NoClient
    <2>1. client[s] \in Clients
      BY <1>2 DEF TypeOK, Clients
    <2>. QED  BY <1>2, <2>1, PushType DEF TypeOK, ReleaseClient
  <1>. QED  BY <1>1, <1>2

-----------------------------------------------------------------------------
(* The initial states *)

\* The initial states satisfy the inductive invariant.
LEMMA InitIInv == Init => IInv
  <1>. SUFFICES ASSUME Init PROVE IInv
    OBVIOUS
  <1>. USE DEF Init
  <1>1. TypeOK
    BY FreshPoolType, PoolSizeAssumption, EmptyMapsType DEF TypeOK, DeadAge, Statuses
  <1>2. ClientsNumbered /\ ClientPlacedOnce /\ NoClientLost
    <2>1. ClientsNumbered
      BY FreshPoolType, PoolSizeAssumption DEF ClientsNumbered
    <2>2. ClientPlacedOnce
      BY FreshPoolType, PoolSizeAssumption DEF ClientPlacedOnce
    <2>3. NoClientLost
      BY FreshPoolType, PoolSizeAssumption DEF NoClientLost
    <2>. QED  BY <2>1, <2>2, <2>3
  <1>3. HolderIsOpen /\ HandledSessionExists
    BY DEF HolderIsOpen, HandledSessionExists, Open
  <1>4. RegisteredSessionIsOpen /\ OnlineHasOpenSession
    BY DEF RegisteredSessionIsOpen, OnlineHasOpenSession
  <1>. QED  BY <1>1, <1>2, <1>3, <1>4 DEF IInv

-----------------------------------------------------------------------------
(* Losing the memory of the process restores the pool and ends every session. *)

\* A stop or crash keeps the invariant: the pool is fresh, every session ended.
LEMMA LoseMemoryIInv ==
    ASSUME IInv, LoseMemory, mode' \in {"stopped", "down"}
    PROVE  IInv'
  <1>. USE DEF LoseMemory
  <1>1. TypeOK'
    BY FreshPoolType, PoolSizeAssumption, EmptyMapsType DEF IInv, TypeOK, DeadAge
  <1>2. ClientsNumbered' /\ ClientPlacedOnce' /\ NoClientLost'
    BY FreshPoolType, PoolSizeAssumption
       DEF ClientsNumbered, ClientPlacedOnce, NoClientLost
  <1>3. HolderIsOpen' /\ HandledSessionExists'
    BY DEF HolderIsOpen, HandledSessionExists, Open
  <1>4. RegisteredSessionIsOpen' /\ OnlineHasOpenSession'
    BY DEF RegisteredSessionIsOpen, OnlineHasOpenSession
  <1>. QED  BY <1>1, <1>2, <1>3, <1>4 DEF IInv

-----------------------------------------------------------------------------
(* Steps that leave clients, presence, registration and ends alone *)

\* A step that leaves clients, presence, registration and ends alone keeps it.
LEMMA QuietIInv ==
    ASSUME IInv, TypeOK', HandledSessionExists',
           UNCHANGED <<poolVars, presence, stale, owner, ended, wsSessions>>
    PROVE  IInv'
  BY DEF IInv, ClientsNumbered, ClientPlacedOnce, NoClientLost, HolderIsOpen, Open,
         RegisteredSessionIsOpen, OnlineHasOpenSession, poolVars

\* Queueing a message keeps the types.
LEMMA SendType ==
    ASSUME TypeOK, NEW s \in Sessions, SendMessage(s)
    PROVE  /\ queue' \in [Sessions -> Nat]
           /\ isWriting' \in [Sessions -> BOOLEAN]
           /\ blocked' \in Sessions \cup {NoSession}
           /\ mode' = mode
  BY DEF TypeOK, SendMessage

-----------------------------------------------------------------------------
(* Upgrade: the new session takes a client from the pool or a new one. *)

\* A new session, with a client of the pool or a new one, keeps the invariant.
LEMMA UpgradeIInv ==
    ASSUME IInv, NEW s \in Sessions, NEW u \in Users, Upgrade(s, u)
    PROVE  IInv'
  <1>. USE DEF IInv
  <1>1. TypeOK'
    <2>1. /\ client' \in [Sessions -> Nat]
          /\ pool' \in Seq(Clients)
          /\ made' \in Nat
      BY AcquireType DEF Upgrade
    <2>2. /\ mode' \in {"up", "stopping", "stopped", "down"}
          /\ blocked' \in Sessions \cup {NoSession}
          /\ queue' \in [Sessions -> Nat]
          /\ isWriting' \in [Sessions -> BOOLEAN]
          /\ presence' \in [Users -> Statuses]
          /\ late' \in SUBSET (Users \X Statuses)
          /\ stale' \in SUBSET Users
          /\ due' \in SUBSET Sessions
          /\ ended' \in SUBSET Sessions
      BY DEF TypeOK, Upgrade, gateVars, sendVars, presenceVars
    <2>3. /\ owner' \in [Sessions -> Users \cup {NoUser}]
          /\ age' \in [Sessions -> 0..DeadAge]
          /\ pending' \in [Sessions -> SUBSET Handlers]
      BY DEF TypeOK, Upgrade, Handlers, DeadAge
    <2>4. /\ wsSessions' \in [Users -> Sessions \cup {NoSession}]
          /\ RegistryTypeOK'
      BY AddConnectionType DEF TypeOK, Upgrade
    <2>. QED  BY <2>1, <2>2, <2>3, <2>4 DEF TypeOK
  <1>2. client[s] = NoClient
    BY DEF HolderIsOpen, Open, Upgrade
  <1>3. ClientsNumbered' /\ ClientPlacedOnce' /\ NoClientLost'
    <2>1. CASE pool # << >>
      <3>1. /\ client' = [client EXCEPT ![s] = pool[Len(pool)]]
            /\ pool' = SubSeq(pool, 1, Len(pool) - 1)
            /\ made' = made
        BY <2>1 DEF Upgrade, AcquireClient
      <3>2. /\ pool \in Seq(Clients)
            /\ DOMAIN pool = 1..Len(pool)
            /\ Len(pool) \in Nat \ {0}
            /\ DOMAIN pool' = 1..(Len(pool) - 1)
            /\ \A i \in DOMAIN pool' : pool'[i] = pool[i]
        BY <2>1, <3>1, PopType DEF TypeOK
      <3>3. ClientsNumbered'
        BY <3>1, <3>2 DEF ClientsNumbered, TypeOK
      <3>4. ClientPlacedOnce'
        <4>1. \A t \in Sessions : client[t] # pool[Len(pool)]
          BY <3>2 DEF ClientPlacedOnce
        <4>2. \A i \in DOMAIN pool' : pool'[i] # pool[Len(pool)]
          BY <3>2 DEF ClientPlacedOnce
        <4>3. \A i, j \in DOMAIN pool' : pool'[i] = pool'[j] => i = j
          BY <3>2 DEF ClientPlacedOnce
        <4>4. \A t, v \in Sessions : client'[t] # NoClient /\ client'[t] = client'[v] => t = v
          BY <4>1, <3>1 DEF ClientPlacedOnce, TypeOK
        <4>5. \A t \in Sessions, i \in DOMAIN pool' : client'[t] # pool'[i]
          BY <4>2, <3>1, <3>2 DEF ClientPlacedOnce, TypeOK
        <4>. QED  BY <4>3, <4>4, <4>5 DEF ClientPlacedOnce
      <3>5. NoClientLost'
        <4>. SUFFICES ASSUME NEW c \in 1..made
                      PROVE  \/ \E i \in DOMAIN pool' : pool'[i] = c
                             \/ \E t \in Sessions : client'[t] = c /\ Open(t)'
          BY <3>1 DEF NoClientLost
        <4>1. CASE \E i \in DOMAIN pool : pool[i] = c
          <5>1. PICK i \in DOMAIN pool : pool[i] = c
            BY <4>1
          <5>2. CASE i = Len(pool)
            BY <5>1, <5>2, <3>1, NoUserAssumption DEF TypeOK, Upgrade, Open
          <5>3. CASE i # Len(pool)
            BY <5>1, <5>3, <3>2
          <5>. QED  BY <5>2, <5>3
        <4>2. CASE \E t \in Sessions : client[t] = c /\ Open(t)
          BY <4>2, <1>2, <3>1 DEF TypeOK, Upgrade, Open
        <4>. QED  BY <4>1, <4>2 DEF NoClientLost
      <3>. QED  BY <3>3, <3>4, <3>5
    <2>2. CASE pool = << >>
      <3>1. /\ client' = [client EXCEPT ![s] = made + 1]
            /\ pool' = pool
            /\ made' = made + 1
        BY <2>2 DEF Upgrade, AcquireClient
      <3>2. ClientsNumbered'
        BY <3>1 DEF ClientsNumbered, TypeOK, Clients
      <3>3. ClientPlacedOnce'
        BY <1>2, <2>2, <3>1 DEF ClientPlacedOnce, ClientsNumbered, TypeOK
      <3>4. NoClientLost'
        <4>. SUFFICES ASSUME NEW c \in 1..(made + 1)
                      PROVE  \/ \E i \in DOMAIN pool' : pool'[i] = c
                             \/ \E t \in Sessions : client'[t] = c /\ Open(t)'
          BY <3>1 DEF NoClientLost
        <4>1. CASE c = made + 1
          BY <4>1, <3>1, NoUserAssumption DEF TypeOK, Upgrade, Open
        <4>2. CASE c # made + 1
          <5>1. c \in 1..made
            BY <4>2 DEF TypeOK
          <5>2. PICK t \in Sessions : client[t] = c /\ Open(t)
            BY <5>1, <2>2 DEF NoClientLost
          <5>3. t # s
            BY <5>1, <5>2, <1>2 DEF TypeOK
          <5>. QED  BY <5>2, <5>3, <3>1 DEF TypeOK, Upgrade, Open
        <4>. QED  BY <4>1, <4>2
      <3>. QED  BY <3>2, <3>3, <3>4
    <2>. QED  BY <2>1, <2>2
  <1>4. HolderIsOpen'
    <2>1. client'[s] # NoClient /\ \A t \in Sessions \ {s} : client'[t] = client[t]
      BY PopType DEF Upgrade, AcquireClient, TypeOK, Clients
    <2>. QED
      BY <2>1, NoUserAssumption DEF HolderIsOpen, Open, Upgrade, TypeOK
  <1>5. HandledSessionExists'
    BY DEF HandledSessionExists, Upgrade, TypeOK
  <1>6. RegisteredSessionIsOpen'
    BY NoUserAssumption DEF RegisteredSessionIsOpen, Open, Upgrade, TypeOK
  <1>7. OnlineHasOpenSession'
    BY NoUserAssumption DEF OnlineHasOpenSession, Open, Upgrade, TypeOK, presenceVars
  <1>. QED  BY <1>1, <1>3, <1>4, <1>5, <1>6, <1>7

-----------------------------------------------------------------------------
(* ReportOnline: only a session that has a client, hence is open, reports. *)

\* The ONLINE report keeps it: only an open session has a client to report by.
LEMMA ReportOnlineIInv ==
    ASSUME IInv, NEW s \in Sessions, ReportOnline(s)
    PROVE  IInv'
  <1>. USE DEF IInv
  <1>1. owner[s] \in Users
    BY DEF HandledSessionExists, ReportOnline
  <1>2. TypeOK'
    BY <1>1, ReportType, SameMapsType
       DEF TypeOK, Statuses, ReportOnline, gateVars, sendVars, poolVars, registryVars
  <1>3. ClientsNumbered' /\ ClientPlacedOnce' /\ NoClientLost' /\ HolderIsOpen'
    BY DEF ClientsNumbered, ClientPlacedOnce, NoClientLost, HolderIsOpen, Open,
           ReportOnline, poolVars
  <1>4. HandledSessionExists'
    BY DEF HandledSessionExists, ReportOnline, TypeOK
  <1>5. RegisteredSessionIsOpen'
    BY DEF RegisteredSessionIsOpen, Open, ReportOnline, registryVars
  <1>6. OnlineHasOpenSession'
    BY <1>1 DEF OnlineHasOpenSession, HolderIsOpen, Open, ReportOnline,
                UpdateUserStatus, presenceVars, TypeOK
  <1>. QED  BY <1>2, <1>3, <1>4, <1>5, <1>6

\* A report that is recorded late keeps it: a late ONLINE excuses its user.
LEMMA RecordLateIInv ==
    ASSUME IInv, NEW u \in Users, NEW status \in Statuses, RecordLate(u, status)
    PROVE  IInv'
  <1>. USE DEF IInv
  <1>1. TypeOK'
    BY SameMapsType DEF TypeOK, Statuses, RecordLate, gateVars, sessVars, sendVars, poolVars,
                        registryVars
  <1>2. ClientsNumbered' /\ ClientPlacedOnce' /\ NoClientLost' /\ HolderIsOpen'
    BY DEF ClientsNumbered, ClientPlacedOnce, NoClientLost, HolderIsOpen, Open,
           RecordLate, poolVars, sessVars
  <1>3. HandledSessionExists' /\ RegisteredSessionIsOpen'
    BY DEF HandledSessionExists, RegisteredSessionIsOpen, Open, RecordLate, sessVars,
           registryVars
  <1>4. OnlineHasOpenSession'
    BY DEF OnlineHasOpenSession, Open, RecordLate, sessVars, TypeOK, Statuses
  <1>. QED  BY <1>1, <1>2, <1>3, <1>4

-----------------------------------------------------------------------------
(* fail(): the first one returns the client and reports; a later one finds *)
(* no client.                                                              *)

\* fail() keeps the invariant, also when it runs again for one session.
LEMMA FailIInv ==
    ASSUME IInv, NEW s \in Sessions, owner[s] \in Users,
           NEW h \in Handlers, Fail(s, h), due' \in SUBSET due
    PROVE  IInv'
  <1>. USE DEF IInv
  <1>1. TypeOK'
    BY ReportType, ReleaseType, SameMapsType
       DEF TypeOK, Statuses, Fail, ReportOffline, RemoveSession, gateVars, sendVars
  <1>2. ClientsNumbered' /\ ClientPlacedOnce' /\ NoClientLost'
    <2>1. CASE client[s] = NoClient
      <3>1. pool' = pool /\ client' = client /\ made' = made
        BY <2>1 DEF Fail, ReleaseClient, TypeOK
      <3>2. s \in ended
        BY <2>1, NoUserAssumption DEF HolderIsOpen, Open
      <3>3. ClientsNumbered' /\ ClientPlacedOnce'
        BY <3>1 DEF ClientsNumbered, ClientPlacedOnce
      <3>4. {t \in Sessions : Open(t)}' = {t \in Sessions : Open(t)}
        BY <3>2 DEF Open, Fail
      <3>. QED
        BY <3>1, <3>3, <3>4 DEF NoClientLost
    <2>2. CASE client[s] # NoClient
      <3>1. /\ pool' = Append(pool, client[s])
            /\ client' = [client EXCEPT ![s] = NoClient]
            /\ made' = made
        BY <2>2 DEF Fail, ReleaseClient
      <3>2. client[s] \in Clients
        BY <2>2 DEF TypeOK, Clients
      <3>3. /\ DOMAIN pool = 1..Len(pool)
            /\ Len(pool) \in Nat
            /\ DOMAIN pool' = 1..(Len(pool) + 1)
            /\ pool'[Len(pool) + 1] = client[s]
            /\ \A i \in 1..Len(pool) : pool'[i] = pool[i]
        BY <3>1, <3>2, PushType DEF TypeOK
      <3>4. ClientsNumbered'
        BY <3>1, <3>3 DEF ClientsNumbered, TypeOK
      <3>5. ClientPlacedOnce'
        BY <2>2, <3>1, <3>2, <3>3 DEF ClientPlacedOnce, TypeOK, Clients
      <3>6. NoClientLost'
        <4>. SUFFICES ASSUME NEW c \in 1..made
                      PROVE  \/ \E i \in DOMAIN pool' : pool'[i] = c
                             \/ \E t \in Sessions : client'[t] = c /\ Open(t)'
          BY <3>1 DEF NoClientLost
        <4>1. CASE \E i \in DOMAIN pool : pool[i] = c
          BY <4>1, <3>3
        <4>2. CASE \E t \in Sessions : client[t] = c /\ Open(t)
          <5>1. PICK t \in Sessions : client[t] = c /\ Open(t)
            BY <4>2
          <5>2. CASE t = s
            BY <5>1, <5>2, <3>3
          <5>3. CASE t # s
            BY <5>1, <5>3, <3>1 DEF TypeOK, Fail, Open
          <5>. QED  BY <5>2, <5>3
        <4>. QED  BY <4>1, <4>2 DEF NoClientLost
      <3>. QED  BY <3>4, <3>5, <3>6
    <2>. QED  BY <2>1, <2>2
  <1>3. HolderIsOpen'
    BY DEF HolderIsOpen, Open, Fail, ReleaseClient, TypeOK
  <1>4. HandledSessionExists'
    BY DEF HandledSessionExists, Fail, TypeOK
  <1>5. RegisteredSessionIsOpen'
    BY NoSessionAssumption DEF RegisteredSessionIsOpen, Open, Fail, RemoveSession, TypeOK
  <1>6. OnlineHasOpenSession'
    <2>. SUFFICES ASSUME NEW u \in Users, presence'[u] = "ONLINE", u \notin stale'
                  PROVE  \E t \in Sessions : owner'[t] = u /\ Open(t)'
      BY DEF OnlineHasOpenSession
    <2>1. owner' = owner /\ ended' = ended \cup {s}
      BY DEF Fail
    <2>2. CASE client[s] = NoClient
      <3>1. presence' = presence /\ stale' = stale
        BY <2>2 DEF Fail, ReportOffline, UpdateUserStatus, presenceVars
      <3>2. s \in ended
        BY <2>2, NoUserAssumption DEF HolderIsOpen, Open
      <3>. QED  BY <2>1, <3>1, <3>2 DEF OnlineHasOpenSession, Open
    <2>3. CASE client[s] # NoClient
      <3>1. u # owner[s] /\ presence[u] = "ONLINE" /\ u \notin stale
        BY <2>3 DEF Fail, ReportOffline, UpdateUserStatus, TypeOK
      <3>. QED  BY <2>1, <3>1 DEF OnlineHasOpenSession, Open
    <2>. QED  BY <2>2, <2>3
  <1>. QED  BY <1>1, <1>2, <1>3, <1>4, <1>5, <1>6

-----------------------------------------------------------------------------
(* Every step of the Gate *)

\* Every handler of a session keeps the invariant.
LEMMA HandlerIInv ==
    ASSUME IInv, NEW s \in Sessions, Handler(s)
    PROVE  IInv'
  <1>. USE DEF IInv
  <1>1. ASSUME NEW status \in Statuses, ReportHangs(s, status) PROVE IInv'
    <2>1. owner[s] \in Users
      BY <1>1 DEF ReportHangs, Reporting, ReadCompletes, TimerExpires, HandledSessionExists
    <2>2. late' \in SUBSET (Users \X Statuses)
      BY <1>1, <2>1 DEF ReportHangs, TypeOK
    <2>3. TypeOK'
      BY <1>1, <2>2, SameMapsType DEF ReportHangs, TypeOK, sessVars, sendVars, poolVars,
                                      registryVars
    <2>4. HandledSessionExists'
      BY <1>1 DEF ReportHangs, HandledSessionExists, sessVars
    <2>. QED
      BY <1>1, <2>3, <2>4, QuietIInv DEF ReportHangs, sessVars, registryVars
  <1>2. CASE Accept(s)
    <2>1. TypeOK'
      BY <1>2, SameMapsType DEF Accept, TypeOK, Handlers, gateVars, sendVars, poolVars, presenceVars,
                  registryVars
    <2>2. HandledSessionExists'
      BY <1>2 DEF Accept, HandledSessionExists, TypeOK
    <2>. QED
      BY <1>2, <2>1, <2>2, QuietIInv DEF Accept, registryVars, presenceVars
  <1>3. CASE AcceptBuffered(s)
    <2>1. \E receiver \in Sessions : SendMessage(receiver)
      BY <1>3 DEF AcceptBuffered, TypeOK
    <2>3. TypeOK'
      BY <1>3, <2>1, SendType, SameMapsType DEF AcceptBuffered, TypeOK, Handlers, poolVars, presenceVars,
                            registryVars
    <2>2. HandledSessionExists'
      BY <1>3 DEF AcceptBuffered, HandledSessionExists, TypeOK
    <2>. QED
      BY <1>3, <2>3, <2>2, QuietIInv DEF AcceptBuffered, registryVars, presenceVars
  <1>4. CASE AcceptError(s)
    <2>1. owner[s] \in Users
      BY <1>4 DEF AcceptError, HandledSessionExists
    <2>. QED
      BY <1>4, <2>1, FailIInv DEF AcceptError, Handlers, TypeOK
  <1>5. CASE ReportOnline(s)
    BY <1>5, ReportOnlineIInv
  <1>6. CASE ReadError(s)
    <2>1. owner[s] \in Users
      BY <1>6 DEF ReadError, ReadCompletes, HandledSessionExists
    <2>. QED
      BY <1>6, <2>1, FailIInv DEF ReadError, Handlers, TypeOK
  <1>7. CASE ReadSilent(s)
    <2>1. TypeOK'
      BY <1>7, SameMapsType DEF ReadSilent, TypeOK, DeadAge, gateVars, sendVars, poolVars, presenceVars,
                  registryVars
    <2>2. HandledSessionExists'
      BY <1>7 DEF ReadSilent, HandledSessionExists
    <2>. QED
      BY <1>7, <2>1, <2>2, QuietIInv DEF ReadSilent, registryVars, presenceVars
  <1>8. ASSUME NEW r \in Sessions, ReadAndSend(s, r) PROVE IInv'
    <2>1. TypeOK'
      <3>1. /\ pending' \in [Sessions -> SUBSET Handlers]
            /\ age' \in [Sessions -> 0..DeadAge]
        BY <1>8 DEF ReadAndSend, TypeOK, DeadAge
      <3>2. /\ queue' \in [Sessions -> Nat]
            /\ isWriting' \in [Sessions -> BOOLEAN]
            /\ blocked' \in Sessions \cup {NoSession}
            /\ mode' = mode
        BY <1>8, SendType DEF ReadAndSend
      <3>. QED
        BY <1>8, <3>1, <3>2, SameMapsType
        DEF ReadAndSend, TypeOK, poolVars, presenceVars, registryVars
    <2>2. HandledSessionExists'
      BY <1>8 DEF ReadAndSend, HandledSessionExists, TypeOK
    <2>. QED
      BY <1>8, <2>1, <2>2, QuietIInv DEF ReadAndSend, registryVars, presenceVars
  <1>9. CASE ReadReply(s)
    BY <1>9, <1>8 DEF ReadReply
  <1>10. ASSUME NEW u \in Users, ReadForward(s, u) PROVE IInv'
    BY <1>10, <1>8 DEF ReadForward, TypeOK
  <1>11. CASE HeartbeatTimeout(s)
    <2>1. owner[s] \in Users
      BY <1>11 DEF HeartbeatTimeout, TimerExpires, HandledSessionExists
    <2>. QED
      BY <1>11, <2>1, FailIInv DEF HeartbeatTimeout, Handlers, TypeOK
  <1>12. CASE HeartbeatSend(s)
    <2>1. TypeOK'
      BY <1>12, SendType, SameMapsType DEF HeartbeatSend, TypeOK, poolVars, presenceVars, registryVars
    <2>2. HandledSessionExists'
      BY <1>12 DEF HeartbeatSend, HandledSessionExists, TypeOK
    <2>. QED
      BY <1>12, <2>1, <2>2, QuietIInv DEF HeartbeatSend, registryVars, presenceVars
  <1>. QED
    BY <1>1, <1>2, <1>3, <1>4, <1>5, <1>6, <1>7, <1>9, <1>10, <1>11, <1>12 DEF Handler

\* Every step of the Gate keeps the invariant.
LEMMA NextIInv == IInv /\ [Next]_vars => IInv'
  <1>. SUFFICES ASSUME IInv, [Next]_vars PROVE IInv'
    OBVIOUS
  <1>. USE DEF IInv
  <1>1. ASSUME NEW s \in Sessions, Handler(s) PROVE IInv'
    BY <1>1, HandlerIInv
  <1>7. ASSUME NEW s \in Sessions, NEW u \in Users, Upgrade(s, u) PROVE IInv'
    BY <1>7, UpgradeIInv
  <1>8. ASSUME NEW u \in Users, NEW status \in Statuses, RecordLate(u, status) PROVE IInv'
    BY <1>8, RecordLateIInv
  <1>2. CASE Tick
    <2>1. age' \in [Sessions -> 0..DeadAge]
      BY <1>2 DEF Tick, TypeOK, DeadAge
    <2>2. TypeOK'
      BY <1>2, <2>1, SameMapsType DEF Tick, TypeOK, gateVars, sendVars, poolVars, presenceVars, registryVars
    <2>3. HandledSessionExists'
      BY <1>2 DEF Tick, HandledSessionExists
    <2>. QED
      BY <1>2, <2>2, <2>3, QuietIInv DEF Tick, registryVars, presenceVars
  <1>3. CASE Stop
    BY <1>3, LoseMemoryIInv DEF Stop
  <1>4. CASE Crash
    BY <1>4, LoseMemoryIInv DEF Crash
  <1>9. CASE StopStuck
    <2>1. TypeOK'
      BY <1>9, SameMapsType
         DEF StopStuck, TypeOK, sessVars, sendVars, poolVars, presenceVars
    <2>2. /\ HandledSessionExists'
          /\ RegisteredSessionIsOpen'
          /\ ClientsNumbered' /\ ClientPlacedOnce' /\ NoClientLost' /\ HolderIsOpen'
          /\ OnlineHasOpenSession'
      BY <1>9 DEF StopStuck, HandledSessionExists, RegisteredSessionIsOpen, ClientsNumbered,
                  ClientPlacedOnce, NoClientLost, HolderIsOpen, OnlineHasOpenSession, Open,
                  sessVars, poolVars, presenceVars
    <2>. QED  BY <2>1, <2>2
  <1>5. CASE Start
    <2>1. TypeOK'
      BY <1>5, SameMapsType DEF Start, TypeOK, sessVars, sendVars, poolVars, presenceVars, registryVars
    <2>2. HandledSessionExists'
      BY <1>5 DEF Start, HandledSessionExists, sessVars
    <2>. QED
      BY <1>5, <2>1, <2>2, QuietIInv DEF Start, sessVars, registryVars, presenceVars
  <1>6. CASE UNCHANGED vars
    <2>. USE <1>6 DEF vars, gateVars, sessVars, sendVars, poolVars, presenceVars, registryVars
    <2>1. TypeOK'
      BY SameMapsType DEF TypeOK, IInv
    <2>2. HandledSessionExists'
      BY DEF HandledSessionExists
    <2>. QED
      BY <2>1, <2>2, QuietIInv
  <1>. QED
    BY <1>1, <1>2, <1>3, <1>4, <1>5, <1>6, <1>7, <1>8, <1>9 DEF Next

-----------------------------------------------------------------------------
(* The theorems *)

\* Every variable of the Gate keeps its type.
THEOREM TypeCorrect == Spec => []TypeOK
  <1>1. IInv => TypeOK
    BY DEF IInv
  <1>. QED  BY <1>1, InitIInv, NextIInv, PTL DEF Spec

\* A StatusClient is never in two places at once, however often fail() runs.
THEOREM ClientsExclusive == Spec => []ClientPlacedOnce
  <1>1. IInv => ClientPlacedOnce
    BY DEF IInv
  <1>. QED  BY <1>1, InitIInv, NextIInv, PTL DEF Spec

\* Every StatusClient made is pooled or held by an open session.
THEOREM ClientsConserved == Spec => []NoClientLost
  <1>1. IInv => NoClientLost
    BY DEF IInv
  <1>. QED  BY <1>1, InitIInv, NextIInv, PTL DEF Spec

\* A message is only ever forwarded to a session that has not ended.
THEOREM ForwardsToOpenSession == Spec => []RegisteredSessionIsOpen
  <1>1. IInv => RegisteredSessionIsOpen
    BY DEF IInv
  <1>. QED  BY <1>1, InitIInv, NextIInv, PTL DEF Spec

\* A user stays recorded as ONLINE without an open session only when a report
\* was lost.
THEOREM OnlineIsTrueOrLost == Spec => []OnlineHasOpenSession
  <1>1. IInv => OnlineHasOpenSession
    BY DEF IInv
  <1>. QED  BY <1>1, InitIInv, NextIInv, PTL DEF Spec

-----------------------------------------------------------------------------
(* The pool of StatusClients implements ResourcePool. *)

\* An abstract step is one of the pool.
PoolStep == Pool!Next \/ UNCHANGED (Pool!vars)

\* A step that leaves pool and clients alone is no step of the pool.
LEMMA QuietPool ==
    ASSUME UNCHANGED <<client, pool>>
    PROVE  PoolStep
  BY DEF PoolStep, Pool!vars

\* A new session takes a pooled client or a new one.
LEMMA UpgradePool ==
    ASSUME IInv, NEW s \in Sessions, NEW u \in Users, Upgrade(s, u)
    PROVE  PoolStep
  <1>1. /\ AcquireClient(s)
        /\ client[s] = NoClient
        /\ client \in [Sessions -> Nat]
        /\ pool \in Seq(Clients)
        /\ made \in Nat
        /\ ClientPlacedOnce
        /\ ClientsNumbered
    BY DEF Upgrade, IInv, HolderIsOpen, Open, TypeOK
  <1>2. PICK c \in Clients :
          /\ client' = [client EXCEPT ![s] = c]
          /\ \A t \in Sessions : client[t] # c
          /\ {pool'[i] : i \in DOMAIN pool'} \subseteq {pool[i] : i \in DOMAIN pool} \ {c}
    <2>1. CASE pool # << >>
      <3>1. /\ client' = [client EXCEPT ![s] = pool[Len(pool)]]
            /\ pool' = SubSeq(pool, 1, Len(pool) - 1)
        BY <1>1, <2>1 DEF AcquireClient
      <3>2. /\ pool[Len(pool)] \in Clients
            /\ DOMAIN pool = 1..Len(pool)
            /\ Len(pool) \in Nat \ {0}
            /\ DOMAIN pool' = 1..(Len(pool) - 1)
            /\ \A i \in DOMAIN pool' : pool'[i] = pool[i]
        BY <1>1, <2>1, <3>1, PopType
      <3>3. \A i \in DOMAIN pool' : i \in DOMAIN pool /\ pool[i] # pool[Len(pool)]
        BY <1>1, <3>2 DEF ClientPlacedOnce
      <3>4. \A t \in Sessions : client[t] # pool[Len(pool)]
        BY <1>1, <3>2 DEF ClientPlacedOnce
      <3>5. {pool'[i] : i \in DOMAIN pool'}
              \subseteq {pool[i] : i \in DOMAIN pool} \ {pool[Len(pool)]}
        BY <3>2, <3>3
      <3>. QED  BY <3>1, <3>2, <3>4, <3>5, Zenon
    <2>2. CASE pool = << >>
      <3>1. client' = [client EXCEPT ![s] = made + 1] /\ pool' = pool
        BY <1>1, <2>2 DEF AcquireClient
      <3>2. made + 1 \in Clients /\ \A t \in Sessions : client[t] # made + 1
        BY <1>1 DEF ClientsNumbered, Clients
      <3>3. {pool'[i] : i \in DOMAIN pool'} = {}
        BY <2>2, <3>1
      <3>. QED  BY <3>1, <3>2, <3>3
    <2>. QED  BY <2>1, <2>2
  <1>3. client'[s] = c
    BY <1>1, <1>2
  <1>4. c \notin Pool!InUse
    BY <1>2 DEF Pool!InUse
  <1>5. Pool!Take(s)
    BY <1>1, <1>2, <1>3, <1>4 DEF Pool!Take
  <1>. QED  BY <1>5 DEF PoolStep, Pool!Next

\* The first fail() of a session gives its client back, a later one does
\* nothing to the pool.
LEMMA FailPool ==
    ASSUME IInv, NEW s \in Sessions, NEW h, Fail(s, h)
    PROVE  PoolStep
  <1>1. /\ ReleaseClient(s)
        /\ client \in [Sessions -> Nat]
        /\ pool \in Seq(Clients)
    BY DEF Fail, IInv, TypeOK
  <1>2. CASE client[s] = NoClient
    <2>1. client' = client /\ pool' = pool
      BY <1>1, <1>2 DEF ReleaseClient
    <2>. QED  BY <2>1, QuietPool
  <1>3. CASE client[s] # NoClient
    <2>1. /\ client' = [client EXCEPT ![s] = NoClient]
          /\ pool' = Append(pool, client[s])
          /\ client[s] \in Clients
      BY <1>1, <1>3 DEF ReleaseClient, Clients
    <2>2. /\ DOMAIN pool = 1..Len(pool)
          /\ Len(pool) \in Nat
          /\ DOMAIN pool' = 1..(Len(pool) + 1)
          /\ pool'[Len(pool) + 1] = client[s]
          /\ \A i \in 1..Len(pool) : pool'[i] = pool[i]
      BY <1>1, <2>1, PushType
    <2>3. {pool'[i] : i \in DOMAIN pool'} = {pool[i] : i \in DOMAIN pool} \cup {client[s]}
      BY <2>2
    <2>4. Pool!Give(s)
      BY <1>3, <2>1, <2>3 DEF Pool!Give
    <2>. QED  BY <2>4 DEF PoolStep, Pool!Next
  <1>. QED  BY <1>2, <1>3

\* A restart refills the pool, and no session has a client.
LEMMA LoseMemoryPool ==
    ASSUME LoseMemory
    PROVE  PoolStep
  <1>1. {pool'[i] : i \in DOMAIN pool'} \subseteq Clients
    BY FreshPoolType, PoolSizeAssumption DEF LoseMemory, Clients
  <1>2. Pool!Restart
    BY <1>1 DEF LoseMemory, Pool!Restart
  <1>. QED  BY <1>2 DEF PoolStep, Pool!Next

\* Every handler of a session is a step of the pool or a stutter.
LEMMA HandlerPool ==
    ASSUME IInv, NEW s \in Sessions, Handler(s)
    PROVE  PoolStep
  <1>1. CASE AcceptError(s) \/ ReadError(s) \/ HeartbeatTimeout(s)
    BY <1>1, FailPool DEF AcceptError, ReadError, HeartbeatTimeout
  <1>2. CASE Accept(s) \/ AcceptBuffered(s) \/ ReportOnline(s)
    BY <1>2, QuietPool DEF Accept, AcceptBuffered, ReportOnline, poolVars
  <1>3. CASE ReadSilent(s) \/ ReadReply(s) \/ \E u \in Users : ReadForward(s, u)
    BY <1>3, QuietPool DEF ReadSilent, ReadReply, ReadForward, ReadAndSend, poolVars
  <1>4. CASE HeartbeatSend(s) \/ \E status \in Statuses : ReportHangs(s, status)
    BY <1>4, QuietPool DEF HeartbeatSend, ReportHangs, poolVars
  <1>. QED  BY <1>1, <1>2, <1>3, <1>4 DEF Handler

\* Every step of the Gate is a step of the pool or a stutter.
LEMMA NextPool ==
    ASSUME IInv, [Next]_vars
    PROVE  PoolStep
  <1>1. CASE \E s \in Sessions : Handler(s)
    BY <1>1, HandlerPool
  <1>2. CASE \E s \in Sessions, u \in Users : Upgrade(s, u)
    BY <1>2, UpgradePool
  <1>3. CASE Stop \/ Crash
    BY <1>3, LoseMemoryPool DEF Stop, Crash
  <1>4. CASE \/ \E u \in Users, status \in Statuses : RecordLate(u, status)
             \/ Tick \/ StopStuck \/ Start \/ UNCHANGED vars
    BY <1>4, QuietPool DEF RecordLate, Tick, StopStuck, Start, vars, poolVars
  <1>. QED  BY <1>1, <1>2, <1>3, <1>4 DEF Next

\* The pool starts with the clients that initialize makes.
LEMMA InitPool == Init => Pool!Init
  BY FreshPoolType, PoolSizeAssumption DEF Init, Pool!Init, Clients

\* The Gate implements a pool of resources: whatever way sessions end, and
\* however often, a StatusClient is with one session or free, and only a
\* session that has it gives it back.
THEOREM PoolIsKept == Spec => ImplementsPool
  <1>1. IInv /\ [Next]_vars => [Pool!Next]_(Pool!vars)
    BY NextPool DEF PoolStep
  <1>. QED  BY <1>1, InitPool, InitIInv, NextIInv, PTL DEF Spec, ImplementsPool, Pool!Spec

-----------------------------------------------------------------------------
(* The two maps of ConnectionManager *)

\* Only sessions that have a user are in the table.
CountedHasUser == \A s \in DOMAIN sessionToUser : owner[s] # NoUser

\* An upgrade adds a session that was in neither map.
LEMMA UpgradeMaps ==
    ASSUME TypeOK, CountedHasUser, MapsAgree,
           NEW s \in Sessions, NEW u \in Users, Upgrade(s, u)
    PROVE  CountedHasUser' /\ MapsAgree'
  <1>1. /\ s \notin DOMAIN sessionToUser
        /\ owner' = [owner EXCEPT ![s] = u]
        /\ AddConnection(u, s)
        /\ RegistryTypeOK
        /\ owner \in [Sessions -> Users \cup {NoUser}]
    BY DEF Upgrade, CountedHasUser, TypeOK
  <1>2. /\ DOMAIN userSessions' = DOMAIN userSessions \cup {u}
        /\ userSessions'[u] = SessionsOf(u) \cup {s}
        /\ \A v \in DOMAIN userSessions : v # u => userSessions'[v] = userSessions[v]
        /\ DOMAIN sessionToUser' = DOMAIN sessionToUser \cup {s}
        /\ sessionToUser'[s] = u
        /\ \A t \in DOMAIN sessionToUser : t # s => sessionToUser'[t] = sessionToUser[t]
    BY <1>1 DEF AddConnection, Put
  <1>3. CountedHasUser'
    BY <1>1, <1>2, NoUserAssumption DEF CountedHasUser, RegistryTypeOK
  <1>4. SessionsOf(u)' = SessionsOf(u) \cup {s}
        /\ \A v \in Users : v # u => SessionsOf(v)' = SessionsOf(v)
    BY <1>2 DEF SessionsOf
  <1>5. \A v \in Users, t \in Sessions :
          t \in SessionsOf(v)' <=> t \in DOMAIN sessionToUser' /\ sessionToUser'[t] = v
    BY <1>1, <1>2, <1>4 DEF MapsAgree
  <1>6. \A v \in OnlineUsers' : userSessions'[v] # {}
    BY <1>2 DEF MapsAgree, OnlineUsers
  <1>. QED  BY <1>3, <1>5, <1>6 DEF MapsAgree

\* Every step of the Gate keeps the two maps in agreement.
LEMMA NextMaps ==
    ASSUME TypeOK, CountedHasUser, MapsAgree, [Next]_vars
    PROVE  CountedHasUser' /\ MapsAgree'
  <1>1. ASSUME UNCHANGED <<owner, connectionVars>>
        PROVE  CountedHasUser' /\ MapsAgree'
    BY <1>1 DEF CountedHasUser, MapsAgree, SessionsOf, OnlineUsers, connectionVars
  <1>2. CASE \E s \in Sessions, u \in Users : Upgrade(s, u)
    BY <1>2, UpgradeMaps
  <1>3. CASE Stop \/ Crash
    BY <1>3 DEF Stop, Crash, LoseMemory, Nothing, CountedHasUser, MapsAgree,
                SessionsOf, OnlineUsers
  <1>4. ASSUME NEW s \in Sessions, Handler(s)
        PROVE  UNCHANGED <<owner, connectionVars>>
    <2>1. CASE AcceptError(s) \/ ReadError(s) \/ HeartbeatTimeout(s)
      BY <2>1 DEF AcceptError, ReadError, HeartbeatTimeout, Fail
    <2>2. CASE Accept(s) \/ AcceptBuffered(s) \/ ReportOnline(s)
      BY <2>2 DEF Accept, AcceptBuffered, ReportOnline, registryVars
    <2>3. CASE ReadSilent(s) \/ ReadReply(s) \/ \E u \in Users : ReadForward(s, u)
      BY <2>3 DEF ReadSilent, ReadReply, ReadForward, ReadAndSend, registryVars
    <2>4. CASE HeartbeatSend(s) \/ \E status \in Statuses : ReportHangs(s, status)
      BY <2>4 DEF HeartbeatSend, ReportHangs, registryVars, sessVars
    <2>. QED  BY <1>4, <2>1, <2>2, <2>3, <2>4 DEF Handler
  <1>5. CASE \/ \E u \in Users, status \in Statuses : RecordLate(u, status)
             \/ Tick \/ StopStuck \/ Start \/ UNCHANGED vars
    BY <1>1, <1>5 DEF RecordLate, Tick, StopStuck, Start, vars, sessVars, registryVars
  <1>. QED  BY <1>1, <1>2, <1>3, <1>4, <1>5 DEF Next

\* The two maps of ConnectionManager are each other's inverse, and no user is
\* counted without a session, for any users and sessions.
THEOREM MapsStayInverse == Spec => []MapsAgree
  <1>1. Init => CountedHasUser /\ MapsAgree
    BY DEF Init, RegistryInit, Nothing, CountedHasUser, MapsAgree, SessionsOf, OnlineUsers
  <1>2. TypeOK /\ (CountedHasUser /\ MapsAgree) /\ [Next]_vars
          => (CountedHasUser /\ MapsAgree)'
    BY NextMaps
  <1>. QED  BY <1>1, <1>2, TypeCorrect, PTL DEF Spec

-----------------------------------------------------------------------------
(* Who finds a session, and what the table behind /health lists *)

\* Only an upgrade, fail(), a signal and the end of the process touch the
\* sessions, the registry and the table, and only a signal that meets the stuck
\* io thread leads to mode "stopping".
LEMMA StepKinds ==
    ASSUME [Next]_vars
    PROVE  \/ \E s \in Sessions, u \in Users : Upgrade(s, u)
           \/ \E s \in Sessions, h \in Handlers : Fail(s, h)
           \/ LoseMemory
           \/ StopStuck
           \/ /\ UNCHANGED <<owner, ended, wsSessions, connectionVars>>
              /\ mode = "stopping" => mode' = "stopping"
  <1>1. ASSUME NEW s \in Sessions, Handler(s)
        PROVE  \/ \E h \in Handlers : Fail(s, h)
               \/ UNCHANGED <<mode, owner, ended, wsSessions, connectionVars>>
    <2>1. CASE AcceptError(s) \/ ReadError(s) \/ HeartbeatTimeout(s)
      BY <2>1 DEF AcceptError, ReadError, HeartbeatTimeout, Handlers
    <2>2. CASE Accept(s) \/ AcceptBuffered(s) \/ ReportOnline(s)
      BY <2>2 DEF Accept, AcceptBuffered, ReportOnline, SendMessage, registryVars, gateVars
    <2>3. CASE ReadSilent(s) \/ ReadReply(s) \/ \E u \in Users : ReadForward(s, u)
      BY <2>3 DEF ReadSilent, ReadReply, ReadForward, ReadAndSend, SendMessage, registryVars,
                  gateVars
    <2>4. CASE HeartbeatSend(s) \/ \E status \in Statuses : ReportHangs(s, status)
      BY <2>4 DEF HeartbeatSend, ReportHangs, SendMessage, registryVars, sessVars
    <2>. QED  BY <1>1, <2>1, <2>2, <2>3, <2>4 DEF Handler
  <1>2. CASE \/ \E u \in Users, status \in Statuses : RecordLate(u, status)
             \/ Tick \/ Start \/ UNCHANGED vars
    BY <1>2 DEF RecordLate, Tick, Start, vars, gateVars, sessVars, registryVars
  <1>. QED  BY <1>1, <1>2 DEF Next, Stop, Crash

\* fail() hides the other sessions of its user, and is the ended session that
\* excuses it; nothing else takes a session out of the registry.
LEMMA NextFound ==
    ASSUME TypeOK, OpenSessionIsFound, [Next]_vars
    PROVE  OpenSessionIsFound'
  <1>1. ASSUME NEW s \in Sessions, NEW u \in Users, Upgrade(s, u)
        PROVE  OpenSessionIsFound'
    <2>1. /\ owner' = [owner EXCEPT ![s] = u]
          /\ wsSessions' = [wsSessions EXCEPT ![u] = s]
          /\ ended' = ended
          /\ s # NoSession
          /\ s \notin ended
      BY <1>1, NoSessionAssumption DEF Upgrade
    <2>. SUFFICES ASSUME NEW t \in Sessions, Open(t)'
                  PROVE  \/ wsSessions'[owner'[t]] # NoSession
                         \/ \E e \in ended' : owner'[e] = owner'[t]
      BY DEF OpenSessionIsFound
    <2>4. mode # "stopping"
      BY <1>1 DEF Upgrade, Serving
    <2>2. CASE owner'[t] = u
      BY <2>1, <2>2 DEF TypeOK
    <2>3. CASE owner'[t] # u
      <3>1. t # s /\ owner'[t] = owner[t] /\ Open(t)
        BY <2>1, <2>3 DEF Open, TypeOK
      <3>2. CASE wsSessions[owner[t]] # NoSession
        BY <2>1, <2>3, <3>1, <3>2 DEF TypeOK, Open
      <3>3. CASE \E e \in ended : owner[e] = owner[t]
        BY <2>1, <3>1, <3>3 DEF TypeOK
      <3>. QED  BY <2>4, <3>1, <3>2, <3>3 DEF OpenSessionIsFound
    <2>. QED  BY <2>2, <2>3
  <1>2. ASSUME NEW s \in Sessions, NEW h, Fail(s, h)
        PROVE  OpenSessionIsFound'
    <2>1. /\ owner' = owner
          /\ wsSessions' = [wsSessions EXCEPT ![owner[s]] = NoSession]
          /\ ended' = ended \cup {s}
          /\ mode' = mode
      BY <1>2 DEF Fail, RemoveSession, gateVars
    <2>. QED  BY <2>1 DEF OpenSessionIsFound, Open, TypeOK
  <1>3. CASE LoseMemory
    BY <1>3 DEF LoseMemory, OpenSessionIsFound, Open
  <1>4. CASE /\ UNCHANGED <<owner, ended, wsSessions, connectionVars>>
             /\ mode = "stopping" => mode' = "stopping"
    BY <1>4 DEF OpenSessionIsFound, Open
  <1>5. CASE StopStuck
    BY <1>5 DEF StopStuck, OpenSessionIsFound
  <1>. QED  BY <1>1, <1>2, <1>3, <1>4, <1>5, StepKinds

\* A new session is listed under its user; the others stay where they are.
LEMMA UpgradeListed ==
    ASSUME TypeOK, OpenSessionsAreListed,
           NEW s \in Sessions, NEW u \in Users, Upgrade(s, u)
    PROVE  OpenSessionsAreListed'
  <1>1. /\ owner[s] = NoUser
        /\ owner' = [owner EXCEPT ![s] = u]
        /\ ended' = ended
        /\ AddConnection(u, s)
    BY DEF Upgrade
  <1>2. \A v \in Users : s \notin SessionsOf(v)
    BY <1>1, NoUserAssumption DEF OpenSessionsAreListed
  <1>3. /\ SessionsOf(u)' = SessionsOf(u) \cup {s}
        /\ \A v \in Users : v # u => SessionsOf(v)' = SessionsOf(v)
    BY <1>1 DEF AddConnection, Put, SessionsOf
  <1>4. \A v \in Users : SessionsOf(v) \subseteq Sessions
    BY DEF SessionsOf, TypeOK, RegistryTypeOK
  <1>5. ASSUME NEW t \in Sessions, Open(t)' PROVE t \in SessionsOf(owner[t])'
    <2>1. CASE t = s
      BY <1>1, <1>3, <2>1 DEF TypeOK
    <2>2. CASE t # s
      <3>1. owner'[t] = owner[t] /\ Open(t) /\ owner[t] \in Users
        BY <1>1, <1>5, <2>2 DEF Open, TypeOK
      <3>2. t \in SessionsOf(owner[t])
        BY <3>1 DEF OpenSessionsAreListed
      <3>3. \A v \in Users : SessionsOf(v) \subseteq SessionsOf(v)'
        BY <1>3
      <3>4. \A v \in Users : owner'[t] = v => SessionsOf(owner[t])' = SessionsOf(v)'
        BY DEF SessionsOf
      <3>. QED  BY <3>1, <3>2, <3>3, <3>4
    <2>. QED  BY <2>1, <2>2
  <1>6. ASSUME NEW v \in Users, NEW t \in SessionsOf(v)' PROVE owner'[t] = v
    <2>1. CASE t = s
      <3>1. v = u
        BY <1>2, <1>3, <2>1
      <3>. QED  BY <1>1, <2>1, <3>1 DEF TypeOK
    <2>2. CASE t # s
      <3>1. t \in SessionsOf(v)
        BY <1>3, <2>2
      <3>. QED  BY <1>1, <1>4, <2>2, <3>1 DEF OpenSessionsAreListed, TypeOK
    <2>. QED  BY <2>1, <2>2
  <1>. QED  BY <1>5, <1>6 DEF OpenSessionsAreListed

\* Every step keeps the open sessions listed.
LEMMA NextListed ==
    ASSUME TypeOK, OpenSessionsAreListed, [Next]_vars
    PROVE  OpenSessionsAreListed'
  <1>1. ASSUME NEW s \in Sessions, NEW h, Fail(s, h)
        PROVE  OpenSessionsAreListed'
    BY <1>1 DEF Fail, OpenSessionsAreListed, Open, SessionsOf, connectionVars
  <1>2. CASE LoseMemory
    BY <1>2 DEF LoseMemory, OpenSessionsAreListed, Open, SessionsOf, Nothing
  <1>3. CASE UNCHANGED <<owner, ended, wsSessions, connectionVars>>
    BY <1>3 DEF OpenSessionsAreListed, Open, SessionsOf, connectionVars
  <1>4. CASE StopStuck
    BY <1>4 DEF StopStuck, OpenSessionsAreListed, Open, SessionsOf, sessVars, connectionVars
  <1>. QED  BY <1>1, <1>2, <1>3, <1>4, StepKinds, UpgradeListed

\* A user with an open session is found unless another of the user's sessions
\* has ended or a signal has met the stuck io thread, for any users and sessions.
THEOREM SessionsAreFound == Spec => []OpenSessionIsFound
  <1>1. Init => OpenSessionIsFound
    BY DEF Init, OpenSessionIsFound, Open
  <1>2. TypeOK /\ OpenSessionIsFound /\ [Next]_vars => OpenSessionIsFound'
    BY NextFound
  <1>. QED  BY <1>1, <1>2, TypeCorrect, PTL DEF Spec

\* The table behind /health lists every open session under its user, and only
\* sessions that were that user's.
THEOREM SessionsAreListed == Spec => []OpenSessionsAreListed
  <1>1. Init => OpenSessionsAreListed
    BY DEF Init, RegistryInit, Nothing, OpenSessionsAreListed, Open, SessionsOf
  <1>2. TypeOK /\ OpenSessionsAreListed /\ [Next]_vars => OpenSessionsAreListed'
    BY NextListed
  <1>. QED  BY <1>1, <1>2, TypeCorrect, PTL DEF Spec

-----------------------------------------------------------------------------
(* What turns a record to OFFLINE *)

\* The first fail() of a session has its client, a later one has none and
\* reports nothing.
LEMMA FailReports ==
    ASSUME IInv, NEW s \in Sessions, NEW h, Fail(s, h), NEW u \in Users,
           presence[u] = "ONLINE", presence'[u] = "OFFLINE"
    PROVE  s \in ended' \ ended /\ owner[s] = u
  <1>1. UpdateUserStatus(s, "OFFLINE") /\ ended' = ended \cup {s}
    BY DEF Fail, ReportOffline
  <1>2. client[s] # NoClient
    BY <1>1 DEF UpdateUserStatus, presenceVars
  <1>3. s \notin ended
    BY <1>2 DEF IInv, HolderIsOpen, Open
  <1>4. presence' = [presence EXCEPT ![owner[s]] = "OFFLINE"]
    BY <1>1, <1>2 DEF UpdateUserStatus
  <1>5. owner[s] = u
    BY <1>4 DEF IInv, TypeOK
  <1>. QED  BY <1>1, <1>3, <1>5

\* A record turns to OFFLINE only with the one end of a session of the user, or
\* by a late report, for any users and sessions.
THEOREM EndsReportOnce == Spec => OfflineOnlyAtAnEnd
  <1>1. ASSUME IInv, [Next]_vars, NEW u \in Users,
               presence[u] = "ONLINE", presence'[u] = "OFFLINE"
        PROVE  \/ \E s \in ended' \ ended : owner[s] = u
               \/ <<u, "OFFLINE">> \in late
    <2>1. ASSUME NEW s \in Sessions, NEW h, Fail(s, h)
          PROVE  \E e \in ended' \ ended : owner[e] = u
      BY <1>1, <2>1, FailReports
    <2>2. CASE \E s \in Sessions : ReportOnline(s)
      BY <1>1, <2>2 DEF ReportOnline, UpdateUserStatus, presenceVars, IInv, TypeOK
    <2>3. CASE \E v \in Users, status \in Statuses : RecordLate(v, status)
      BY <1>1, <2>3 DEF RecordLate, IInv, TypeOK
    <2>4. ASSUME NEW s \in Sessions, Handler(s)
          PROVE  \/ \E h \in Handlers : Fail(s, h)
                 \/ ReportOnline(s)
                 \/ UNCHANGED presence
      BY <2>4 DEF Handler, Accept, AcceptBuffered, AcceptError, ReadError, ReadSilent,
                  ReadReply, ReadForward, ReadAndSend, HeartbeatTimeout, HeartbeatSend,
                  ReportHangs, Handlers, presenceVars
    <2>5. CASE \/ \E s \in Sessions, v \in Users : Upgrade(s, v)
               \/ Tick \/ Stop \/ StopStuck \/ Crash \/ Start \/ UNCHANGED vars
      BY <1>1, <2>5 DEF Upgrade, Tick, Stop, StopStuck, Crash, LoseMemory, Start, vars, presenceVars
    <2>. QED  BY <1>1, <2>1, <2>2, <2>3, <2>4, <2>5 DEF Next
  <1>2. IInv /\ [Next]_vars
          => [\A u \in Users : presence[u] = "ONLINE" /\ presence'[u] = "OFFLINE" =>
                \/ \E s \in ended' \ ended : owner[s] = u
                \/ <<u, "OFFLINE">> \in late]_vars
    BY <1>1
  <1>. QED  BY <1>2, InitIInv, NextIInv, PTL DEF Spec, OfflineOnlyAtAnEnd

-----------------------------------------------------------------------------
(* The first message *)

\* In a life of the process one message is queued at most, and the session it
\* is queued for is the one in whose mutex the io thread is stuck.
OneMessage ==
    \A s \in Sessions :
        /\ queue[s] = IF isWriting[s] THEN 1 ELSE 0
        /\ isWriting[s] => blocked = s

\* Only a process that has not ended is stuck.
StuckIsUp == blocked # NoSession => mode \in {"up", "stopping"}

\* A message is only sent when none was sent before.
LEMMA SendFirst ==
    ASSUME TypeOK, OneMessage, Serving, NEW s \in Sessions, SendMessage(s)
    PROVE  OneMessage' /\ StuckIsUp'
  <1>1. \A t \in Sessions : ~isWriting[t] /\ queue[t] = 0
    BY NoSessionAssumption DEF OneMessage, Serving
  <1>2. /\ queue' = [queue EXCEPT ![s] = queue[s] + 1]
        /\ isWriting' = [isWriting EXCEPT ![s] = TRUE]
        /\ blocked' = s
        /\ mode' = "up"
    BY <1>1 DEF SendMessage, Serving
  <1>3. \A t \in Sessions : queue'[t] = IF t = s THEN 1 ELSE 0
    BY <1>1, <1>2 DEF TypeOK
  <1>4. \A t \in Sessions : isWriting'[t] <=> t = s
    BY <1>1, <1>2 DEF TypeOK
  <1>. QED  BY <1>2, <1>3, <1>4 DEF OneMessage, StuckIsUp

\* A step sends a message, makes the io thread stuck without one, starts or
\* ends the process, or does nothing of this.
LEMMA SendKinds ==
    ASSUME TypeOK, [Next]_vars
    PROVE  \/ Serving /\ \E s \in Sessions : SendMessage(s)
           \/ Serving /\ UNCHANGED <<mode, sendVars>> /\ blocked' \in Sessions
           \/ LoseMemory
           \/ Start
           \/ StopStuck
           \/ UNCHANGED <<gateVars, sendVars>>
  <1>1. ASSUME NEW s \in Sessions, Handler(s)
        PROVE  \/ Serving /\ \E t \in Sessions : SendMessage(t)
               \/ Serving /\ UNCHANGED <<mode, sendVars>> /\ blocked' \in Sessions
               \/ UNCHANGED <<gateVars, sendVars>>
    <2>1. CASE AcceptBuffered(s) \/ HeartbeatSend(s)
      BY <2>1 DEF AcceptBuffered, HeartbeatSend, TimerExpires, TypeOK
    <2>2. CASE ReadReply(s) \/ \E u \in Users : ReadForward(s, u)
      BY <2>2 DEF ReadReply, ReadForward, ReadAndSend, ReadCompletes, TypeOK
    <2>3. CASE AcceptError(s) \/ ReadError(s) \/ HeartbeatTimeout(s)
      BY <2>3 DEF AcceptError, ReadError, HeartbeatTimeout, Fail
    <2>4. CASE Accept(s) \/ ReportOnline(s) \/ ReadSilent(s)
      BY <2>4 DEF Accept, ReportOnline, ReadSilent
    <2>5. CASE \E status \in Statuses : ReportHangs(s, status)
      BY <2>5 DEF ReportHangs
    <2>. QED  BY <1>1, <2>1, <2>2, <2>3, <2>4, <2>5 DEF Handler
  <1>2. ASSUME NEW s \in Sessions, NEW u \in Users, Upgrade(s, u)
        PROVE  UNCHANGED <<gateVars, sendVars>>
    BY <1>2 DEF Upgrade
  <1>3. CASE \/ \E u \in Users, status \in Statuses : RecordLate(u, status)
             \/ Tick \/ UNCHANGED vars
    BY <1>3 DEF RecordLate, Tick, vars
  <1>. QED  BY <1>1, <1>2, <1>3 DEF Next, Stop, Crash

\* Every step keeps one message the last.
LEMMA NextMessage ==
    ASSUME TypeOK, OneMessage, StuckIsUp, [Next]_vars
    PROVE  OneMessage' /\ StuckIsUp'
  <1>1. CASE Serving /\ \E s \in Sessions : SendMessage(s)
    BY <1>1, SendFirst
  <1>2. CASE Serving /\ UNCHANGED <<mode, sendVars>> /\ blocked' \in Sessions
    <2>1. \A t \in Sessions : ~isWriting[t]
      BY <1>2, NoSessionAssumption DEF OneMessage, Serving
    <2>. QED  BY <1>2, <2>1 DEF OneMessage, StuckIsUp, Serving, sendVars
  <1>3. CASE LoseMemory
    BY <1>3 DEF LoseMemory, OneMessage, StuckIsUp
  <1>4. CASE Start
    BY <1>4 DEF Start, OneMessage, StuckIsUp, sendVars
  <1>5. CASE UNCHANGED <<gateVars, sendVars>>
    BY <1>5 DEF OneMessage, StuckIsUp, gateVars, sendVars
  <1>6. CASE StopStuck
    BY <1>6 DEF StopStuck, OneMessage, StuckIsUp, sendVars
  <1>. QED  BY <1>1, <1>2, <1>3, <1>4, <1>5, <1>6, SendKinds

\* Both hold throughout.
LEMMA MessagesHold == Spec => [](OneMessage /\ StuckIsUp)
  <1>1. Init => OneMessage /\ StuckIsUp
    BY DEF Init, OneMessage, StuckIsUp
  <1>2. TypeOK /\ OneMessage /\ StuckIsUp /\ [Next]_vars => OneMessage' /\ StuckIsUp'
    BY NextMessage
  <1>. QED  BY <1>1, <1>2, TypeCorrect, PTL DEF Spec

\* The first message that a session of the process is to be sent is its last:
\* whatever the sessions and the order of their messages, no queue ever holds
\* two, and the io thread is stuck as soon as one holds any.
THEOREM FirstMessageIsLast == Spec => []OneMessage
  BY MessagesHold, PTL

-----------------------------------------------------------------------------
(* How the pool of StatusClients grows *)

\* A client is made only while every client there is serves an open session.
GrowsWhenAllInUse ==
    [][made' > made =>
         \A c \in 1..made : \E s \in Sessions : client[s] = c /\ Open(s)]_vars

\* There are as many clients as were configured.
EnoughMade == PoolSize <= made

\* The manager never has fewer clients than it was configured for, and makes
\* one when the pool is empty.
LEMMA NextMade ==
    ASSUME TypeOK, EnoughMade, [Next]_vars
    PROVE  EnoughMade' /\ (made' > made => pool = << >>)
  <1>. USE PoolSizeAssumption DEF TypeOK, EnoughMade
  <1>1. ASSUME NEW s \in Sessions, NEW u \in Users, Upgrade(s, u)
        PROVE  EnoughMade' /\ (made' > made => pool = << >>)
    BY <1>1 DEF Upgrade, AcquireClient
  <1>2. CASE UNCHANGED made
    BY <1>2
  <1>3. ASSUME NEW s \in Sessions, Handler(s)
        PROVE  UNCHANGED made
    BY <1>3
    DEF Handler, Accept, AcceptBuffered, AcceptError, ReportOnline, ReadError, ReadSilent,
        ReadReply, ReadForward, ReadAndSend, HeartbeatTimeout, HeartbeatSend, ReportHangs,
        Fail, ReleaseClient, poolVars
  <1>4. CASE LoseMemory
    BY <1>4 DEF LoseMemory
  <1>5. CASE \/ \E u \in Users, status \in Statuses : RecordLate(u, status)
             \/ Tick \/ StopStuck \/ Start \/ UNCHANGED vars
    BY <1>2, <1>5 DEF RecordLate, Tick, StopStuck, Start, vars, poolVars
  <1>. QED  BY <1>1, <1>2, <1>3, <1>4, <1>5 DEF Next, Stop, Crash

\* The pool grows with the sessions that are open at one time and with nothing
\* else: no number of sessions one after the other, of fail() calls or of
\* restarts makes it grow.
THEOREM PoolGrowsWithUse == Spec => GrowsWhenAllInUse
  <1>1. Init => EnoughMade
    BY PoolSizeAssumption DEF Init, EnoughMade
  <1>2. TypeOK /\ EnoughMade /\ [Next]_vars => EnoughMade'
    BY NextMade
  <1>3. TypeOK /\ NoClientLost /\ EnoughMade /\ [Next]_vars =>
          [made' > made =>
             \A c \in 1..made : \E s \in Sessions : client[s] = c /\ Open(s)]_vars
    <2>. SUFFICES ASSUME TypeOK, NoClientLost, EnoughMade, [Next]_vars, made' > made,
                         NEW c \in 1..made
                  PROVE  \E s \in Sessions : client[s] = c /\ Open(s)
      OBVIOUS
    <2>1. pool = << >>
      BY NextMade
    <2>2. ~ \E i \in DOMAIN pool : pool[i] = c
      BY <2>1
    <2>. QED  BY <2>2 DEF NoClientLost
  <1>. QED  BY <1>1, <1>2, <1>3, TypeCorrect, ClientsConserved, PTL
            DEF Spec, GrowsWhenAllInUse
=============================================================================
