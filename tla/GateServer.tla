----------------------------- MODULE GateServer -----------------------------
(***************************************************************************)
(* The WebSocket side of GateServer: the sessions, the registry of live    *)
(* sessions (WebSocketManager), the table behind /health (the operations   *)
(* of ConnectionManager), the pool of StatusClients (StatusClientManager)  *)
(* and the presence that the sessions report to StatusServer.  A member of *)
(* Sessions is a websocket_session object with the sessionId_ it carries.  *)
(*                                                                         *)
(* main() runs the io_context on one thread, so a completion handler runs  *)
(* to its end before the next one starts: one handler is one action.  The  *)
(* handlers make blocking calls (gRPC without a deadline, MySQL, Redis),   *)
(* so any amount of time may pass in one of them: Tick is not tied to the  *)
(* handlers, and a due timer may be late.                                  *)
(*                                                                         *)
(* Clients of the pool are numbered in the order in which they are made;   *)
(* client_acquired_ and a non-null status_client_ always change together   *)
(* here (the manager is initialised before the listener runs), so a        *)
(* session holds client[s] or NoClient.                                    *)
(***************************************************************************)
EXTENDS Naturals, Sequences, ConnectionManager

CONSTANTS
    PoolSize,   \* pool_size of StatusClientManager::initialize
    NoUser,     \* the userId_ of a session that does not exist yet
    NoSession   \* the null session

ASSUME PoolSizeAssumption == PoolSize \in Nat
ASSUME NoUserAssumption == NoUser \notin Users
ASSUME NoSessionAssumption == NoSession \notin Sessions

VARIABLES
    mode,           \* "up", "stopping" when a signal met the stuck io thread,
                    \* "stopped" by a signal, or "down" after a crash
    blocked,        \* session in whose handler the io thread is stuck, if any
    owner,          \* userId_ of each session
    pending,        \* completion handlers of a session that have not run yet
    due,            \* sessions whose heartbeat timer has expired
    age,            \* heartbeat intervals since last_heartbeat_, up to DeadAge
    queue,          \* length of message_queue_
    isWriting,      \* is_writing_
    client,         \* status_client_
    ended,          \* sessions for which fail() ran or whose process is gone
    wsSessions,     \* WebSocketManager::sessions_
    pool,           \* StatusClientManager::client_pool_
    made,           \* number of StatusClients made so far
    presence,       \* the status of a user that StatusServer has recorded
    late,           \* reports that failed at the Gate and may still be recorded
    stale           \* history: users about whom an OFFLINE report failed, or an
                    \* ONLINE report was recorded late

gateVars == <<mode, blocked>>
sessVars == <<owner, pending, due, age, ended>>
sendVars == <<queue, isWriting>>
poolVars == <<client, pool, made>>
presenceVars == <<presence, late, stale>>
registryVars == <<wsSessions, connectionVars>>
vars == <<gateVars, sessVars, sendVars, poolVars, presenceVars, registryVars>>

NoClient == 0
\* is_alive() is false from three heartbeat intervals on.
DeadAge == 3
Handlers == {"accept", "online", "read", "timer"}
Clients == Nat \ {NoClient}
Statuses == {"ONLINE", "OFFLINE"}

\* A handler can run: the process is up and its io thread is not stuck.
Serving == mode = "up" /\ blocked = NoSession
Open(s) == owner[s] # NoUser /\ s \notin ended
IsAlive(s) == age[s] < DeadAge

-----------------------------------------------------------------------------
(* StatusClientManager *)

FreshPool == [i \in 1..PoolSize |-> i]

AcquireClient(s) ==
    \/ /\ pool # << >>
       /\ client' = [client EXCEPT ![s] = pool[Len(pool)]]
       /\ pool' = SubSeq(pool, 1, Len(pool) - 1)
       /\ UNCHANGED made
    \/ /\ pool = << >>
       /\ client' = [client EXCEPT ![s] = made + 1]
       /\ made' = made + 1
       /\ UNCHANGED pool

(* Defects: the client is pooled but kept, returned without the null check, *)
(* or dropped.                                                              *)

ReleaseAndKeep(s) ==
    /\ pool' = IF client[s] = NoClient THEN pool ELSE Append(pool, client[s])
    /\ UNCHANGED <<client, made>>

ReleaseUnchecked(s) ==
    /\ pool' = Append(pool, client[s])
    /\ client' = [client EXCEPT ![s] = NoClient]
    /\ UNCHANGED made

DropClient(s) ==
    /\ client' = [client EXCEPT ![s] = NoClient]
    /\ UNCHANGED <<pool, made>>

\* The end of fail(): the client goes back, unless an earlier fail() did it.
ReleaseClient(s) ==
    /\ pool' = IF client[s] = NoClient THEN pool ELSE Append(pool, client[s])
    /\ client' = [client EXCEPT ![s] = NoClient]
    /\ UNCHANGED made

-----------------------------------------------------------------------------
(* Presence: updateUserStatus. The call is skipped without a client, and    *)
(* a failed call (error from StatusServer or from gRPC) is only logged: the *)
(* report is lost, or StatusServer records it after the Gate has given up.  *)

UpdateUserStatus(s, status) ==
    IF client[s] = NoClient
    THEN UNCHANGED presenceVars
    ELSE \/ /\ presence' = [presence EXCEPT ![owner[s]] = status]
            /\ stale' = stale \ {owner[s]}
            /\ UNCHANGED late
         \/ /\ UNCHANGED presence
            /\ late' \in {late, late \cup {<<owner[s], status>>}}
            /\ stale' = IF status = "OFFLINE" THEN stale \cup {owner[s]} ELSE stale

\* Defect: fail() reports after it has given the client back.
ReportNothing(s) == UNCHANGED presenceVars

\* Defect: fail() reports through a client of its own, also when it runs again.
ReportUnchecked(s) ==
    /\ presence' = [presence EXCEPT ![owner[s]] = "OFFLINE"]
    /\ UNCHANGED <<stale, late>>

ReportOffline(s) == UpdateUserStatus(s, "OFFLINE")

\* StatusServer gets to a report that the Gate has given up.
RecordLate(u, status) ==
    /\ <<u, status>> \in late
    /\ presence' = [presence EXCEPT ![u] = status]
    /\ late' = late \ {<<u, status>>}
    /\ stale' = IF status = "ONLINE" THEN stale \cup {u} ELSE stale
    /\ UNCHANGED <<gateVars, sessVars, sendVars, poolVars, registryVars>>

-----------------------------------------------------------------------------
(* The operations of a session *)

\* send_message locks queue_mutex_ and, when no write is in progress, calls
\* do_write, which locks the same std::mutex again on the same thread.
SendMessage(s) ==
    /\ queue' = [queue EXCEPT ![s] = @ + 1]
    /\ isWriting' = [isWriting EXCEPT ![s] = TRUE]
    /\ blocked' = IF isWriting[s] THEN blocked ELSE s
    /\ UNCHANGED mode

\* Defect: the session stays registered.
RemoveNothing(u) == UNCHANGED wsSessions

\* WebSocketManager::removeSession erases whatever session the user has now.
RemoveSession(u) == wsSessions' = [wsSessions EXCEPT ![u] = NoSession]

\* fail() neither closes the socket nor cancels the heartbeat timer.
Fail(s, handler) ==
    /\ ReportOffline(s)
    /\ RemoveSession(owner[s])
    /\ ReleaseClient(s)
    /\ ended' = ended \cup {s}
    /\ pending' = [pending EXCEPT ![s] = @ \ {handler}]
    /\ UNCHANGED <<gateVars, owner, age, sendVars, connectionVars>>

\* Defect: the session is registered by do_accept, when the handshake is done.
UpgradeUnregistered(s, u) ==
    /\ Serving
    /\ owner[s] = NoUser
    /\ s \notin ended
    /\ AcquireClient(s)
    /\ owner' = [owner EXCEPT ![s] = u]
    /\ age' = [age EXCEPT ![s] = 0]
    /\ UNCHANGED wsSessions
    /\ AddConnection(u, s)
    /\ pending' = [pending EXCEPT ![s] = {"accept"}]
    /\ UNCHANGED <<gateVars, due, ended, sendVars, presenceVars>>

\* http_session::do_read after a verified handshake, up to ws->run().
Upgrade(s, u) ==
    /\ Serving
    /\ owner[s] = NoUser
    /\ s \notin ended
    /\ AcquireClient(s)
    /\ owner' = [owner EXCEPT ![s] = u]
    /\ age' = [age EXCEPT ![s] = 0]
    /\ wsSessions' = [wsSessions EXCEPT ![u] = s]
    /\ AddConnection(u, s)
    /\ pending' = [pending EXCEPT ![s] = {"accept"}]
    /\ UNCHANGED <<gateVars, due, ended, sendVars, presenceVars>>

\* Defect: the heartbeat is not started.
AcceptWithoutTimer(s) ==
    /\ Serving
    /\ "accept" \in pending[s]
    /\ pending' = [pending EXCEPT ![s] = {"online", "read"}]
    /\ UNCHANGED <<gateVars, owner, due, age, ended, sendVars, poolVars,
                   presenceVars, registryVars>>

\* The handshake answer is written: the timer is armed, the ONLINE report is
\* posted and the first read is started.
Accept(s) ==
    /\ Serving
    /\ "accept" \in pending[s]
    /\ pending' = [pending EXCEPT ![s] = {"timer", "online", "read"}]
    /\ UNCHANGED <<gateVars, owner, due, age, ended, sendVars, poolVars,
                   presenceVars, registryVars>>

\* Bytes that came with the handshake are handed to on_message undecoded. A
\* frame is no JSON text and is echoed; bare JSON is answered or forwarded as a
\* message is. (What is answered with nothing ends as Accept does.)
AcceptBuffered(s) ==
    /\ Serving
    /\ "accept" \in pending[s]
    /\ pending' = [pending EXCEPT ![s] = {"timer", "online"}]
    /\ \E receiver \in {s} \cup ({wsSessions[u] : u \in Users} \ {NoSession}) :
         SendMessage(receiver)
    /\ UNCHANGED <<owner, due, age, ended, poolVars, presenceVars, registryVars>>

AcceptError(s) ==
    /\ Serving
    /\ "accept" \in pending[s]
    /\ Fail(s, "accept")
    /\ UNCHANGED due

\* The handler posted by do_accept.
ReportOnline(s) ==
    /\ Serving
    /\ "online" \in pending[s]
    /\ UpdateUserStatus(s, "ONLINE")
    /\ pending' = [pending EXCEPT ![s] = @ \ {"online"}]
    /\ UNCHANGED <<gateVars, owner, due, age, ended, sendVars, poolVars, registryVars>>

\* The ONLINE handler was queued before the read was started, and the
\* io_context runs its queue in order.
ReadCompletes(s) ==
    /\ Serving
    /\ "read" \in pending[s]
    /\ "online" \notin pending[s]

ReadError(s) ==
    /\ ReadCompletes(s)
    /\ Fail(s, "read")
    /\ UNCHANGED due

\* A message that is answered with nothing: a text_message without its fields,
\* not stored, or for a user with no registered session; a query-less search.
ReadSilent(s) ==
    /\ ReadCompletes(s)
    /\ age' = [age EXCEPT ![s] = 0]
    /\ UNCHANGED <<gateVars, owner, pending, due, ended, sendVars, poolVars,
                   presenceVars, registryVars>>

\* send_message does not return once the io thread is blocked, so the next
\* read is never started.
ReadAndSend(s, receiver) ==
    /\ ReadCompletes(s)
    /\ age' = [age EXCEPT ![s] = 0]
    /\ SendMessage(receiver)
    /\ pending' = [pending EXCEPT ![s] = IF isWriting[receiver] THEN @ ELSE @ \ {"read"}]
    /\ UNCHANGED <<owner, due, ended, poolVars, presenceVars, registryVars>>

\* login, heartbeat, search_user, unknown types and non-JSON text.
ReadReply(s) == ReadAndSend(s, s)

\* A stored text_message for a user who has a registered session.
ReadForward(s, u) ==
    /\ wsSessions[u] # NoSession
    /\ ReadAndSend(s, wsSessions[u])

\* The ONLINE handler was queued an interval before the timer expires.
TimerExpires(s) ==
    /\ Serving
    /\ s \in due
    /\ "online" \notin pending[s]

\* Defect: the timer is armed again before the session is found dead.
RearmAfterTimeout(s) ==
    /\ TimerExpires(s)
    /\ ~IsAlive(s)
    /\ Fail(s, "accept")
    /\ due' = due \ {s}

\* The timer runs for ended sessions too. OFFLINE is reported twice, once
\* before fail(): it is recorded if either call succeeds.
HeartbeatTimeout(s) ==
    /\ TimerExpires(s)
    /\ ~IsAlive(s)
    /\ Fail(s, "timer")
    /\ due' = due \ {s}

HeartbeatSend(s) ==
    /\ TimerExpires(s)
    /\ IsAlive(s)
    /\ SendMessage(s)
    /\ pending' = [pending EXCEPT ![s] = IF isWriting[s] THEN @ ELSE @ \ {"timer"}]
    /\ due' = due \ {s}
    /\ UNCHANGED <<owner, age, ended, poolVars, presenceVars, registryVars>>

\* A handler of the session can be making this report.
Reporting(s, status) ==
    \/ status = "ONLINE" /\ "online" \in pending[s]
    \/ /\ status = "OFFLINE"
       /\ \/ "accept" \in pending[s]
          \/ ReadCompletes(s)
          \/ TimerExpires(s) /\ ~IsAlive(s)

\* The call has no deadline: StatusServer has it and does not answer, so the
\* handler that makes it never ends. The report may still be recorded.
ReportHangs(s, status) ==
    /\ Serving
    /\ client[s] # NoClient
    /\ Reporting(s, status)
    /\ late' \in {late, late \cup {<<owner[s], status>>}}
    /\ blocked' = s
    /\ UNCHANGED <<mode, sessVars, sendVars, poolVars, presence, stale, registryVars>>

-----------------------------------------------------------------------------
(* Time and the process *)

\* One heartbeat interval passes: every armed timer expires.
Tick ==
    /\ Serving
    /\ due' = {s \in Sessions : "timer" \in pending[s]}
    /\ age' = [s \in Sessions |->
                 IF pending[s] # {} /\ age[s] < DeadAge THEN age[s] + 1 ELSE age[s]]
    /\ UNCHANGED <<gateVars, owner, pending, ended, sendVars, poolVars,
                   presenceVars, registryVars>>

\* The memory of the process is gone; what StatusServer recorded is not.
LoseMemory ==
    /\ blocked' = NoSession
    /\ ended' = {s \in Sessions : owner[s] # NoUser}
    /\ pending' = [s \in Sessions |-> {}]
    /\ due' = {}
    /\ age' = [s \in Sessions |-> 0]
    /\ queue' = [s \in Sessions |-> 0]
    /\ isWriting' = [s \in Sessions |-> FALSE]
    /\ client' = [s \in Sessions |-> NoClient]
    /\ wsSessions' = [u \in Users |-> NoSession]
    /\ userSessions' = Nothing
    /\ sessionToUser' = Nothing
    /\ pool' = FreshPool
    /\ made' = PoolSize
    /\ stale' = stale \cup {u \in Users : presence[u] = "ONLINE"}
    /\ UNCHANGED <<owner, presence, late>>

\* signalHandler: WebSocketManager::cleanup drops the sessions and tells nobody.
Stop == Serving /\ mode' = "stopped" /\ LoseMemory

\* It runs on the stuck io thread, too, but the handler that it interrupts never
\* ends, and so the process does not.
StopStuck ==
    /\ mode = "up"
    /\ blocked # NoSession
    /\ mode' = "stopping"
    /\ wsSessions' = [u \in Users |-> NoSession]
    /\ UNCHANGED <<blocked, sessVars, sendVars, poolVars, presenceVars, connectionVars>>

\* The process dies, or is killed because its io thread is stuck.
Crash == mode \in {"up", "stopping"} /\ mode' = "down" /\ LoseMemory

Start ==
    /\ mode \in {"stopped", "down"}
    /\ mode' = "up"
    /\ UNCHANGED <<blocked, sessVars, sendVars, poolVars, presenceVars, registryVars>>

-----------------------------------------------------------------------------

Init ==
    /\ mode = "up"
    /\ blocked = NoSession
    /\ owner = [s \in Sessions |-> NoUser]
    /\ pending = [s \in Sessions |-> {}]
    /\ due = {}
    /\ age = [s \in Sessions |-> 0]
    /\ queue = [s \in Sessions |-> 0]
    /\ isWriting = [s \in Sessions |-> FALSE]
    /\ client = [s \in Sessions |-> NoClient]
    /\ ended = {}
    /\ wsSessions = [u \in Users |-> NoSession]
    /\ RegistryInit
    /\ pool = FreshPool
    /\ made = PoolSize
    /\ presence = [u \in Users |-> "OFFLINE"]
    /\ late = {}
    /\ stale = {}

Handler(s) ==
    \/ Accept(s)
    \/ AcceptBuffered(s)
    \/ AcceptError(s)
    \/ ReportOnline(s)
    \/ ReadError(s)
    \/ ReadSilent(s)
    \/ ReadReply(s)
    \/ \E u \in Users : ReadForward(s, u)
    \/ HeartbeatTimeout(s)
    \/ HeartbeatSend(s)
    \/ \E status \in Statuses : ReportHangs(s, status)

Next ==
    \/ \E s \in Sessions : Handler(s) \/ \E u \in Users : Upgrade(s, u)
    \/ \E u \in Users, status \in Statuses : RecordLate(u, status)
    \/ Tick
    \/ Stop
    \/ StopStuck
    \/ Crash
    \/ Start

Spec == Init /\ [][Next]_vars

\* Time passes and the io thread runs the handlers that are ready. Reads are
\* the peer's choice, and nothing makes the process stop or start.
Fairness ==
    /\ WF_vars(Tick)
    /\ \A s \in Sessions :
         /\ WF_vars(Accept(s) \/ AcceptBuffered(s) \/ AcceptError(s))
         /\ WF_vars(ReportOnline(s))
         /\ WF_vars(HeartbeatTimeout(s) \/ HeartbeatSend(s))

FairSpec == Spec /\ Fairness

-----------------------------------------------------------------------------
(* Properties *)

\* Every variable keeps its type.
TypeOK ==
    /\ mode \in {"up", "stopping", "stopped", "down"}
    /\ blocked \in Sessions \cup {NoSession}
    /\ owner \in [Sessions -> Users \cup {NoUser}]
    /\ pending \in [Sessions -> SUBSET Handlers]
    /\ due \in SUBSET Sessions
    /\ age \in [Sessions -> 0..DeadAge]
    /\ queue \in [Sessions -> Nat]
    /\ isWriting \in [Sessions -> BOOLEAN]
    /\ client \in [Sessions -> Nat]
    /\ ended \in SUBSET Sessions
    /\ wsSessions \in [Users -> Sessions \cup {NoSession}]
    /\ RegistryTypeOK
    /\ pool \in Seq(Clients)
    /\ made \in Nat
    /\ presence \in [Users -> Statuses]
    /\ late \in SUBSET (Users \X Statuses)
    /\ stale \in SUBSET Users

\* No StatusClient is given out twice or pooled twice, although fail() may run
\* several times for one session (read error, then the heartbeat timer).
ClientPlacedOnce ==
    /\ \A i, j \in DOMAIN pool : pool[i] = pool[j] => i = j
    /\ \A s, t \in Sessions : client[s] # NoClient /\ client[s] = client[t] => s = t
    /\ \A s \in Sessions, i \in DOMAIN pool : client[s] # pool[i]

\* The pool of StatusClients keeps what a pool promises, in every step: fail()
\* that runs again, sessions that find the pool empty, a restart.
Pool == INSTANCE ResourcePool WITH
    Holders <- Sessions, Resources <- Clients, None <- NoClient,
    free <- {pool[i] : i \in DOMAIN pool}, holds <- client
ImplementsPool == Pool!Spec

\* Every StatusClient made is in the pool or held by a session that has not
\* ended: whatever way a session ends, its client comes back.
NoClientLost ==
    \A c \in 1..made : \/ \E i \in DOMAIN pool : pool[i] = c
                       \/ \E s \in Sessions : client[s] = c /\ Open(s)

\* getSession never returns a session whose fail() has run: a message that is
\* forwarded goes to a session that still reads, whatever order the sessions
\* of one user open and end in.
RegisteredSessionIsOpen ==
    \A u \in Users : wsSessions[u] # NoSession =>
        Open(wsSessions[u]) /\ owner[wsSessions[u]] = u

\* A user recorded as ONLINE has an open session, unless the report that would
\* have corrected it was lost (a failed call, a stopped or crashed process), or
\* an ONLINE report was recorded after the Gate had given it up.
OnlineHasOpenSession ==
    \A u \in Users : presence[u] = "ONLINE" =>
        u \in stale \/ \E s \in Sessions : owner[s] = u /\ Open(s)

\* No session stays open for ever, however silent its peer is: the heartbeat
\* timer ends it, or finds it alive and gets the io thread stuck in its own
\* mutex, or a report hangs.
SessionEndsOrThreadSticks ==
    \A s \in Sessions : Open(s) ~> (~Open(s) \/ blocked # NoSession)

\* The socket of an ended session is not kept by the timer that fail() does not
\* cancel: once its read has ended as well, nothing refers to the session, or
\* the timer's handler has got the io thread stuck. (The read itself, which fail()
\* does not cancel either, is the peer's to end.)
EndedSessionIsReleased ==
    \A s \in Sessions :
        s \in ended /\ "read" \notin pending[s] ~> (pending[s] = {} \/ blocked # NoSession)

\* "If no write is in progress, start writing" (send_message): what is queued
\* for a session is written to it. The code does not do this.
QueuedMessageIsWritten ==
    \A s \in Sessions : queue[s] > 0 ~> queue[s] = 0

\* A user with an open session is found by getSession, unless another session
\* of the user has ended: fail() takes whatever session is registered then out
\* of the registry. Nothing else hides a user from a message, as long as no
\* signal has cleared the registry over a stuck handler.
OpenSessionIsFound ==
    \A s \in Sessions : Open(s) =>
        \/ wsSessions[owner[s]] # NoSession
        \/ \E t \in ended : owner[t] = owner[s]
        \/ mode = "stopping"

\* The table behind /health and the registry are kept apart, and only the one
\* forgets: the table lists every open session, under its user, and none that
\* never was.
OpenSessionsAreListed ==
    /\ \A s \in Sessions : Open(s) => s \in SessionsOf(owner[s])
    /\ \A u \in Users : \A s \in SessionsOf(u) : owner[s] = u

\* A user's record turns to OFFLINE only with the one end of a session of the
\* user, or by a late report of it. A fail() that runs again, when the user may
\* long have a new session, does not touch it.
OfflineOnlyAtAnEnd ==
    [][\A u \in Users : presence[u] = "ONLINE" /\ presence'[u] = "OFFLINE" =>
         \/ \E s \in ended' \ ended : owner[s] = u
         \/ <<u, "OFFLINE">> \in late]_vars
=============================================================================
