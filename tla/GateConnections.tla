-------------------------- MODULE GateConnections --------------------------
(***************************************************************************)
(* The Gate with its TCP side: the listener's accept loop, the HTTP        *)
(* connections (http_session) and their upgrade to the sessions of         *)
(* GateServer, which this module extends.  All of them run on the one io   *)
(* thread.                                                                 *)
(*                                                                         *)
(* A member of Sessions is an http_session until the upgrade and the       *)
(* websocket_session it makes from then on; both carry the sessionId_      *)
(* under which ConnectionManager counts them.  An http_session that closed *)
(* without an upgrade leaves nothing behind, so its name is used again.    *)
(*                                                                         *)
(* What a request asks for and how often is HttpSession's subject; here    *)
(* any request may come at any time and is answered.                       *)
(***************************************************************************)
EXTENDS GateServer, FiniteSets

CONSTANT MaxSockets     \* sockets the process can have beside the acceptor

ASSUME MaxSocketsAssumption == MaxSockets \in Nat \ {0}

VARIABLES
    listening,  \* has the acceptor been bound?
    armed,      \* is an async_accept pending?
    backlog,    \* connections the kernel has made and nobody has accepted
    reads,      \* async_reads of each http_session that are pending
    writes,     \* async_writes of each http_session that are pending
    asked,      \* req_.keep_alive() of the request that is answered
    kept        \* res_.keep_alive()

listenerVars == <<listening, armed, backlog>>
httpVars == <<reads, writes, asked, kept>>
connVars == <<listenerVars, httpVars>>
allVars == <<vars, connVars>>

Waiting(s) == \E i \in DOMAIN backlog : backlog[i] = s
HasHttp(s) == reads[s] + writes[s] > 0
\* A websocket_session lives as long as a handler or the manager refers to it.
HasWebSocket(s) == pending[s] # {} \/ blocked = s \/ \E u \in Users : wsSessions[u] = s

OpenSockets == {s \in Sessions : HasHttp(s) \/ HasWebSocket(s)}
SocketFree == Cardinality(OpenSockets) < MaxSockets

-----------------------------------------------------------------------------
(* listener *)

PeerConnects(s) ==
    /\ mode = "up"
    /\ listening
    /\ owner[s] = NoUser
    /\ ~Waiting(s)
    /\ ~HasHttp(s)
    /\ backlog' = Append(backlog, s)
    /\ UNCHANGED <<vars, listening, armed, httpVars>>

AcceptHandler(s) ==
    /\ Serving
    /\ armed
    /\ SocketFree
    /\ backlog # << >>
    /\ s = Head(backlog)

\* http_session::run starts the first read; the listener accepts again.
AcceptConnection(s) ==
    /\ AcceptHandler(s)
    /\ backlog' = Tail(backlog)
    /\ reads' = [reads EXCEPT ![s] = 1]
    /\ kept' = [kept EXCEPT ![s] = TRUE]
    /\ UNCHANGED <<vars, listening, armed, writes, asked>>

NoConnections ==
    /\ armed' = FALSE
    /\ backlog' = << >>
    /\ reads' = [s \in Sessions |-> 0]
    /\ writes' = [s \in Sessions |-> 0]
    /\ asked' = [s \in Sessions |-> FALSE]
    /\ kept' = [s \in Sessions |-> FALSE]
    /\ UNCHANGED listening

\* The peer has reset the connection meanwhile: remote_endpoint() throws, main
\* catches it behind ioc.run(), and the process ends.
AcceptLostPeer(s) == AcceptHandler(s) /\ Crash /\ NoConnections

AcceptImpossible ==
    /\ Serving
    /\ armed
    /\ \/ ~listening
       \/ backlog # << >> /\ ~SocketFree

\* Defect: the loop ends with the first error.
AcceptFailsAndStops ==
    /\ AcceptImpossible
    /\ armed' = FALSE
    /\ UNCHANGED <<vars, listening, backlog, httpVars>>

\* No descriptor left, or no listening socket: logged and tried again at once.
AcceptFails == AcceptImpossible /\ UNCHANGED allVars

-----------------------------------------------------------------------------
(* http_session *)

RequestRead(s) == Serving /\ reads[s] > 0

\* do_close and fail: the object and its socket go with their last operation.
\* The user ID is that of a verified handshake.
CloseConnection(s) ==
    /\ IF owner[s] = NoUser
       THEN UNCHANGED connectionVars
       ELSE RemoveConnection(owner[s], s)
    /\ asked' = [asked EXCEPT ![s] = FALSE]
    /\ kept' = [kept EXCEPT ![s] = FALSE]
    /\ UNCHANGED <<gateVars, sessVars, sendVars, poolVars, presenceVars, wsSessions>>

\* End of stream, an error, a body that is too long.
ReadEnds(s) ==
    /\ RequestRead(s)
    /\ reads' = [reads EXCEPT ![s] = @ - 1]
    /\ CloseConnection(s)
    /\ UNCHANGED <<listenerVars, writes>>

\* Defect: an answer put together by hand leaves out res_.keep_alive().
RespondAsBefore(s, keep) ==
    /\ asked' = [asked EXCEPT ![s] = keep]
    /\ writes' = [writes EXCEPT ![s] = @ + 1]
    /\ UNCHANGED kept

\* Every answer, of send_response or put together by a handler.
Respond(s, keep) ==
    /\ asked' = [asked EXCEPT ![s] = keep]
    /\ kept' = [kept EXCEPT ![s] = keep]
    /\ writes' = [writes EXCEPT ![s] = @ + 1]

\* on_read: whatever the request, refused by the rate limiter or not, a handler
\* writes one answer.
AnswerRequest(s) ==
    /\ RequestRead(s)
    /\ reads' = [reads EXCEPT ![s] = @ - 1]
    /\ \E keep \in BOOLEAN : Respond(s, keep)
    /\ UNCHANGED <<vars, listenerVars>>

\* Defect: no return after the 401, so that on_read answers, too.
RefuseAndGoOn(s) ==
    /\ RequestRead(s)
    /\ reads' = [reads EXCEPT ![s] = @ - 1]
    /\ writes' = [writes EXCEPT ![s] = @ + 2]
    /\ UNCHANGED <<vars, listenerVars, asked, kept>>

\* A handshake whose token is not accepted: 401, and the connection goes on as
\* any other.
RefuseUpgrade(s) ==
    /\ RequestRead(s)
    /\ reads' = [reads EXCEPT ![s] = @ - 1]
    /\ \E keep \in BOOLEAN : Respond(s, keep)
    /\ UNCHANGED <<vars, listenerVars>>

\* Defect: no return after ws->run(), so that on_read answers with the request
\* and the stream that were given away.
UpgradeAndGoOn(s, u) ==
    /\ RequestRead(s)
    /\ Upgrade(s, u)
    /\ reads' = [reads EXCEPT ![s] = @ - 1]
    /\ writes' = [writes EXCEPT ![s] = @ + 1]
    /\ UNCHANGED <<listenerVars, asked, kept>>

\* The socket goes to the new websocket_session, the http_session ends.
UpgradeConnection(s, u) ==
    /\ RequestRead(s)
    /\ Upgrade(s, u)
    /\ reads' = [reads EXCEPT ![s] = @ - 1]
    /\ asked' = [asked EXCEPT ![s] = FALSE]
    /\ kept' = [kept EXCEPT ![s] = FALSE]
    /\ UNCHANGED <<listenerVars, writes>>

\* The answer is written, and it said keep-alive: the next request is read.
WriteAndRead(s) ==
    /\ Serving
    /\ writes[s] > 0
    /\ kept[s]
    /\ writes' = [writes EXCEPT ![s] = @ - 1]
    /\ reads' = [reads EXCEPT ![s] = @ + 1]
    /\ UNCHANGED <<vars, listenerVars, asked, kept>>

\* It said close, or it could not be written.
WriteAndClose(s) ==
    /\ Serving
    /\ writes[s] > 0
    /\ writes' = [writes EXCEPT ![s] = @ - 1]
    /\ CloseConnection(s)
    /\ UNCHANGED <<listenerVars, reads>>

-----------------------------------------------------------------------------
(* The steps of GateServer *)

\* The websocket sessions, StatusServer and time leave the connections alone.
SessionStep ==
    /\ \/ \E s \in Sessions : Handler(s)
       \/ \E u \in Users, status \in Statuses : RecordLate(u, status)
       \/ Tick
    /\ UNCHANGED connVars

\* The signal handler stops the listener; a crash has the same effect on it.
StopGate == Stop /\ NoConnections

\* The connections that have been made stay as they are: no handler runs.
StopStuckGate ==
    /\ StopStuck
    /\ listening' = FALSE
    /\ armed' = FALSE
    /\ backlog' = << >>
    /\ UNCHANGED httpVars

CrashGate == Crash /\ NoConnections

\* The listener's constructor only logs that open, bind or listen failed; run()
\* starts to accept all the same.
StartGate ==
    /\ Start
    /\ listening' \in BOOLEAN
    /\ armed' = TRUE
    /\ UNCHANGED <<backlog, httpVars>>

-----------------------------------------------------------------------------

ConnInit ==
    /\ Init
    /\ listening \in BOOLEAN
    /\ armed = TRUE
    /\ backlog = << >>
    /\ reads = [s \in Sessions |-> 0]
    /\ writes = [s \in Sessions |-> 0]
    /\ asked = [s \in Sessions |-> FALSE]
    /\ kept = [s \in Sessions |-> FALSE]

HttpStep(s) ==
    \/ AcceptConnection(s)
    \/ AcceptLostPeer(s)
    \/ ReadEnds(s)
    \/ AnswerRequest(s)
    \/ RefuseUpgrade(s)
    \/ \E u \in Users : UpgradeConnection(s, u)
    \/ WriteAndRead(s)
    \/ WriteAndClose(s)

ConnNext ==
    \/ \E s \in Sessions : PeerConnects(s) \/ HttpStep(s)
    \/ AcceptFails
    \/ SessionStep
    \/ StopGate
    \/ StopStuckGate
    \/ CrashGate
    \/ StartGate

ConnSpec == ConnInit /\ [][ConnNext]_allVars

\* The io thread runs the accept handler when it is ready: connections are
\* accepted in the order in which the kernel made them. It runs the handlers of the
\* sessions as well; what the peers do with their connections is their choice.
ConnFairness == WF_allVars(\E s \in Sessions : AcceptConnection(s) \/ AcceptLostPeer(s))
FairConnSpec == ConnSpec /\ ConnFairness /\ Fairness

-----------------------------------------------------------------------------
(* Properties *)

\* An http_session never has two operations on its stream, and none after the
\* upgrade: each handler answers once or starts to read once, whatever path it
\* took. (Beast allows one write at a time, and stream_ is empty after
\* release_socket.)
OneOperation ==
    \A s \in Sessions : /\ reads[s] + writes[s] <= 1
                        /\ HasHttp(s) => owner[s] = NoUser

\* A connection that asked to be closed is not read again, also when an earlier
\* request on it, answered with the same res_, asked for the contrary.
KeepAliveHonoured ==
    [][\A s \in Sessions :
         writes[s] > 0 /\ asked[s] = FALSE => reads'[s] = 0]_allVars

\* With its connections, the Gate does what GateServer says: what is shown of
\* the sessions does not depend on how and when the connections under them come.
ImplementsGateServer == Spec

\* A peer that waits is accepted, as long as descriptors become free again and
\* the io thread is not stuck: errors of accept do not end the loop.
WaitingPeerIsAccepted ==
    \A s \in Sessions : []<>SocketFree => (Waiting(s) ~> ~Waiting(s) \/ ~Serving)
=============================================================================
