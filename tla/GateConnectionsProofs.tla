----------------------- MODULE GateConnectionsProofs -----------------------
(***************************************************************************)
(* GateConnections, proved for any users, sessions, pool size and number   *)
(* of descriptors: one operation per HTTP connection, keep-alive, and that *)
(* the Gate with its connections implements GateServer, so that what is    *)
(* proved of GateServer holds of it.  The last part is about the Gate's    *)
(* other model, GateShutdown.                                              *)
(***************************************************************************)
EXTENDS GateConnections, GateServerProofs

\* Every variable of the connections keeps its type.
ConnTypeOK ==
    /\ listening \in BOOLEAN
    /\ armed \in BOOLEAN
    /\ backlog \in Seq(Sessions)
    /\ reads \in [Sessions -> Nat]
    /\ writes \in [Sessions -> Nat]
    /\ asked \in [Sessions -> BOOLEAN]
    /\ kept \in [Sessions -> BOOLEAN]

\* A connection that waits is new: it has no operation and no user yet.
WaitingIsNew ==
    \A i \in DOMAIN backlog : ~HasHttp(backlog[i]) /\ owner[backlog[i]] = NoUser

\* No connection waits in two places.
WaitsOnce == \A i, j \in DOMAIN backlog : backlog[i] = backlog[j] => i = j

\* What an answer says of keep-alive is what its request asked for.
AnswerSaysAsAsked == \A s \in Sessions : writes[s] > 0 => kept[s] = asked[s]

\* The inductive invariant. OneOperation needs WaitingIsNew for the connection
\* that is accepted, and WaitsOnce for those that go on waiting behind it.
ConnInv ==
    /\ ConnTypeOK
    /\ OneOperation
    /\ WaitingIsNew
    /\ WaitsOnce
    /\ AnswerSaysAsAsked

-----------------------------------------------------------------------------

\* What the kernel's queue is after another connection came.
LEMMA PushBacklog ==
    ASSUME NEW b \in Seq(Sessions), NEW s \in Sessions
    PROVE  /\ Append(b, s) \in Seq(Sessions)
           /\ DOMAIN b = 1..Len(b)
           /\ Len(b) \in Nat
           /\ DOMAIN Append(b, s) = 1..(Len(b) + 1)
           /\ Append(b, s)[Len(b) + 1] = s
           /\ \A i \in 1..Len(b) : Append(b, s)[i] = b[i]
  OBVIOUS

\* What it is after its first connection was accepted.
LEMMA PopBacklog ==
    ASSUME NEW b \in Seq(Sessions), b # << >>
    PROVE  /\ Tail(b) \in Seq(Sessions)
           /\ DOMAIN b = 1..Len(b)
           /\ Len(b) \in Nat \ {0}
           /\ Head(b) = b[1]
           /\ DOMAIN Tail(b) = 1..(Len(b) - 1)
           /\ \A i \in 1..(Len(b) - 1) : Tail(b)[i] = b[i + 1]
  OBVIOUS

-----------------------------------------------------------------------------
(* Every step of the connections is one of GateServer, or none. *)

\* The end of an HTTP connection leaves GateServer's state alone: whoever still
\* has an operation on it never got a user.
LEMMA CloseIsQuiet ==
    ASSUME OneOperation, NEW s \in Sessions, HasHttp(s), CloseConnection(s)
    PROVE  UNCHANGED vars
  <1>1. owner[s] = NoUser
    BY DEF OneOperation
  <1>. QED  BY <1>1 DEF CloseConnection, vars, sessVars, registryVars, connectionVars

\* The steps of an HTTP connection that touch GateServer's state: the upgrade,
\* and a peer whose loss ends the process.
LEMMA HttpSimulates ==
    ASSUME ConnTypeOK, OneOperation, NEW s \in Sessions, HttpStep(s)
    PROVE  [Next]_vars
  <1>0. reads[s] \in Nat /\ writes[s] \in Nat
    BY DEF ConnTypeOK
  <1>1. CASE AcceptConnection(s) \/ AnswerRequest(s) \/ RefuseUpgrade(s) \/ WriteAndRead(s)
    BY <1>1 DEF AcceptConnection, AnswerRequest, RefuseUpgrade, WriteAndRead
  <1>2. CASE AcceptLostPeer(s)
    BY <1>2 DEF AcceptLostPeer, Next
  <1>3. CASE ReadEnds(s)
    BY <1>0, <1>3, CloseIsQuiet DEF ReadEnds, RequestRead, HasHttp
  <1>4. CASE \E u \in Users : UpgradeConnection(s, u)
    BY <1>4 DEF UpgradeConnection, Next
  <1>5. CASE WriteAndClose(s)
    BY <1>0, <1>5, CloseIsQuiet DEF WriteAndClose, HasHttp
  <1>. QED  BY <1>1, <1>2, <1>3, <1>4, <1>5 DEF HttpStep

\* Every step of the Gate with its connections is one of GateServer or none.
LEMMA NextSimulates ==
    ASSUME ConnTypeOK, OneOperation, [ConnNext]_allVars
    PROVE  [Next]_vars
  <1>1. CASE \E s \in Sessions : PeerConnects(s)
    BY <1>1 DEF PeerConnects
  <1>2. CASE \E s \in Sessions : HttpStep(s)
    BY <1>2, HttpSimulates
  <1>3. CASE AcceptFails \/ UNCHANGED allVars
    BY <1>3 DEF AcceptFails, allVars
  <1>4. CASE SessionStep
    BY <1>4 DEF SessionStep, Next
  <1>5. CASE StartGate \/ StopGate \/ StopStuckGate \/ CrashGate
    BY <1>5 DEF StartGate, StopGate, StopStuckGate, CrashGate, Next
  <1>. QED  BY <1>1, <1>2, <1>3, <1>4, <1>5 DEF ConnNext

-----------------------------------------------------------------------------
(* The invariant of the connections *)

\* The initial states satisfy the inductive invariant.
LEMMA InitConnInv == ConnInit => ConnInv
  BY DEF ConnInit, Init, ConnInv, ConnTypeOK, OneOperation, WaitingIsNew, WaitsOnce,
         AnswerSaysAsAsked, HasHttp

\* A process that has ended has no connections.
LEMMA NoConnectionsInv ==
    ASSUME ConnInv, NoConnections
    PROVE  ConnInv'
  <1>. USE DEF NoConnections
  <1>1. ConnTypeOK'
    <2>1. listening' \in BOOLEAN /\ armed' \in BOOLEAN
      BY DEF ConnInv, ConnTypeOK
    <2>2. backlog' \in Seq(Sessions)
      OBVIOUS
    <2>3. reads' \in [Sessions -> Nat] /\ writes' \in [Sessions -> Nat]
      OBVIOUS
    <2>4. asked' \in [Sessions -> BOOLEAN] /\ kept' \in [Sessions -> BOOLEAN]
      OBVIOUS
    <2>. QED  BY <2>1, <2>2, <2>3, <2>4 DEF ConnTypeOK
  <1>2. OneOperation' /\ AnswerSaysAsAsked'
    BY DEF OneOperation, AnswerSaysAsAsked, HasHttp
  <1>3. WaitingIsNew' /\ WaitsOnce'
    BY DEF WaitingIsNew, WaitsOnce
  <1>. QED  BY <1>1, <1>2, <1>3 DEF ConnInv

\* A step that leaves connections and owners alone keeps it.
LEMMA QuietConnInv ==
    ASSUME ConnInv, UNCHANGED <<httpVars, backlog, owner>>, listening' \in BOOLEAN,
           armed' \in BOOLEAN
    PROVE  ConnInv'
  BY DEF ConnInv, ConnTypeOK, OneOperation, WaitingIsNew, WaitsOnce, AnswerSaysAsAsked,
         HasHttp, httpVars

\* The handlers of websocket sessions leave the owners alone.
LEMMA HandlerKeepsOwner ==
    ASSUME NEW s \in Sessions, Handler(s)
    PROVE  owner' = owner
  <1>1. CASE AcceptError(s) \/ ReadError(s) \/ HeartbeatTimeout(s)
    BY <1>1 DEF AcceptError, ReadError, HeartbeatTimeout, Fail
  <1>2. CASE Accept(s) \/ AcceptBuffered(s) \/ ReportOnline(s)
    BY <1>2 DEF Accept, AcceptBuffered, ReportOnline
  <1>3. CASE ReadSilent(s) \/ ReadReply(s) \/ \E u \in Users : ReadForward(s, u)
    BY <1>3 DEF ReadSilent, ReadReply, ReadForward, ReadAndSend
  <1>4. CASE HeartbeatSend(s) \/ \E status \in Statuses : ReportHangs(s, status)
    BY <1>4 DEF HeartbeatSend, ReportHangs, sessVars
  <1>. QED  BY <1>1, <1>2, <1>3, <1>4 DEF Handler

\* Another connection waits.
LEMMA PeerConnectsInv ==
    ASSUME ConnInv, NEW s \in Sessions, PeerConnects(s)
    PROVE  ConnInv'
  <1>1. /\ backlog' = Append(backlog, s)
        /\ backlog \in Seq(Sessions)
        /\ owner[s] = NoUser /\ ~HasHttp(s) /\ ~Waiting(s)
        /\ UNCHANGED <<owner, httpVars, listening, armed>>
    BY DEF PeerConnects, ConnInv, ConnTypeOK, vars, sessVars
  <1>2. /\ backlog' \in Seq(Sessions)
        /\ DOMAIN backlog = 1..Len(backlog)
        /\ Len(backlog) \in Nat
        /\ DOMAIN backlog' = 1..(Len(backlog) + 1)
        /\ backlog'[Len(backlog) + 1] = s
        /\ \A i \in 1..Len(backlog) : backlog'[i] = backlog[i]
    BY <1>1, PushBacklog
  <1>3. ConnTypeOK' /\ OneOperation' /\ AnswerSaysAsAsked'
    BY <1>1, <1>2 DEF ConnInv, ConnTypeOK, OneOperation, AnswerSaysAsAsked, HasHttp, httpVars
  <1>4. WaitingIsNew'
    <2>1. \A i \in DOMAIN backlog' : \/ i \in DOMAIN backlog /\ backlog'[i] = backlog[i]
                                     \/ backlog'[i] = s
      BY <1>2
    <2>. QED  BY <1>1, <2>1 DEF ConnInv, WaitingIsNew, HasHttp, httpVars
  <1>5. WaitsOnce'
    <2>1. \A i \in 1..Len(backlog) : backlog[i] # s
      BY <1>1, <1>2 DEF Waiting
    <2>. QED  BY <1>2, <2>1 DEF ConnInv, WaitsOnce
  <1>. QED  BY <1>3, <1>4, <1>5 DEF ConnInv

\* The first connection that waits is accepted: it had no operation yet, and
\* it is none of those that go on waiting.
LEMMA AcceptConnectionInv ==
    ASSUME ConnInv, NEW s \in Sessions, AcceptConnection(s)
    PROVE  ConnInv'
  <1>1. /\ backlog # << >> /\ backlog \in Seq(Sessions)
        /\ s = Head(backlog)
        /\ backlog' = Tail(backlog)
        /\ reads' = [reads EXCEPT ![s] = 1]
        /\ kept' = [kept EXCEPT ![s] = TRUE]
        /\ UNCHANGED <<owner, listening, armed, writes, asked>>
    BY DEF AcceptConnection, AcceptHandler, ConnInv, ConnTypeOK, vars, sessVars
  <1>2. /\ backlog' \in Seq(Sessions)
        /\ DOMAIN backlog = 1..Len(backlog)
        /\ Len(backlog) \in Nat \ {0}
        /\ s = backlog[1]
        /\ DOMAIN backlog' = 1..(Len(backlog) - 1)
        /\ \A i \in 1..(Len(backlog) - 1) : backlog'[i] = backlog[i + 1]
    BY <1>1, PopBacklog
  <1>3. ~HasHttp(s) /\ owner[s] = NoUser
    BY <1>2 DEF ConnInv, WaitingIsNew
  <1>4. reads \in [Sessions -> Nat] /\ writes \in [Sessions -> Nat]
    BY DEF ConnInv, ConnTypeOK
  <1>5. writes[s] = 0
    BY <1>3, <1>4 DEF HasHttp
  <1>6. ConnTypeOK'
    BY <1>1, <1>2 DEF ConnInv, ConnTypeOK
  <1>7. OneOperation'
    <2>1. ASSUME NEW t \in Sessions, t # s
          PROVE  reads'[t] + writes'[t] <= 1 /\ (HasHttp(t)' => owner'[t] = NoUser)
      BY <1>1, <1>4, <2>1 DEF ConnInv, OneOperation, HasHttp
    <2>2. reads'[s] + writes'[s] <= 1 /\ owner'[s] = NoUser
      BY <1>1, <1>3, <1>4, <1>5
    <2>. QED  BY <2>1, <2>2 DEF OneOperation
  <1>8. WaitingIsNew' /\ WaitsOnce'
    <2>1. \A i \in DOMAIN backlog' : i + 1 \in DOMAIN backlog /\ backlog'[i] = backlog[i + 1]
      BY <1>2
    <2>2. \A i \in DOMAIN backlog' : backlog'[i] # s
      BY <1>2, <2>1 DEF ConnInv, WaitsOnce
    <2>3. \A t \in Sessions : t # s => reads'[t] = reads[t] /\ writes'[t] = writes[t]
      BY <1>1, <1>4
    <2>4. \A i \in DOMAIN backlog' : backlog'[i] \in Sessions
      BY <1>2
    <2>5. WaitingIsNew'
      BY <1>1, <2>1, <2>2, <2>3, <2>4 DEF ConnInv, WaitingIsNew, HasHttp
    <2>6. WaitsOnce'
      BY <1>2, <2>1 DEF ConnInv, WaitsOnce
    <2>. QED  BY <2>5, <2>6
  <1>9. AnswerSaysAsAsked'
    <2>1. ASSUME NEW t \in Sessions, writes'[t] > 0
          PROVE  kept'[t] = asked'[t]
      <3>1. writes[t] > 0 /\ kept[t] = asked[t]
        BY <1>1, <2>1 DEF ConnInv, AnswerSaysAsAsked
      <3>2. t # s
        BY <1>5, <3>1
      <3>3. kept'[t] = kept[t]
        BY <1>1, <3>2 DEF ConnInv, ConnTypeOK
      <3>. QED  BY <1>1, <3>1, <3>3
    <2>. QED  BY <2>1 DEF AnswerSaysAsAsked
  <1>. QED  BY <1>6, <1>7, <1>8, <1>9 DEF ConnInv

\* What the end of one operation of connection s may change: at most one other
\* starts, and s has a user only when none does.
OperationEnds(s) ==
    /\ reads' \in [Sessions -> Nat] /\ writes' \in [Sessions -> Nat]
    /\ asked' \in [Sessions -> BOOLEAN] /\ kept' \in [Sessions -> BOOLEAN]
    /\ reads'[s] + writes'[s] <= 1
    /\ reads'[s] + writes'[s] > 0 => owner'[s] = owner[s]
    /\ writes'[s] > 0 => kept'[s] = asked'[s]
    /\ \A t \in Sessions : t # s =>
         /\ reads'[t] = reads[t] /\ writes'[t] = writes[t]
         /\ asked'[t] = asked[t] /\ kept'[t] = kept[t]
         /\ owner'[t] = owner[t]
    /\ UNCHANGED listenerVars

\* Such a step keeps the invariant.
LEMMA OperationInv ==
    ASSUME ConnInv, NEW s \in Sessions, HasHttp(s), OperationEnds(s)
    PROVE  ConnInv'
  <1>. USE DEF OperationEnds
  <1>1. /\ reads \in [Sessions -> Nat] /\ writes \in [Sessions -> Nat]
        /\ backlog \in Seq(Sessions) /\ backlog' = backlog
    BY DEF ConnInv, ConnTypeOK, listenerVars
  <1>2. ConnTypeOK'
    BY <1>1 DEF ConnInv, ConnTypeOK, listenerVars
  <1>3. owner[s] = NoUser
    BY DEF ConnInv, OneOperation
  <1>4. OneOperation'
    <2>1. ASSUME NEW t \in Sessions, t # s
          PROVE  reads'[t] + writes'[t] <= 1 /\ (HasHttp(t)' => owner'[t] = NoUser)
      BY <1>1, <2>1 DEF ConnInv, OneOperation, HasHttp
    <2>2. reads'[s] + writes'[s] <= 1 /\ (HasHttp(s)' => owner'[s] = NoUser)
      BY <1>1, <1>3 DEF HasHttp
    <2>. QED  BY <2>1, <2>2 DEF OneOperation
  <1>5. WaitingIsNew' /\ WaitsOnce'
    <2>1. \A i \in DOMAIN backlog : backlog[i] \in Sessions /\ backlog[i] # s
      BY <1>1 DEF ConnInv, WaitingIsNew
    <2>. QED  BY <1>1, <2>1 DEF ConnInv, WaitingIsNew, WaitsOnce, HasHttp
  <1>6. AnswerSaysAsAsked'
    BY <1>1 DEF ConnInv, AnswerSaysAsAsked
  <1>. QED  BY <1>2, <1>4, <1>5, <1>6 DEF ConnInv

\* The steps of a connection keep the invariant.
LEMMA HttpInv ==
    ASSUME ConnInv, TypeOK, NEW s \in Sessions, HttpStep(s)
    PROVE  ConnInv'
  <1>0. /\ reads \in [Sessions -> Nat] /\ writes \in [Sessions -> Nat]
        /\ asked \in [Sessions -> BOOLEAN] /\ kept \in [Sessions -> BOOLEAN]
        /\ owner \in [Sessions -> Users \cup {NoUser}]
        /\ reads[s] \in Nat /\ writes[s] \in Nat
        /\ reads[s] + writes[s] <= 1
    <2>1. reads \in [Sessions -> Nat] /\ writes \in [Sessions -> Nat]
      BY DEF ConnInv, ConnTypeOK
    <2>2. asked \in [Sessions -> BOOLEAN] /\ kept \in [Sessions -> BOOLEAN]
      BY DEF ConnInv, ConnTypeOK
    <2>3. owner \in [Sessions -> Users \cup {NoUser}]
      BY DEF TypeOK
    <2>4. reads[s] + writes[s] <= 1
      BY DEF ConnInv, OneOperation
    <2>. QED  BY <2>1, <2>2, <2>3, <2>4
  <1>1. reads[s] > 0 => reads[s] = 1 /\ writes[s] = 0 /\ HasHttp(s)
    BY <1>0 DEF HasHttp
  <1>2. writes[s] > 0 => reads[s] = 0 /\ writes[s] = 1 /\ HasHttp(s)
    BY <1>0 DEF HasHttp
  <1>3. CASE AcceptConnection(s)
    BY <1>3, AcceptConnectionInv
  <1>4. CASE AcceptLostPeer(s)
    BY <1>4, NoConnectionsInv DEF AcceptLostPeer
  <1>5. CASE ReadEnds(s)
    <2>1. HasHttp(s)
      BY <1>1, <1>5 DEF ReadEnds, RequestRead
    <2>2. OperationEnds(s)
      BY <1>0, <1>1, <1>5
         DEF ReadEnds, RequestRead, CloseConnection, sessVars, listenerVars, OperationEnds
    <2>. QED  BY <2>1, <2>2, OperationInv
  <1>6. CASE AnswerRequest(s) \/ RefuseUpgrade(s)
    <2>1. PICK keep \in BOOLEAN : Respond(s, keep)
      BY <1>6 DEF AnswerRequest, RefuseUpgrade
    <2>2. /\ reads[s] > 0
          /\ reads' = [reads EXCEPT ![s] = @ - 1]
          /\ UNCHANGED <<owner, listenerVars>>
      BY <1>6 DEF AnswerRequest, RefuseUpgrade, RequestRead, vars, sessVars
    <2>3. OperationEnds(s)
      BY <1>0, <1>1, <2>1, <2>2 DEF Respond, OperationEnds
    <2>. QED  BY <1>1, <2>2, <2>3, OperationInv
  <1>7. CASE \E u \in Users : UpgradeConnection(s, u)
    <2>1. HasHttp(s)
      BY <1>1, <1>7 DEF UpgradeConnection, RequestRead
    <2>2. OperationEnds(s)
      BY <1>0, <1>1, <1>7 DEF UpgradeConnection, RequestRead, Upgrade, OperationEnds
    <2>. QED  BY <2>1, <2>2, OperationInv
  <1>8. CASE WriteAndRead(s)
    <2>1. HasHttp(s)
      BY <1>2, <1>8 DEF WriteAndRead
    <2>2. OperationEnds(s)
      BY <1>0, <1>2, <1>8 DEF WriteAndRead, vars, sessVars, OperationEnds
    <2>. QED  BY <2>1, <2>2, OperationInv
  <1>9. CASE WriteAndClose(s)
    <2>1. HasHttp(s)
      BY <1>2, <1>9 DEF WriteAndClose
    <2>2. OperationEnds(s)
      BY <1>0, <1>2, <1>9 DEF WriteAndClose, CloseConnection, sessVars, OperationEnds
    <2>. QED  BY <2>1, <2>2, OperationInv
  <1>. QED
    BY <1>3, <1>4, <1>5, <1>6, <1>7, <1>8, <1>9 DEF HttpStep

\* Every step keeps the invariant.
LEMMA NextConnInv ==
    ASSUME ConnInv, TypeOK, [ConnNext]_allVars
    PROVE  ConnInv'
  <1>1. CASE \E s \in Sessions : PeerConnects(s)
    BY <1>1, PeerConnectsInv
  <1>2. CASE \E s \in Sessions : HttpStep(s)
    BY <1>2, HttpInv
  <1>3. CASE AcceptFails \/ UNCHANGED allVars
    BY <1>3, QuietConnInv
       DEF AcceptFails, allVars, vars, sessVars, connVars, listenerVars, ConnInv, ConnTypeOK
  <1>4. CASE SessionStep
    <2>1. owner' = owner
      BY <1>4, HandlerKeepsOwner DEF SessionStep, RecordLate, Tick, sessVars
    <2>. QED
      BY <1>4, <2>1, QuietConnInv DEF SessionStep, connVars, listenerVars, ConnInv, ConnTypeOK
  <1>5. CASE StartGate
    BY <1>5, QuietConnInv DEF StartGate, Start, sessVars, ConnInv, ConnTypeOK
  <1>6. CASE StopGate \/ CrashGate
    BY <1>6, NoConnectionsInv DEF StopGate, CrashGate
  <1>7. CASE StopStuckGate
    <2>1. /\ listening' = FALSE /\ armed' = FALSE
          /\ owner' = owner /\ backlog' = << >>
          /\ UNCHANGED httpVars
      BY <1>7 DEF StopStuckGate, StopStuck, sessVars
    <2>2. ConnTypeOK'
      <3>1. backlog' \in Seq(Sessions)
        BY <2>1
      <3>. QED  BY <2>1, <3>1 DEF ConnInv, ConnTypeOK, httpVars
    <2>3. OneOperation' /\ AnswerSaysAsAsked'
      BY <2>1 DEF ConnInv, OneOperation, AnswerSaysAsAsked, HasHttp, httpVars
    <2>4. WaitingIsNew' /\ WaitsOnce'
      BY <2>1 DEF WaitingIsNew, WaitsOnce
    <2>. QED  BY <2>2, <2>3, <2>4 DEF ConnInv
  <1>. QED  BY <1>1, <1>2, <1>3, <1>4, <1>5, <1>6, <1>7 DEF ConnNext

-----------------------------------------------------------------------------
(* The theorems *)

\* The invariants of connections and sessions hold together: each step of the
\* connections is one that keeps GateServer's types.
LEMMA ConnInvariantHolds == ConnSpec => [](ConnInv /\ IInv)
  <1>1. ConnInit => ConnInv /\ IInv
    BY InitConnInv, InitIInv DEF ConnInit
  <1>2. (ConnInv /\ IInv) /\ [ConnNext]_allVars => (ConnInv /\ IInv)'
    <2>. SUFFICES ASSUME ConnInv, IInv, [ConnNext]_allVars
                  PROVE  ConnInv' /\ IInv'
      OBVIOUS
    <2>1. [Next]_vars
      BY NextSimulates DEF ConnInv
    <2>2. IInv'
      BY <2>1, NextIInv
    <2>3. ConnInv'
      BY NextConnInv DEF IInv
    <2>. QED  BY <2>2, <2>3
  <1>. QED  BY <1>1, <1>2, PTL DEF ConnSpec

\* No http_session ever has two operations on its stream or one after the
\* upgrade, for any number of connections.
THEOREM OneOperationHolds == ConnSpec => []OneOperation
  BY ConnInvariantHolds, PTL DEF ConnInv

\* A connection is read again only when the request just answered asked for it.
THEOREM KeepAliveIsHonoured == ConnSpec => KeepAliveHonoured
  <1>. DEFINE Kept == \A s \in Sessions :
                        writes[s] > 0 /\ asked[s] = FALSE => reads'[s] = 0
  <1>1. ConnInv /\ [ConnNext]_allVars => [Kept]_allVars
    <2>. SUFFICES ASSUME ConnInv, ConnNext,
                         NEW s \in Sessions, writes[s] > 0, asked[s] = FALSE
                  PROVE  reads'[s] = 0
      OBVIOUS
    <2>1. /\ reads \in [Sessions -> Nat] /\ writes \in [Sessions -> Nat]
          /\ reads[s] = 0 /\ HasHttp(s) /\ kept[s] = FALSE
      BY DEF ConnInv, ConnTypeOK, OneOperation, AnswerSaysAsAsked, HasHttp
    <2>2. CASE UNCHANGED reads
      BY <2>1, <2>2
    <2>3. ASSUME NEW t \in Sessions, HttpStep(t)
          PROVE  reads'[s] = 0
      <3>1. CASE AcceptConnection(t)
        <4>1. backlog \in Seq(Sessions) /\ backlog # << >> /\ t = Head(backlog)
          BY <3>1 DEF AcceptConnection, AcceptHandler, ConnInv, ConnTypeOK
        <4>2. ~HasHttp(t)
          BY <4>1, PopBacklog DEF ConnInv, WaitingIsNew
        <4>3. t # s
          BY <2>1, <4>2
        <4>. QED  BY <2>1, <3>1, <4>3 DEF AcceptConnection
      <3>2. CASE AcceptLostPeer(t)
        BY <3>2 DEF AcceptLostPeer, NoConnections
      <3>3. CASE \/ ReadEnds(t) \/ AnswerRequest(t) \/ RefuseUpgrade(t)
                 \/ \E u \in Users : UpgradeConnection(t, u)
        <4>1. reads[t] > 0 /\ reads' = [reads EXCEPT ![t] = @ - 1]
          BY <3>3 DEF ReadEnds, AnswerRequest, RefuseUpgrade, UpgradeConnection, RequestRead
        <4>. QED  BY <2>1, <4>1
      <3>4. CASE WriteAndRead(t)
        <4>1. t # s
          BY <2>1, <3>4 DEF WriteAndRead
        <4>. QED  BY <2>1, <3>4, <4>1 DEF WriteAndRead
      <3>5. CASE WriteAndClose(t)
        BY <2>2, <3>5 DEF WriteAndClose
      <3>. QED  BY <2>3, <3>1, <3>2, <3>3, <3>4, <3>5 DEF HttpStep
    <2>4. CASE \/ \E t \in Sessions : PeerConnects(t)
               \/ AcceptFails \/ SessionStep \/ StopStuckGate \/ StartGate
      BY <2>2, <2>4 DEF PeerConnects, AcceptFails, SessionStep, StopStuckGate, StartGate,
                        allVars, connVars, httpVars
    <2>5. CASE StopGate \/ CrashGate
      BY <2>5 DEF StopGate, CrashGate, NoConnections
    <2>. QED  BY <2>3, <2>4, <2>5 DEF ConnNext
  <1>. QED  BY <1>1, ConnInvariantHolds, PTL DEF ConnSpec, KeepAliveHonoured

\* The Gate with its listener and HTTP connections implements GateServer.
THEOREM ConnectionsImplementGateServer == ConnSpec => ImplementsGateServer
  <1>1. ConnInit => Init
    BY DEF ConnInit
  <1>2. ConnInv /\ [ConnNext]_allVars => [Next]_vars
    BY NextSimulates DEF ConnInv
  <1>. QED  BY <1>1, <1>2, ConnInvariantHolds, PTL DEF ConnSpec, Spec, ImplementsGateServer

\* What is proved of the sessions alone holds of the whole Gate, with HTTP
\* requests, upgrades and lost peers as they come: a message is forwarded to an
\* open session, no StatusClient is lost, the tables agree, users are found and
\* listed, a record of ONLINE is true or known to be stale, and the first
\* message is the last.
THEOREM SessionsSafeWithConnections ==
    ConnSpec => []( /\ RegisteredSessionIsOpen /\ ClientPlacedOnce /\ NoClientLost
                    /\ MapsAgree /\ OpenSessionIsFound /\ OpenSessionsAreListed
                    /\ OnlineHasOpenSession /\ OneMessage )
  BY ConnectionsImplementGateServer, ForwardsToOpenSession, ClientsExclusive,
     ClientsConserved, MapsStayInverse, SessionsAreFound, SessionsAreListed,
     OnlineIsTrueOrLost, FirstMessageIsLast, PTL DEF ImplementsGateServer

\* The same for what no step may do: the Gate's StatusClients are a pool that
\* grows only in use, and only the one end of a session reports OFFLINE.
THEOREM StepsSafeWithConnections ==
    ConnSpec => ImplementsPool /\ GrowsWhenAllInUse /\ OfflineOnlyAtAnEnd
  BY ConnectionsImplementGateServer, PoolIsKept, PoolGrowsWithUse, EndsReportOnce, PTL
  DEF ImplementsGateServer

-----------------------------------------------------------------------------
(* The shutdown inside a handler: GateShutdown on variables of its own *)

VARIABLES phase, todo, locked, cleaning, open, met

Shutdown == INSTANCE GateShutdown

\* What the handlers do under a mutex and without, and the stages of
\* signalHandler.
Operations == {"initialize", "addSession", "query", "getSession", "removeSession"}
Steps == Operations \cup Shutdown!Calls
Cleanings == { <<"sessions", "database", "redis">>, <<"database", "redis">>,
               <<"redis">>, << >> }

\* Every variable of the shutdown keeps its type, and a mutex is held for an
\* operation.
ShutdownTypeOK ==
    /\ phase \in {"running", "interrupted", "stopping", "ended"}
    /\ todo \in Seq(Steps)
    /\ locked \in BOOLEAN
    /\ locked => todo # << >> /\ Head(todo) \in Operations
    /\ cleaning \in Cleanings
    /\ open \in SUBSET Shutdown!Managers
    /\ met \in {"nothing", "handler", "lock"}

\* The managers that signalHandler has gone through hold nothing while it runs:
\* the handler it interrupted does not go on.
CleanedStayEmpty ==
    phase = "interrupted" =>
        \A m \in open : \E i \in DOMAIN cleaning : cleaning[i] = m

\* A signal that met nothing leaves nobody who could fill a manager again.
NothingGoesOn ==
    met = "nothing" /\ phase # "running" =>
        /\ todo = << >>
        /\ phase # "interrupted" => open = {}

\* A signal that met a locked mutex has the manager of that mutex before it.
LockIsAhead ==
    met = "lock" =>
        /\ phase = "interrupted"
        /\ locked
        /\ \E i \in DOMAIN cleaning : cleaning[i] = Shutdown!ManagerOf(Head(todo))

\* The inductive invariant of the shutdown.
ShutdownInv ==
    /\ ShutdownTypeOK
    /\ phase = "running" => met = "nothing"
    /\ CleanedStayEmpty
    /\ NothingGoesOn
    /\ LockIsAhead

\* Every operation is one of a manager that signalHandler goes through.
LEMMA OperationHasManager ==
    ASSUME NEW o \in Operations
    PROVE  Shutdown!ManagerOf(o) \in Shutdown!Managers
  BY DEF Operations, Shutdown!ManagerOf, Shutdown!Managers

\* A handler is a sequence of operations and calls.
LEMMA HandlersType == Shutdown!Handlers \subseteq Seq(Steps)
  <1>1. \A x \in Steps : <<x>> \in Seq(Steps)
    OBVIOUS
  <1>2. \A x, y \in Steps : <<x, y>> \in Seq(Steps)
    OBVIOUS
  <1>5. \A x, y, z \in Steps : <<x, y, z>> \in Seq(Steps)
    OBVIOUS
  <1>3. /\ "initialize" \in Steps /\ "addSession" \in Steps
        /\ "query" \in Steps /\ "getSession" \in Steps /\ "removeSession" \in Steps
        /\ "report" \in Steps /\ "send" \in Steps
    BY DEF Steps, Operations, Shutdown!Calls
  <1>4. Shutdown!HttpHandlers \subseteq Seq(Steps)
    BY <1>1, <1>2, <1>3 DEF Shutdown!HttpHandlers
  <1>6. Shutdown!MessageHandlers \subseteq Seq(Steps)
    BY <1>1, <1>2, <1>3, <1>5 DEF Shutdown!MessageHandlers
  <1>7. Shutdown!SessionHandlers \subseteq Seq(Steps)
    BY <1>1, <1>2, <1>3, <1>5 DEF Shutdown!SessionHandlers
  <1>. QED  BY <1>4, <1>6, <1>7 DEF Shutdown!Handlers

\* The stages of signalHandler in order.
LEMMA NextStage ==
    ASSUME cleaning \in Cleanings, cleaning # << >>
    PROVE  /\ Tail(cleaning) \in Cleanings
           /\ \A i \in DOMAIN cleaning :
                \/ cleaning[i] = Head(cleaning)
                \/ \E j \in DOMAIN Tail(cleaning) : Tail(cleaning)[j] = cleaning[i]
  <1>1. CASE cleaning = <<"sessions", "database", "redis">>
    <2>1. Tail(cleaning) = <<"database", "redis">>
      BY <1>1
    <2>. QED  BY <1>1, <2>1 DEF Cleanings
  <1>2. CASE cleaning = <<"database", "redis">>
    <2>1. Tail(cleaning) = <<"redis">>
      BY <1>2
    <2>. QED  BY <1>2, <2>1 DEF Cleanings
  <1>3. CASE cleaning = <<"redis">>
    <2>1. Tail(cleaning) = << >>
      BY <1>3
    <2>. QED  BY <1>3, <2>1 DEF Cleanings
  <1>. QED  BY <1>1, <1>2, <1>3 DEF Cleanings

\* Every step keeps the invariant of the shutdown.
LEMMA NextShutdown ==
    ShutdownInv /\ [Shutdown!Next]_(Shutdown!vars) => ShutdownInv'
  <1>. SUFFICES ASSUME ShutdownInv, [Shutdown!Next]_(Shutdown!vars)
                PROVE  ShutdownInv'
    OBVIOUS
  <1>. USE DEF ShutdownInv, ShutdownTypeOK, CleanedStayEmpty, NothingGoesOn, LockIsAhead
  <1>1. CASE Shutdown!Dispatch
    <2>1. todo' \in Seq(Steps)
      BY <1>1, HandlersType DEF Shutdown!Dispatch
    <2>2. ~locked
      BY <1>1 DEF Shutdown!Dispatch
    <2>. QED  BY <1>1, <2>1, <2>2 DEF Shutdown!Dispatch
  <1>2. CASE Shutdown!Lock
    <2>1. Head(todo) \in Operations
      BY <1>2 DEF Shutdown!Lock, Steps
    <2>. QED  BY <1>2, <2>1 DEF Shutdown!Lock
  <1>3. CASE Shutdown!Operate
    <2>1. /\ phase \in {"running", "stopping"}
          /\ todo # << >>
          /\ todo' = Tail(todo) /\ todo' \in Seq(Steps)
          /\ locked' = FALSE
          /\ UNCHANGED <<phase, cleaning, met>>
      BY <1>3 DEF Shutdown!Operate
    <2>2. open' \in SUBSET Shutdown!Managers
      <3>1. Head(todo) \in Operations
        BY <1>3 DEF Shutdown!Operate
      <3>3. {"sessions", "database", "redis"} \subseteq Shutdown!Managers
        BY DEF Shutdown!Managers
      <3>4. open' \in Shutdown!Effect(Head(todo))
        BY <1>3 DEF Shutdown!Operate
      <3>. QED  BY <3>1, <3>3, <3>4 DEF Shutdown!Effect, Operations
    <2>. QED  BY <2>1, <2>2
  <1>4. CASE Shutdown!SignalHandler
    <2>1. /\ phase = "running" /\ phase' = "interrupted"
          /\ cleaning' = <<"sessions", "database", "redis">>
          /\ met' = IF locked THEN "lock" ELSE IF todo # << >> THEN "handler" ELSE "nothing"
          /\ UNCHANGED <<todo, locked, open>>
      BY <1>4 DEF Shutdown!SignalHandler, Shutdown!handlerVars
    <2>2. \A m \in Shutdown!Managers : \E i \in DOMAIN cleaning' : cleaning'[i] = m
      BY <2>1 DEF Shutdown!Managers
    <2>3. locked => Shutdown!ManagerOf(Head(todo)) \in Shutdown!Managers
      <3>1. locked => Head(todo) \in Operations
        OBVIOUS
      <3>. QED  BY <3>1, OperationHasManager
    <2>4. CleanedStayEmpty'
      BY <2>1, <2>2
    <2>5. LockIsAhead'
      BY <2>1, <2>2, <2>3
    <2>. QED  BY <2>1, <2>4, <2>5 DEF Cleanings
  <1>5. CASE Shutdown!CleanUp
    <2>1. /\ phase = "interrupted" /\ cleaning # << >>
          /\ ~(locked /\ Shutdown!ManagerOf(Head(todo)) = Head(cleaning))
          /\ open' = open \ {Head(cleaning)}
          /\ cleaning' = Tail(cleaning)
          /\ UNCHANGED <<phase, todo, locked, met>>
      BY <1>5 DEF Shutdown!CleanUp, Shutdown!handlerVars
    <2>2. /\ cleaning' \in Cleanings
          /\ \A i \in DOMAIN cleaning :
               \/ cleaning[i] = Head(cleaning)
               \/ \E j \in DOMAIN cleaning' : cleaning'[j] = cleaning[i]
      BY <2>1, NextStage
    <2>3. CleanedStayEmpty'
      BY <2>1, <2>2
    <2>4. LockIsAhead'
      BY <2>1, <2>2
    <2>. QED  BY <2>1, <2>2, <2>3, <2>4
  <1>6. CASE Shutdown!Resume
    <2>1. /\ phase = "interrupted" /\ phase' = "stopping" /\ cleaning = << >>
          /\ UNCHANGED <<todo, locked, cleaning, open, met>>
      BY <1>6 DEF Shutdown!Resume, Shutdown!handlerVars
    <2>2. open = {} /\ met # "lock"
      <3>1. DOMAIN cleaning = {}
        BY <2>1
      <3>. QED  BY <2>1, <3>1
    <2>. QED  BY <2>1, <2>2
  <1>7. CASE Shutdown!Return
    BY <1>7 DEF Shutdown!Return, Shutdown!handlerVars
  <1>9. CASE Shutdown!ReportReturns
    <2>1. /\ phase \in {"running", "stopping"}
          /\ todo # << >> /\ ~locked
          /\ todo' = Tail(todo) /\ todo' \in Seq(Steps)
          /\ UNCHANGED <<phase, locked, cleaning, met>>
      BY <1>9 DEF Shutdown!ReportReturns, Operations
    <2>2. open' \in SUBSET Shutdown!Managers
      BY <1>9 DEF Shutdown!ReportReturns, Shutdown!Managers
    <2>. QED  BY <2>1, <2>2
  <1>8. CASE UNCHANGED Shutdown!vars
    BY <1>8 DEF Shutdown!vars, Shutdown!handlerVars
  <1>. QED
    BY <1>1, <1>2, <1>3, <1>4, <1>5, <1>6, <1>7, <1>8, <1>9
    DEF Shutdown!Next, Shutdown!Proceed

\* The invariant of the shutdown holds in every reachable state.
LEMMA ShutdownInvHolds == Shutdown!Spec => []ShutdownInv
  <1>1. Shutdown!Init => ShutdownInv
    <2>. SUFFICES ASSUME Shutdown!Init PROVE ShutdownInv
      OBVIOUS
    <2>1. todo \in Seq(Steps) /\ cleaning \in Cleanings
      BY DEF Shutdown!Init, Cleanings
    <2>2. open \in SUBSET Shutdown!Managers
      BY DEF Shutdown!Init, Shutdown!Managers
    <2>3. ShutdownTypeOK
      BY <2>1, <2>2 DEF Shutdown!Init, ShutdownTypeOK
    <2>. QED  BY <2>3
         DEF Shutdown!Init, ShutdownInv, CleanedStayEmpty, NothingGoesOn, LockIsAhead
  <1>. QED  BY <1>1, NextShutdown, PTL DEF Shutdown!Spec

\* After a signal that met no handler, no manager holds anything when the
\* io_context is destroyed: nobody can fill one that was cleaned before.
THEOREM CleanAfterIdleSignal == Shutdown!Spec => []Shutdown!CleanBetweenHandlers
  <1>1. ShutdownInv => Shutdown!CleanBetweenHandlers
    BY DEF ShutdownInv, NothingGoesOn, Shutdown!CleanBetweenHandlers
  <1>. QED  BY <1>1, ShutdownInvHolds, PTL

\* signalHandler waits for a mutex of the thread that it runs on.
WaitsForItself == phase = "interrupted" /\ met = "lock"

\* A signal that meets the io thread with any of the three mutexes held is the
\* end of a graceful shutdown: signalHandler never returns, wherever in the
\* handler the signal came and whatever the managers hold.
THEOREM LockedNeverEnds ==
    Shutdown!Spec => [](met = "lock" => []WaitsForItself)
  <1>1. ShutdownInv /\ met = "lock" => WaitsForItself
    BY DEF ShutdownInv, LockIsAhead, WaitsForItself
  <1>2. ShutdownInv /\ WaitsForItself /\ [Shutdown!Next]_(Shutdown!vars) => WaitsForItself'
    <2>. SUFFICES ASSUME ShutdownInv, WaitsForItself, [Shutdown!Next]_(Shutdown!vars)
                  PROVE  WaitsForItself'
      OBVIOUS
    <2>1. met' = "lock"
      BY DEF WaitsForItself, Shutdown!Next, Shutdown!Proceed, Shutdown!Dispatch, Shutdown!Lock,
             Shutdown!Operate, Shutdown!SignalHandler, Shutdown!CleanUp, Shutdown!Resume,
             Shutdown!Return, Shutdown!ReportReturns, Shutdown!vars
    <2>2. ShutdownInv'
      BY NextShutdown
    <2>. QED  BY <2>1, <2>2 DEF ShutdownInv, LockIsAhead, WaitsForItself
  <1>3. Shutdown!Spec => [][Shutdown!Next]_(Shutdown!vars)
    BY DEF Shutdown!Spec
  <1>. QED  BY <1>1, <1>2, <1>3, ShutdownInvHolds, PTL
=============================================================================
