------------------------------- MODULE Client -------------------------------
(***************************************************************************)
(* The Qt client of one user: NetworkManager, the pages that log in and    *)
(* register, and the GateServer's HTTP side that answers them.             *)
(*                                                                         *)
(* Everything in the client runs in the Qt event loop, one handler at a    *)
(* time, and emitted signals run their QML handlers at once.  Requests are *)
(* independent of each other: several may be in flight, answered in any    *)
(* order, while the user goes on.  A page that is replaced or popped no    *)
(* longer handles signals (its short exit transition is left out).         *)
(*                                                                         *)
(* Not here: what a connected session sends and receives (see GateServer), *)
(* and requests with an empty field, which are not sent.                   *)
(***************************************************************************)
EXTENDS HttpSession, SequencesExt

CONSTANTS
    Requests,   \* bound: slots for HTTP requests in flight
    MaxPages,   \* bound: depth of rootStack
    None        \* nobody

ASSUME MaxPagesAssumption == MaxPages \in Nat \ {0}
ASSUME NoneAssumption == None \notin Users

VARIABLES
    user,       \* m_currentUsername and m_currentUserId, None when empty
    socket,     \* m_webSocket, and the user of the token in its URL
    requests,   \* HTTP requests in flight
    pages       \* rootStack, the last page on top; is its button enabled?

clientVars == <<user, socket, requests, pages>>
vars == <<httpVars, clientVars>>

NoSocket == [state |-> "unconnected", user |-> None]
Idle == [endpoint |-> "none", user |-> None, reply |-> "none"]

Page == [page : {"login", "register", "main"}, enabled : BOOLEAN]
New(p) == [page |-> p, enabled |-> TRUE]
Top == Last(pages)
Push(p) == Append(pages, New(p))
Replace(p) == Append(Front(pages), New(p))

\* The buttons of all living pages of a kind are enabled.
Enable(kinds) ==
    [i \in DOMAIN pages |->
        IF pages[i].page \in kinds THEN [pages[i] EXCEPT !.enabled = TRUE] ELSE pages[i]]

-----------------------------------------------------------------------------
(* What the user does *)

\* abort() emits disconnected at once, which clears the user, too.
DisconnectFromServer == socket' = NoSocket /\ user' = None

Send(r, endpoint, u) ==
    /\ requests[r] = Idle
    /\ requests' = [requests EXCEPT ![r] = [endpoint |-> endpoint, user |-> u,
                                            reply |-> "pending"]]

\* By the button, or by the return key in a field, which also works while the
\* button is disabled.
ClickLogin(r, u) ==
    /\ Top.page = "login"
    /\ pages' = [pages EXCEPT ![Len(pages)].enabled = FALSE]
    /\ DisconnectFromServer
    /\ Send(r, "/login", u)
    /\ UNCHANGED httpVars

OpenRegisterPage ==
    /\ Top.page = "login"
    /\ Len(pages) < MaxPages
    /\ pages' = Push("register")
    /\ UNCHANGED <<httpVars, user, socket, requests>>

\* By the button or the return key, too.
ClickRegister(r, u) ==
    /\ Top.page = "register"
    /\ pages' = [pages EXCEPT ![Len(pages)].enabled = FALSE]
    /\ DisconnectFromServer
    /\ Send(r, "/register", u)
    /\ UNCHANGED httpVars

BackToLogin ==
    /\ Top.page = "register"
    /\ pages' = Front(pages)
    /\ UNCHANGED <<httpVars, user, socket, requests>>

Logout ==
    /\ Top.page = "main"
    /\ pages' = Replace("login")
    /\ DisconnectFromServer
    /\ UNCHANGED <<httpVars, requests>>

-----------------------------------------------------------------------------
(* HTTP *)

ServerAnswers(r) ==
    /\ requests[r].reply = "pending"
    /\ \E reply \in {"success", "error"} :
         /\ OnRead(requests[r].endpoint, requests[r].user, reply)
         /\ requests' = [requests EXCEPT ![r].reply = reply]
    /\ UNCHANGED <<user, socket, pages>>

\* The request or its answer is lost, which the client sees as an error.
NetworkFails(r) ==
    /\ requests[r].reply \in {"pending", "success"}
    /\ requests' = [requests EXCEPT ![r].reply = "error"]
    /\ UNCHANGED <<httpVars, user, socket, pages>>

\* Defect: only the answers of the server are passed on.
ErrorIsLogged(r) ==
    /\ requests[r].reply = "error"
    /\ requests' = [requests EXCEPT ![r] = Idle]
    /\ UNCHANGED <<httpVars, user, socket, pages>>

\* onNetworkReplyFinished: the response signal of the endpoint, with failure.
OnNetworkError(r) ==
    /\ requests[r].reply = "error"
    /\ requests' = [requests EXCEPT ![r] = Idle]
    /\ pages' = Enable(IF requests[r].endpoint = "/login" THEN {"login"} ELSE {"register"})
    /\ UNCHANGED <<httpVars, user, socket>>

\* Defect: a socket that is open is kept.
KeepOpenSocket(u) ==
    IF socket.state = "unconnected"
    THEN socket' = [state |-> "connecting", user |-> u] /\ user' = u
    ELSE user' = u /\ UNCHANGED socket

\* An open socket is closed first. Qt emits disconnected within close() when
\* nothing is left to be written, which clears the user that was just set;
\* otherwise the old socket goes without a signal when the new one opens.
EstablishWebSocketConnection(u) ==
    /\ socket' = [state |-> "connecting", user |-> u]
    /\ user' \in IF socket.state = "unconnected" THEN {u} ELSE {u, None}

OnLoginSuccess(r) ==
    /\ requests[r].endpoint = "/login"
    /\ requests[r].reply = "success"
    /\ EstablishWebSocketConnection(requests[r].user)
    /\ requests' = [requests EXCEPT ![r] = Idle]
    /\ UNCHANGED <<httpVars, pages>>

\* A living RegisterPage, whichever request this answers, pops the stack.
OnRegisterSuccess(r) ==
    /\ requests[r].endpoint = "/register"
    /\ requests[r].reply = "success"
    /\ pages' = IF Top.page = "register" THEN Front(pages) ELSE pages
    /\ requests' = [requests EXCEPT ![r] = Idle]
    /\ UNCHANGED <<httpVars, user, socket>>

-----------------------------------------------------------------------------
(* The WebSocket *)

\* Defect: the main page goes on top of the page that is there.
PushMainPage ==
    /\ socket.state = "connecting"
    /\ socket' = [socket EXCEPT !.state = "connected"]
    /\ pages' = IF \E i \in DOMAIN pages : pages[i].page = "login"
                THEN Append(Enable({"login"}), New("main"))
                ELSE pages
    /\ UNCHANGED <<httpVars, user, requests>>

\* loginResponseReceived(true): each LoginPage on the stack enables its
\* button and has the top page, itself or another, replaced.
OnConnected ==
    /\ socket.state = "connecting"
    /\ socket' = [socket EXCEPT !.state = "connected"]
    /\ pages' = IF \E i \in DOMAIN pages : pages[i].page = "login"
                THEN Append(Front(Enable({"login"})), New("main"))
                ELSE pages
    /\ UNCHANGED <<httpVars, user, requests>>

\* onDisconnected and onError.
OnConnectFailed ==
    /\ socket.state = "connecting"
    /\ socket' = NoSocket
    /\ user' = None
    /\ pages' = Enable({"login", "register"})
    /\ UNCHANGED <<httpVars, requests>>

\* onDisconnected, and onError unless the server closed the session.
OnDisconnected ==
    /\ socket.state = "connected"
    /\ socket' = NoSocket
    /\ user' = None
    /\ pages' \in {pages, Enable({"login", "register"})}
    /\ UNCHANGED <<httpVars, requests>>

-----------------------------------------------------------------------------

Init ==
    /\ HttpInit
    /\ user = None
    /\ socket = NoSocket
    /\ requests = [r \in Requests |-> Idle]
    /\ pages = << New("login") >>

UserActs ==
    \/ \E r \in Requests, u \in Users : ClickLogin(r, u) \/ ClickRegister(r, u)
    \/ OpenRegisterPage
    \/ BackToLogin
    \/ Logout

\* onNetworkReplyFinished: the event loop has an answer or an error.
ReplyFinished(r) == OnNetworkError(r) \/ OnLoginSuccess(r) \/ OnRegisterSuccess(r)

Next ==
    \/ UserActs
    \/ \E r \in Requests : ServerAnswers(r) \/ NetworkFails(r) \/ ReplyFinished(r)
    \/ OnConnected \/ OnConnectFailed \/ OnDisconnected
    \/ Tick /\ UNCHANGED clientVars

Spec == Init /\ [][Next]_vars

\* The event loop runs the handlers of what has arrived. Nothing has to arrive:
\* the client sets no timeout, and a Gate whose io thread is stuck keeps its
\* connections and says nothing.
Fairness == \A r \in Requests : WF_vars(ReplyFinished(r))

FairSpec == Spec /\ Fairness

-----------------------------------------------------------------------------
(* Properties *)

\* Every variable keeps its type.
TypeOK ==
    /\ HttpTypeOK
    /\ user \in Users \cup {None}
    /\ socket \in [state : {"connecting", "connected"}, user : Users] \cup {NoSocket}
    /\ requests \in [Requests -> [endpoint : Endpoints, user : Users,
                                  reply : {"pending", "success", "error"}] \cup {Idle}]
    /\ pages \in Seq(Page)
    /\ pages # << >>

\* The user whom the pages show is the one whom the server takes the session
\* for, whatever the order of late login answers, logouts and reconnections.
ShownUserOwnsSession ==
    user # None => socket.state # "unconnected" /\ socket.user = user

\* Only login pages lie below the top: a register page never survives below
\* the main page, where the late answer to its request would pop that.
OnlyLoginPagesBelow ==
    \A i \in DOMAIN pages : i < Len(pages) => pages[i].page = "login"

\* Requests are answered or fail, and so do attempts to connect.
NothingHangs ==
    /\ \A r \in Requests : []<>(requests[r].reply # "pending")
    /\ []<>(socket.state # "connecting")

\* Once the user only waits, a disabled login button is enabled again or its
\* page goes, however answers are lost and connections fail, if nothing hangs
\* in a Gate that does not answer: the client itself would wait for ever. (On a
\* register page the user can abort the connection of a pending login, and
\* nothing enables that login page's button again.)
LoginButtonComesBack ==
    (/\ <>[][~UserActs]_vars
     /\ [](Top.page # "register")
     /\ NothingHangs)
        => <>[](\A i \in DOMAIN pages : pages[i].enabled)
=============================================================================
