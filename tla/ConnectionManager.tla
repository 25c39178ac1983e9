------------------------- MODULE ConnectionManager -------------------------
(***************************************************************************)
(* ConnectionManager: the table behind /health, as a structure of its own  *)
(* that GateServer's handlers change.  Every function holds mutex_ from    *)
(* beginning to end and the handlers run on one thread, so that one call   *)
(* is one step.  IP addresses are left out: nobody passes or reads one.    *)
(* updateSessionActivity and cleanupExpiredSessions have no caller.        *)
(***************************************************************************)

CONSTANTS
    Users,      \* user IDs
    Sessions    \* session IDs; generate_session_id gives each one once

VARIABLES
    userSessions,   \* userSessions_: the session IDs of each user in the map
    sessionToUser   \* sessionToUser_

connectionVars == <<userSessions, sessionToUser>>

\* The empty map, and a map with one more entry or without one.
Nothing == [k \in {} |-> {}]
Put(map, k, v) == [j \in DOMAIN map \cup {k} |-> IF j = k THEN v ELSE map[j]]
Erase(map, k) == [j \in DOMAIN map \ {k} |-> map[j]]

\* getSessionCount counts them.
SessionsOf(u) == IF u \in DOMAIN userSessions THEN userSessions[u] ELSE {}

\* isUserOnline, getOnlineUsers
OnlineUsers == DOMAIN userSessions

RegistryInit ==
    /\ userSessions = Nothing
    /\ sessionToUser = Nothing

\* Defect: the user's session is replaced.
AddLatest(u, s) ==
    /\ userSessions' = Put(userSessions, u, {s})
    /\ sessionToUser' = Put(sessionToUser, s, u)

AddConnection(u, s) ==
    /\ userSessions' = Put(userSessions, u, SessionsOf(u) \cup {s})
    /\ sessionToUser' = Put(sessionToUser, s, u)

\* The session's reverse entry goes whichever user it names.
RemoveConnection(u, s) ==
    /\ userSessions' = IF SessionsOf(u) \ {s} = {}
                       THEN Erase(userSessions, u)
                       ELSE [userSessions EXCEPT ![u] = @ \ {s}]
    /\ sessionToUser' = Erase(sessionToUser, s)

-----------------------------------------------------------------------------

\* Types of the two maps.
RegistryTypeOK ==
    /\ DOMAIN userSessions \subseteq Users
    /\ \A u \in DOMAIN userSessions : userSessions[u] \subseteq Sessions
    /\ DOMAIN sessionToUser \subseteq Sessions
    /\ \A s \in DOMAIN sessionToUser : sessionToUser[s] \in Users

\* The two maps are each other's inverse, and every user that isUserOnline and
\* getOnlineUsers report has a session in the table.
MapsAgree ==
    /\ \A u \in Users, s \in Sessions :
         s \in SessionsOf(u) <=> s \in DOMAIN sessionToUser /\ sessionToUser[s] = u
    /\ \A u \in OnlineUsers : userSessions[u] # {}
=============================================================================
