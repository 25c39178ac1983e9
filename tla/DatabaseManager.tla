--------------------------- MODULE DatabaseManager ---------------------------
(***************************************************************************)
(* The MySQL connection of one process: DatabaseManager over the           *)
(* balancer's instances of "DatabaseService".                              *)
(*                                                                         *)
(* Every operation holds mutex_ from its connection check to its last      *)
(* statement, so there is one operation at a time; its attempts and        *)
(* statements are steps, because a database server may stop or come back   *)
(* between them.  Any attempt or statement may fail, also on a server that *)
(* is up: too many connections, a key already taken, an unknown user.      *)
(* mysql_ping does not reconnect (MYSQL_OPT_RECONNECT is off by default),  *)
(* so a connection whose server stopped is dead for ever.                  *)
(***************************************************************************)
EXTENDS LoadBalancer

CONSTANTS
    Registered, \* addresses that the process registers at startup, in order
    None        \* the address before the first attempt

ASSUME RegisteredAssumption == Registered \in Seq(Addresses) \ {<< >>}
ASSUME NoneAssumption == None \notin Addresses

VARIABLES
    connected,  \* connected_
    connection, \* connection_: "null", "live", or "dead" once its server stopped
    current,    \* currentHost_ and currentPort_
    operation,  \* what the holder of mutex_ does next, "idle" when it is free
    up,         \* addresses whose server is running
    failed      \* history: addresses where an attempt or a statement failed

dbVars == <<connected, connection, current, operation>>
vars == <<lbVars, dbVars, up, failed>>

\* A statement of DatabaseManager; the user lookup of createUser, which its
\* INSERT follows; a statement of StatusServiceImpl on the raw connection.
Statements == {"query", "lookup", "raw"}
\* A failure to be marked, with or without a statement still to come.
Failures == {"failed", "lookupFailed"}

-----------------------------------------------------------------------------

\* isConnected_impl() || connect_impl() on a connection that was made: when
\* the ping fails, connect_impl still finds connected_ set and returns true.
UseConnection(statement) ==
    /\ operation = "idle"
    /\ connected
    /\ operation' = statement
    /\ UNCHANGED <<lbVars, connected, connection, current, up, failed>>

Connect(statement) ==
    /\ operation = "idle"
    /\ ~connected
    /\ \E a \in up :
         /\ GetNextHealthyInstance(a)
         /\ current' = a
    /\ connected' = TRUE
    /\ connection' = "live"
    /\ operation' = statement
    /\ UNCHANGED <<up, failed>>

\* Defect: connected_ is set before the result is looked at.
ConnectFailsLate ==
    /\ operation = "idle"
    /\ ~connected
    /\ \E a \in Addresses :
         /\ GetNextHealthyInstance(a)
         /\ current' = a
         /\ failed' = failed \cup {a}
    /\ connected' = TRUE
    /\ operation' = "failed"
    /\ UNCHANGED <<connection, up>>

\* The operation itself fails, too. When no instance is healthy it fails
\* without an attempt, which changes nothing.
ConnectFails ==
    /\ operation = "idle"
    /\ ~connected
    /\ \E a \in Addresses :
         /\ GetNextHealthyInstance(a)
         /\ current' = a
         /\ failed' = failed \cup {a}
    /\ operation' = "failed"
    /\ UNCHANGED <<connected, connection, up>>

\* The user that createUser looks for is not there: the INSERT comes next.
StatementSucceeds ==
    /\ operation \in Statements
    /\ connection = "live"
    /\ operation' \in IF operation = "lookup" THEN {"idle", "query"} ELSE {"idle"}
    /\ UNCHANGED <<lbVars, connected, connection, current, up, failed>>

\* StatusServiceImpl only logs. A lookup that fails reads as "no such user".
StatementFails ==
    /\ operation \in Statements
    /\ failed' = failed \cup {current}
    /\ operation' = CASE operation = "raw" -> "idle"
                      [] operation = "lookup" -> "lookupFailed"
                      [] operation = "query" -> "failed"
    /\ UNCHANGED <<lbVars, connected, connection, current, up>>

MarkUnhealthy ==
    /\ operation \in Failures
    /\ UpdateHealthStatus(current, FALSE)
    /\ operation' = IF operation = "lookupFailed" THEN "query" ELSE "idle"
    /\ UNCHANGED <<connected, connection, current, up, failed>>

\* From the destructor and from GateServer's signal handler.
Disconnect ==
    /\ operation = "idle"
    /\ connection # "null"
    /\ connection' = "null"
    /\ connected' = FALSE
    /\ UNCHANGED <<lbVars, current, operation, up, failed>>

-----------------------------------------------------------------------------
(* The database servers *)

ServerStops(a) ==
    /\ a \in up
    /\ up' = up \ {a}
    /\ connection' = IF connected /\ current = a THEN "dead" ELSE connection
    /\ UNCHANGED <<lbVars, connected, current, operation, failed>>

ServerStarts(a) ==
    /\ up' = up \cup {a}
    /\ a \notin up
    /\ UNCHANGED <<lbVars, dbVars, failed>>

-----------------------------------------------------------------------------

Init ==
    /\ LBInit(Registered)
    /\ connected = FALSE
    /\ connection = "null"
    /\ current = None
    /\ operation = "idle"
    /\ up \in SUBSET Addresses
    /\ failed = {}

Request == ConnectFails \/ \E statement \in Statements :
                              UseConnection(statement) \/ Connect(statement)
Proceed == StatementSucceeds \/ StatementFails \/ MarkUnhealthy

Next ==
    \/ Request
    \/ Proceed
    \/ Disconnect
    \/ \E a \in Addresses : ServerStops(a) \/ ServerStarts(a)

Spec == Init /\ [][Next]_vars

\* Requests keep coming, and an operation that has begun comes to its end
\* (a statement is answered, or its TCP connection fails in the end).
Fairness == WF_vars(Request) /\ WF_vars(Proceed)
FairSpec == Spec /\ Fairness

-----------------------------------------------------------------------------
(* Properties *)

\* Every variable keeps its type, and the balancer's index its range.
TypeOK ==
    /\ LBTypeOK
    /\ index < Len(instances)
    /\ connected \in BOOLEAN
    /\ connection \in {"null", "live", "dead"}
    /\ current \in Addresses \cup {None}
    /\ operation \in Statements \cup Failures \cup {"idle"}
    /\ up \in SUBSET Addresses
    /\ failed \in SUBSET (Addresses \cup {None})

\* No statement runs on a null connection, whatever fails in between:
\* connected_ and connection_ agree whenever mutex_ is free or a statement
\* is about to run.
StatementsHaveConnection ==
    /\ connected <=> connection # "null"
    /\ operation \in Statements => connection # "null" /\ current # None

\* Only an instance where something failed is marked unhealthy, although the
\* round-robin index counts healthy instances and the marks count all: while
\* an instance has never failed, connecting is not given up.
UnhealthyInstancesFailed ==
    \A i \in DOMAIN instances : ~instances[i].isHealthy => instances[i].addr \in failed

\* However attempts fail, operations do not try for ever: the process is
\* connected again and again, or no instance is left to try.
ConnectsOrGivesUp ==
    []<>(connected \/ HealthyInstances = {})

\* "Health check and failover" (the class comment): while requests keep coming
\* and every registered server runs again, a connection whose server has stopped
\* is replaced. The code does not do this: connected_ is still set, and so
\* nothing is connected anew.
DeadConnectionIsReplaced ==
    <>[](\A i \in DOMAIN Registered : Registered[i] \in up)
        => (connection = "dead" ~> connection # "dead")
=============================================================================
