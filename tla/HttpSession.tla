---------------------------- MODULE HttpSession ----------------------------
(***************************************************************************)
(* The HTTP side of one GateServer, as the requests of one client address  *)
(* meet it: RateLimiter, then the handlers of /login and /register.  One   *)
(* thread runs ioc.run(), so a request is handled in one step, its         *)
(* database statements included.                                           *)
(*                                                                         *)
(* Time is a clock of whole seconds, as is_allowed rounds it; what counts  *)
(* of it is the age of the window.  Every status but 200 is the reply      *)
(* "error".                                                                *)
(***************************************************************************)
EXTENDS FiniteSetsExt

CONSTANTS
    Users,          \* user names; the user id in a token stands for its name
    MaxRequests,    \* max_requests of is_allowed
    Window          \* window_seconds of is_allowed

ASSUME MaxRequestsAssumption == MaxRequests \in Nat \ {0}
ASSUME WindowAssumption == Window \in Nat

VARIABLES
    count,      \* request_counts_[ip].first, 0 when the address has no entry
    age,        \* seconds since request_counts_[ip].second, at most Window + 1
    recent,     \* history: requests allowed k seconds ago, for the last ones
    accounts    \* names in table users

limiterVars == <<count, age, recent>>
httpVars == <<limiterVars, accounts>>

Endpoints == {"/login", "/register"}

-----------------------------------------------------------------------------
(* RateLimiter::is_allowed *)

WindowExpired == count = 0 \/ age > Window

\* Defect: one request too many.
AllowOneMore == WindowExpired \/ count <= MaxRequests

IsAllowed == WindowExpired \/ count < MaxRequests

\* Defect: a new window does not count the request that opens it.
CountWithoutFirst ==
    /\ count' = IF WindowExpired THEN 0 ELSE count + 1
    /\ age' = IF WindowExpired THEN 0 ELSE age
    /\ recent' = [recent EXCEPT ![0] = @ + 1]

\* The start of the window stays, whether or not more requests come.
CountRequest ==
    /\ count' = IF WindowExpired THEN 1 ELSE count + 1
    /\ age' = IF WindowExpired THEN 0 ELSE age
    /\ recent' = [recent EXCEPT ![0] = @ + 1]

\* A second passes.
Tick ==
    /\ age' = Min({age + 1, Window + 1})
    /\ recent' = [k \in 0..Window |-> IF k = 0 THEN 0 ELSE recent[k - 1]]
    /\ UNCHANGED <<count, accounts>>

-----------------------------------------------------------------------------
(* on_read and the handlers *)

\* Too many requests. A refused request is not counted.
Refuse(reply) ==
    /\ ~IsAllowed
    /\ reply = "error"
    /\ UNCHANGED httpVars

\* The name has an account and the password is right. A database that fails
\* reads as an unknown user.
HandleLogin(u, reply) ==
    /\ IsAllowed
    /\ CountRequest
    /\ reply \in IF u \in accounts THEN {"success", "error"} ELSE {"error"}
    /\ UNCHANGED accounts

\* The name is free; createUser may fail, also when its INSERT was done.
HandleRegister(u, reply) ==
    /\ IsAllowed
    /\ CountRequest
    /\ \/ u \notin accounts /\ accounts' = accounts \cup {u}
       \/ reply = "error" /\ UNCHANGED accounts

OnRead(endpoint, u, reply) ==
    \/ Refuse(reply)
    \/ endpoint = "/login" /\ HandleLogin(u, reply)
    \/ endpoint = "/register" /\ HandleRegister(u, reply)

-----------------------------------------------------------------------------

HttpInit ==
    /\ count = 0
    /\ age = 0
    /\ recent = [k \in 0..Window |-> 0]
    /\ accounts \in SUBSET Users

\* Types of the four variables.
HttpTypeOK ==
    /\ count \in 0..MaxRequests
    /\ age \in 0..(Window + 1)
    /\ recent \in [0..Window -> Nat]
    /\ accounts \in SUBSET Users

\* The requests that a history counts in some of the last seconds.
AllowedIn(history, seconds) ==
    UNION {{k} \X (1..history[k]) : k \in seconds}

\* The window is fixed, not sliding: a client address may be served more than
\* max_requests times within window_seconds, but never more than twice that,
\* however its requests fall around the end of a window.
AtMostTwiceTheLimit ==
    Cardinality(AllowedIn(recent, 0..Window)) <= 2 * MaxRequests
=============================================================================
