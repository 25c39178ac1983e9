---------------------------- MODULE GateShutdown ----------------------------
(***************************************************************************)
(* The Gate's shutdown inside a handler.  signalHandler is an asynchronous *)
(* signal handler: it runs on the thread that it interrupts, the one that  *)
(* runs ioc.run(), wherever that thread is.  It stops the listener and the *)
(* io_context and then goes through three managers, locking the mutex of   *)
(* each.  The interrupted handler goes on when signalHandler has returned, *)
(* ioc.run() returns when that handler has ended, and main leaves its      *)
(* block, which destroys the io_context.  GateServer models the signal     *)
(* that comes between two handlers.                                        *)
(*                                                                         *)
(* A manager's operation takes two steps, between which its mutex is held. *)
(* A handler may also be in a call that locks none of the three mutexes    *)
(* and need not end: a report to StatusServer, a message that is sent.     *)
(* Left out: mutexes that signalHandler does not lock, those of Asio, of   *)
(* the logger and of malloc, a second signal, and what becomes of a vector *)
(* that signalHandler clears while an operation of Redis changes it.       *)
(***************************************************************************)
EXTENDS Sequences

VARIABLES
    phase,      \* "running", "interrupted" (signalHandler runs), "stopping", "ended"
    todo,       \* the operations and calls that the handler has yet to make
    locked,     \* does it hold the mutex of the first of them?
    cleaning,   \* the managers that signalHandler has yet to go through
    open,       \* the managers that hold something: sessions, connections
    met         \* history: what the signal interrupted

handlerVars == <<todo, locked>>
vars == <<phase, handlerVars, cleaning, open, met>>

Managers == {"sessions", "database", "redis"}

ManagerOf(operation) ==
    CASE operation = "initialize" -> "redis"
      [] operation = "query" -> "database"
      [] operation \in {"addSession", "getSession", "removeSession"} -> "sessions"

\* What the handlers of http_session do: /login and /health; /register; an upgrade.
HttpHandlers == { <<"query">>, <<"query", "query">>, <<"initialize", "addSession">> }

\* A message that is answered or echoed, a heartbeat; a search; a text message
\* for a user with a session, for one without.
MessageHandlers ==
    { <<"send">>, <<"query", "send">>, <<"query", "getSession", "send">>,
      <<"query", "getSession">> }

\* The ONLINE report; fail() with a client and, when it runs again, without one;
\* the timeout of a heartbeat, which reports once more.
SessionHandlers ==
    { <<"report">>, <<"report", "removeSession">>, <<"removeSession">>,
      <<"report", "report", "removeSession">> }

Handlers == HttpHandlers \cup MessageHandlers \cup SessionHandlers

\* send_message waits for its own queue_mutex_ (GateServer's SendMessage).
Calls == {"report", "send"}

-----------------------------------------------------------------------------
(* The io thread *)

Dispatch ==
    /\ phase = "running"
    /\ todo = << >>
    /\ todo' \in Handlers
    /\ UNCHANGED <<phase, locked, cleaning, open, met>>

Lock ==
    /\ phase \in {"running", "stopping"}
    /\ todo # << >>
    /\ Head(todo) \notin Calls
    /\ ~locked
    /\ locked' = TRUE
    /\ UNCHANGED <<phase, todo, cleaning, open, met>>

\* initialize fills the pool (Redis is there), or has done so; a query connects
\* when there is no connection, or fails to; the session that is removed may be
\* the last.
Effect(operation) ==
    CASE operation = "initialize" -> {open, open \cup {"redis"}}
      [] operation = "addSession" -> {open \cup {"sessions"}}
      [] operation = "query" -> {open \cup {"database"}, open \ {"database"}}
      [] operation = "removeSession" -> {open, open \ {"sessions"}}
      [] operation = "getSession" -> {open}

Operate ==
    /\ phase \in {"running", "stopping"}
    /\ locked
    /\ open' \in Effect(Head(todo))
    /\ todo' = Tail(todo)
    /\ locked' = FALSE
    /\ UNCHANGED <<phase, cleaning, met>>

\* A report that comes back: a call without a deadline and, when StatusServer
\* has recorded it, two hset. They take a connection from the pool and give it,
\* or a new one, back, under another mutex than disconnect's. A send_message
\* does not come back.
ReportReturns ==
    /\ phase \in {"running", "stopping"}
    /\ todo # << >>
    /\ Head(todo) = "report"
    /\ open' \in {open, open \cup {"redis"}, open \ {"redis"}}
    /\ todo' = Tail(todo)
    /\ UNCHANGED <<phase, locked, cleaning, met>>

-----------------------------------------------------------------------------
(* signalHandler, on the same thread *)

\* Defect: the sessions are not cleaned up.
InterruptOnly ==
    /\ phase = "running"
    /\ phase' = "interrupted"
    /\ cleaning' = <<"database", "redis">>
    /\ met' = IF locked THEN "lock" ELSE IF todo # << >> THEN "handler" ELSE "nothing"
    /\ UNCHANGED <<handlerVars, open>>

\* The listener and the io_context are stopped without waiting for anything.
SignalHandler ==
    /\ phase = "running"
    /\ phase' = "interrupted"
    /\ cleaning' = <<"sessions", "database", "redis">>
    /\ met' = IF locked THEN "lock" ELSE IF todo # << >> THEN "handler" ELSE "nothing"
    /\ UNCHANGED <<handlerVars, open>>


\* cleanup() or disconnect(): it waits for the mutex.
CleanUp ==
    /\ phase = "interrupted"
    /\ cleaning # << >>
    /\ ~(locked /\ ManagerOf(Head(todo)) = Head(cleaning))
    /\ open' = open \ {Head(cleaning)}
    /\ cleaning' = Tail(cleaning)
    /\ UNCHANGED <<phase, handlerVars, met>>

Resume ==
    /\ phase = "interrupted"
    /\ cleaning = << >>
    /\ phase' = "stopping"
    /\ UNCHANGED <<handlerVars, cleaning, open, met>>

\* ioc.run() returns after the handler that was interrupted, and main after it.
Return ==
    /\ phase = "stopping"
    /\ todo = << >>
    /\ phase' = "ended"
    /\ UNCHANGED <<handlerVars, cleaning, open, met>>

-----------------------------------------------------------------------------

\* main has connected to the database and to Redis before ioc.run().
Init ==
    /\ phase = "running"
    /\ todo = << >>
    /\ locked = FALSE
    /\ cleaning = << >>
    /\ open = {"database", "redis"}
    /\ met = "nothing"

Proceed == Lock \/ Operate \/ CleanUp \/ Resume \/ Return

Next == Dispatch \/ SignalHandler \/ Proceed \/ ReportReturns

Spec == Init /\ [][Next]_vars

\* The thread runs; nobody has to send a signal, and StatusServer and Redis do
\* not have to answer.
FairSpec == Spec /\ WF_vars(Proceed)

-----------------------------------------------------------------------------
(* Properties *)

Interrupted == phase # "running"

\* The interrupted handler has gone on and is in a call that need not end.
InCall == phase = "stopping" /\ todo # << >> /\ Head(todo) \in Calls


\* After a signal that met no handler, no manager holds anything when the
\* io_context is destroyed. (An upgrade that is interrupted registers its
\* session after the cleanup.)
CleanBetweenHandlers == phase = "ended" /\ met = "nothing" => open = {}
=============================================================================
