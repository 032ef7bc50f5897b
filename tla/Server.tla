------------------------------- MODULE Server -------------------------------
(***************************************************************************)
(* One node of the application (cmd/service.go serve, httpserver/server.go *)
(* HTTPServer): the main goroutine starts the domain service, whose worker *)
(* is a Runner, launches the goroutine that listens, waits for SIGINT and  *)
(* stops them.  The service is the orders service; the notifier's Stop     *)
(* closes no publisher.                                                    *)
(***************************************************************************)
EXTENDS Runner

CONSTANTS Main,         \* the main goroutine, the only caller of Stop
          Requests      \* HTTP requests

ASSUME ServerAssumption == Callers = {Main}

VARIABLES main,         \* where the main goroutine stands
          listener,     \* the listening goroutine
          started,      \* h.started
          shutdown,     \* http.Server is shutting down
          active,       \* requests whose handler runs
          answered,     \* requests that have been answered
          closed        \* the relay's publisher is closed

serverVars == <<main, listener, started, shutdown, active, answered, closed>>
vars == <<runnerVars, serverVars>>

ServerTypeOK ==
    /\ main \in {"new", "starting", "spawn", "waiting", "stop", "shutdown", "draining",
                 "service", "returned", "error", "exited"}
    /\ listener \in {"none", "spawned", "flagged", "open", "closed"}
    /\ started \in BOOLEAN /\ shutdown \in BOOLEAN /\ closed \in BOOLEAN
    /\ active \subseteq Requests /\ answered \subseteq Requests

Init ==
    /\ RunnerInit
    /\ main = "new" /\ listener = "none"
    /\ started = FALSE /\ shutdown = FALSE /\ closed = FALSE
    /\ active = {} /\ answered = {}

\* HTTPServer.Start: the service is started first; without a broker it is
\* not, and serve returns.
PingFails ==
    /\ main = "new"
    /\ main' = "error"
    /\ UNCHANGED <<runnerVars, listener, started, shutdown, active, answered, closed>>

StartService ==
    /\ \/ main = "new" /\ StartAssign /\ main' = "starting"
       \/ main = "starting" /\ StartGo /\ main' = "spawn"
    /\ UNCHANGED <<listener, started, shutdown, active, answered, closed>>

Spawn ==
    /\ main = "spawn"
    /\ main' = "waiting"
    /\ listener' = "spawned"
    /\ UNCHANGED <<runnerVars, started, shutdown, active, answered, closed>>

\* The listening goroutine raises the flag, then listens: not on a server
\* that is shutting down, nor on an address in use.
MarkStarted ==
    /\ listener = "spawned"
    /\ started' = TRUE
    /\ listener' = "flagged"
    /\ UNCHANGED <<runnerVars, main, shutdown, active, answered, closed>>

ListenAndServe ==
    /\ listener = "flagged"
    /\ \/ ~shutdown /\ listener' = "open"
       \/ listener' = "closed"
    /\ UNCHANGED <<runnerVars, main, started, shutdown, active, answered, closed>>

Accept(r) ==
    /\ listener = "open" /\ r \notin active \cup answered
    /\ active' = active \cup {r}
    /\ UNCHANGED <<runnerVars, main, listener, started, shutdown, answered, closed>>

Respond(r) ==
    /\ r \in active
    /\ active' = active \ {r}
    /\ answered' = answered \cup {r}
    /\ UNCHANGED <<runnerVars, main, listener, started, shutdown, closed>>

Interrupt ==
    /\ main = "waiting"
    /\ main' = "stop"
    /\ UNCHANGED <<runnerVars, listener, started, shutdown, active, answered, closed>>

\* HTTPServer.Stop does nothing unless the flag is up.
Stop ==
    /\ main = "stop"
    /\ main' = IF started THEN "shutdown" ELSE "returned"
    /\ started' = FALSE
    /\ UNCHANGED <<runnerVars, listener, shutdown, active, answered, closed>>

\* http.Server.Shutdown: the listener is closed, then the running handlers
\* are waited for, five seconds at most; after a timeout the service is not
\* stopped.
Shutdown ==
    /\ main = "shutdown"
    /\ main' = "draining"
    /\ shutdown' = TRUE
    /\ listener' = IF listener = "open" THEN "closed" ELSE listener
    /\ UNCHANGED <<runnerVars, started, active, answered, closed>>

\* Mutant: the service is stopped while handlers run.
DrainedNot ==
    /\ main = "draining"
    /\ main' = "service"
    /\ CallStop(Main)
    /\ UNCHANGED <<listener, started, shutdown, active, answered, closed>>

Drained ==
    /\ main = "draining" /\ active = {}
    /\ main' = "service"
    /\ CallStop(Main)
    /\ UNCHANGED <<listener, started, shutdown, active, answered, closed>>

DrainTimeout ==
    /\ main = "draining" /\ active # {}
    /\ main' = "error"
    /\ UNCHANGED <<runnerVars, listener, started, shutdown, active, answered, closed>>

\* Mutant: the publisher is closed without joining the loop.
CloseFirst ==
    /\ main = "service"
    /\ main' = "returned"
    /\ closed' = TRUE
    /\ UNCHANGED <<runnerVars, listener, started, shutdown, active, answered>>

\* OutboxRelayer.Stop closes the publisher once the loop has been joined.
StopService ==
    /\ main = "service" /\ spc[Main] = "done"
    /\ main' = "returned"
    /\ closed' = TRUE
    /\ UNCHANGED <<runnerVars, listener, started, shutdown, active, answered>>

\* serve returns, and the process ends with whatever still runs.
Exit ==
    /\ main \in {"returned", "error"}
    /\ main' = "exited"
    /\ UNCHANGED <<runnerVars, listener, started, shutdown, active, answered, closed>>

MainStep ==
    \/ StartService \/ Spawn \/ Stop \/ Shutdown \/ Drained \/ DrainTimeout \/ StopService \/ Exit
    \/ StopStep(Main) /\ UNCHANGED serverVars

Next ==
    /\ main # "exited"
    /\ \/ MainStep \/ PingFails \/ Interrupt
       \/ MarkStarted \/ ListenAndServe
       \/ LoopReturns /\ UNCHANGED serverVars
       \/ \E r \in Requests : Accept(r) \/ Respond(r)

\* The main goroutine is scheduled.  Nothing is assumed of the handlers, the
\* listener and the signal, nor of the worker's loop: a relay that is told to
\* stop first ends its drain, and need not get to the end of it (RelaySystem,
\* StopReturns).
Spec == Init /\ [][Next]_vars /\ WF_vars(main # "exited" /\ MainStep)

-----------------------------------------------------------------------------
\* The worker is told to stop only when no handler runs and none can start:
\* whatever the requests enqueued, they enqueued it before the drain of the
\* service began (server.go Stop: the listener first, then the service).
StopsInOrder == cancel = "called" => active = {} /\ shutdown /\ listener # "open"

\* The publisher is never closed under a relay loop that still uses it
\* (relay.go Stop: the loop is joined, then the publisher closed).
ClosedAfterLoop == closed => loop = "returned"

\* The node waits in service.Stop for a loop that was told to return.
JoinsLoop == main = "service" /\ cancel = "called" /\ loop = "running"

\* A node that is interrupted ends, whatever its handlers do, or hangs where it
\* joins a worker's loop that never returns: the loop is the only thing it can
\* hang on (server.go Stop: the timeout of Shutdown ends the wait for the
\* handlers; the join of the worker has none).
InterruptEnds == main = "stop" ~> (main = "exited" \/ []JoinsLoop)

\* When Stop has returned without an error, the service has been drained.
StopDrains == main = "returned" => loop = "returned"

-----------------------------------------------------------------------------
(* The inductive invariant of the proofs. *)
ServerInv ==
    /\ RunnerTypeOK /\ ServerTypeOK
    /\ main \in {"spawn", "waiting", "stop", "shutdown", "draining", "service"} => starter = "started"
    /\ main \in {"draining", "service"} => shutdown
    /\ main = "service" => active = {} /\ spc[Main] # "idle"
    /\ main # "service" /\ spc[Main] # "idle" => main \in {"returned", "exited"}
    /\ spc[Main] # "idle" => late[Main] /\ starter = "started" /\ shutdown /\ active = {}
    /\ spc[Main] \in {"idle", "once"} => cancel # "called"
    /\ shutdown => listener # "open"
    /\ starter = "started" => loop # "none"
    /\ starter # "started" => loop = "none"
    /\ closed => spc[Main] = "done"
    /\ StopJoins
    /\ StopsInOrder

=============================================================================
