------------------------------ MODULE Shutdown ------------------------------
(***************************************************************************)
(* The process from its start to its exit: run (cmd/costume-tree/main.go)  *)
(* builds the dependencies and unwinds them, Run                           *)
(* (internal/application/application.go) serves until a signal or an error *)
(* of the server ends it.  The server, its timeout handler and the signal  *)
(* context are net/http's and os/signal's, as Run and run use them.        *)
(*                                                                         *)
(* A request is a connection of its own; what handlers and workers do is   *)
(* the subject of the other modules.  Names that Migrations has, too, say  *)
(* Life here: ProcessProofs extends both.                                  *)
(***************************************************************************)
EXTENDS Naturals

CONSTANTS
    Requests,
    Workers        \* the photo service's workers

VARIABLES
    main,          \* where the main goroutine is
    failed,        \* run returns an error: the exit status is 1
    ctxDone,       \* a signal has cancelled the context of NotifyContext
    serve,         \* the goroutine that serves: none, starting, accepting,
                   \* or what Serve has returned: closed (ErrServerClosed), error
    serveResult,   \* the channel: none, closed, error
    closing,       \* Shutdown has closed the listener
    conn,          \* of a request: none, new, active, answered, timedOut (503),
                   \* gone (the client left), dropped (nothing was read), cut (by Close)
    handler,       \* its handler: none, running, ended
    photos,        \* the photo service: none, started, cancelled
    worker,        \* none, idle, busy, stopped
    database       \* none, open, closed

server == <<serve, serveResult, closing>>
clients == <<conn, handler>>
lifevars == <<main, failed, ctxDone, server, clients, photos, worker, database>>

\* Before the signal context exists, and after stop, a signal kills the process.
Startup == {"open", "migrate", "ready", "photos", "web"}
Unwinding == {"closePhotos", "waitWorkers", "closeDatabase"}
InRun == {"listen", "select", "shutdown", "collect", "stop"}

Returned == {"stop", "exited"} \cup Unwinding

LifeTypeOK ==
    /\ main \in Startup \cup InRun \cup Unwinding \cup {"exited"}
    /\ failed \in BOOLEAN /\ ctxDone \in BOOLEAN /\ closing \in BOOLEAN
    /\ serve \in {"none", "starting", "accepting", "closed", "error"}
    /\ serveResult \in {"none", "closed", "error"}
    /\ conn \in [Requests -> {"none", "new", "active", "answered", "timedOut",
                              "gone", "dropped", "cut"}]
    /\ handler \in [Requests -> {"none", "running", "ended"}]
    /\ photos \in {"none", "started", "cancelled"}
    /\ worker \in [Workers -> {"none", "idle", "busy", "stopped"}]
    /\ database \in {"none", "open", "closed"}

LifeInit ==
    /\ main = "open" /\ failed = FALSE /\ ctxDone = FALSE
    /\ serve = "none" /\ serveResult = "none" /\ closing = FALSE
    /\ conn = [r \in Requests |-> "none"] /\ handler = [r \in Requests |-> "none"]
    /\ photos = "none" /\ worker = [w \in Workers |-> "none"]
    /\ database = "none"

-----------------------------------------------------------------------------
(***************************************************************************)
(* run, up to Run.  A step fails into the defers registered so far.        *)
(***************************************************************************)
FailTo(to) == main' = to /\ failed' = TRUE

\* config.Load and storage.Open
Open ==
    /\ main = "open"
    /\ \/ main' = "migrate" /\ database' = "open" /\ UNCHANGED failed
       \/ FailTo("exited") /\ UNCHANGED database
    /\ UNCHANGED <<ctxDone, server, clients, photos, worker>>

\* Migrate, then Ready
Prepare ==
    /\ \/ main = "migrate" /\ main' = "ready" /\ UNCHANGED failed
       \/ main = "ready" /\ main' = "photos" /\ UNCHANGED failed
       \/ main \in {"migrate", "ready"} /\ FailTo("closeDatabase")
    /\ UNCHANGED <<ctxDone, server, clients, photos, worker, database>>

\* photos.New and Start: a failure comes before the workers are launched.
StartPhotos ==
    /\ main = "photos"
    /\ \/ /\ main' = "web" /\ photos' = "started" /\ worker' = [w \in Workers |-> "idle"]
          /\ UNCHANGED failed
       \/ FailTo("closeDatabase") /\ UNCHANGED <<photos, worker>>
    /\ UNCHANGED <<ctxDone, server, clients, database>>

\* web.New, the timeout handler and NotifyContext
NewHandler ==
    /\ main = "web"
    /\ \/ main' = "listen" /\ UNCHANGED failed
       \/ FailTo("closePhotos")
    /\ UNCHANGED <<ctxDone, server, clients, photos, worker, database>>

-----------------------------------------------------------------------------
(***************************************************************************)
(* Run                                                                     *)
(***************************************************************************)
Listen ==
    /\ main = "listen"
    /\ \/ main' = "select" /\ serve' = "starting" /\ UNCHANGED failed
       \/ FailTo("stop") /\ UNCHANGED serve
    /\ UNCHANGED <<ctxDone, serveResult, closing, clients, photos, worker, database>>

\* select: when both are ready, either may be taken.
ServeEndedFirst ==
    /\ main = "select" /\ serveResult # "none"
    /\ main' = "stop" /\ failed' = (failed \/ serveResult # "closed")
    /\ UNCHANGED <<ctxDone, server, clients, photos, worker, database>>

BeginShutdown ==
    /\ main = "select" /\ ctxDone
    /\ main' = "shutdown" /\ closing' = TRUE
    /\ UNCHANGED <<failed, ctxDone, serve, serveResult, clients, photos, worker, database>>

IsOpen(r) == conn[r] \in {"new", "active"}

\* Seeded bug: Shutdown does not wait for the requests that are being handled.
DrainedOfNew == serve # "accepting" /\ \A r \in Requests : conn[r] # "new"

\* Shutdown waits for Serve to leave the listener, then for the connections.
Drained == serve # "accepting" /\ \A r \in Requests : ~IsOpen(r)

ShutdownReturns ==
    /\ main = "shutdown" /\ Drained
    /\ main' = "collect"
    /\ UNCHANGED <<failed, ctxDone, server, clients, photos, worker, database>>

\* Seeded bug: Shutdown is given a context without a timeout.
ShutdownNeverTimesOut == FALSE /\ UNCHANGED lifevars

\* The timeout, then server.Close. Requests that were open when Shutdown looked
\* last may have been answered since.
ShutdownTimesOut ==
    /\ main = "shutdown" /\ serve # "accepting" /\ \E r \in Requests : conn[r] # "none"
    /\ conn' = [r \in Requests |-> IF IsOpen(r) THEN "cut" ELSE conn[r]]
    /\ FailTo("stop")
    /\ UNCHANGED <<ctxDone, server, handler, photos, worker, database>>

\* Seeded bug: what Serve has returned is not looked at.
CollectAnyway ==
    /\ main = "collect" /\ serveResult # "none"
    /\ main' = "stop"
    /\ UNCHANGED <<failed, ctxDone, server, clients, photos, worker, database>>

Collect ==
    /\ main = "collect" /\ serveResult # "none"
    /\ main' = "stop" /\ failed' = (failed \/ serveResult # "closed")
    /\ UNCHANGED <<ctxDone, server, clients, photos, worker, database>>

-----------------------------------------------------------------------------
(***************************************************************************)
(* run's defers, last registered first.                                    *)
(***************************************************************************)
Stop ==
    /\ main = "stop" /\ main' = "closePhotos"
    /\ UNCHANGED <<failed, ctxDone, server, clients, photos, worker, database>>

\* cancelPhotos, and Close up to Wait
ClosePhotos ==
    /\ main = "closePhotos"
    /\ main' = "waitWorkers" /\ photos' = "cancelled"
    /\ UNCHANGED <<failed, ctxDone, server, clients, worker, database>>

\* Seeded bug: Close does not wait for the workers.
WaitForNobody ==
    /\ main = "waitWorkers" /\ main' = "closeDatabase"
    /\ UNCHANGED <<failed, ctxDone, server, clients, photos, worker, database>>

WaitWorkers ==
    /\ main = "waitWorkers" /\ \A w \in Workers : worker[w] = "stopped"
    /\ main' = "closeDatabase"
    /\ UNCHANGED <<failed, ctxDone, server, clients, photos, worker, database>>

\* The error of closing is returned when there is no other.
CloseDatabase ==
    /\ main = "closeDatabase" /\ main' = "exited"
    /\ database' = "closed"
    /\ failed' \in {failed, TRUE}
    /\ UNCHANGED <<ctxDone, server, clients, photos, worker>>

-----------------------------------------------------------------------------
(***************************************************************************)
(* The other goroutines, while the process lives.                          *)
(***************************************************************************)
\* A goroutine that begins to serve after Shutdown has been called returns.
ServeBegins ==
    /\ serve = "starting"
    /\ serve' = IF closing THEN "closed" ELSE "accepting"
    /\ UNCHANGED <<serveResult, clients>>

ServeReturns ==
    /\ serve = "accepting" /\ closing
    /\ serve' = "closed"
    /\ UNCHANGED <<serveResult, clients>>

\* Accept fails for good: nobody has asked for it.
ServeFails ==
    /\ serve = "accepting" /\ ~closing
    /\ serve' = "error"
    /\ UNCHANGED <<serveResult, clients>>

\* The channel has room: this never blocks.
SendResult ==
    /\ serve \in {"closed", "error"} /\ serveResult = "none"
    /\ serveResult' = serve
    /\ UNCHANGED <<serve, clients>>

Accept(r) ==
    /\ serve = "accepting" /\ ~closing /\ conn[r] = "none"
    /\ conn' = [conn EXCEPT ![r] = "new"]
    /\ UNCHANGED <<handler, serve, serveResult>>

\* The header arrives, and the timeout handler starts the handler; or it does
\* not arrive in time.
ReadRequest(r) ==
    /\ conn[r] = "new"
    /\ \/ /\ conn' = [conn EXCEPT ![r] = "active"]
          /\ handler' = [handler EXCEPT ![r] = "running"]
       \/ conn' = [conn EXCEPT ![r] = "dropped"] /\ UNCHANGED handler
    /\ UNCHANGED <<serve, serveResult>>

\* The handler ends in time, and its answer is sent.
Reply(r) ==
    /\ conn[r] = "active" /\ handler[r] = "running"
    /\ conn' = [conn EXCEPT ![r] = "answered"]
    /\ handler' = [handler EXCEPT ![r] = "ended"]
    /\ UNCHANGED <<serve, serveResult>>

\* The timeout handler answers for a handler that goes on, or the client leaves.
GiveUp(r) ==
    /\ conn[r] = "active" /\ handler[r] = "running"
    /\ \E end \in {"timedOut", "gone"} : conn' = [conn EXCEPT ![r] = end]
    /\ UNCHANGED <<handler, serve, serveResult>>

\* A handler whose answer nobody waits for ends.
EndLate(r) ==
    /\ handler[r] = "running" /\ conn[r] \in {"timedOut", "gone", "cut"}
    /\ handler' = [handler EXCEPT ![r] = "ended"]
    /\ UNCHANGED <<conn, serve, serveResult>>

Serving == ServeBegins \/ ServeReturns \/ SendResult

Clients == \E r \in Requests : Accept(r) \/ ReadRequest(r) \/ Reply(r) \/ GiveUp(r) \/ EndLate(r)

HTTP ==
    /\ main # "exited"
    /\ Serving \/ ServeFails \/ Clients
    /\ UNCHANGED <<main, failed, ctxDone, closing, photos, worker, database>>

Take(w) ==
    /\ worker[w] = "idle" /\ photos = "started"
    /\ worker' = [worker EXCEPT ![w] = "busy"]

\* The worker is done with its photo; it stops when the context is cancelled.
GoOn(w) ==
    \/ worker[w] = "busy" /\ worker' = [worker EXCEPT ![w] = "idle"]
    \/ worker[w] = "idle" /\ photos = "cancelled" /\ worker' = [worker EXCEPT ![w] = "stopped"]

WorkerStep ==
    /\ main # "exited"
    /\ \E w \in Workers : Take(w) \/ GoOn(w)
    /\ UNCHANGED <<main, failed, ctxDone, server, clients, photos, database>>

\* SIGINT or SIGTERM
Signal ==
    /\ main # "exited"
    /\ IF main \in InRun THEN ctxDone' = TRUE /\ UNCHANGED <<main, failed>>
       ELSE FailTo("exited") /\ UNCHANGED ctxDone
    /\ UNCHANGED <<server, clients, photos, worker, database>>

-----------------------------------------------------------------------------
MainStep ==
    \/ Open \/ Prepare \/ StartPhotos \/ NewHandler
    \/ Listen \/ ServeEndedFirst \/ BeginShutdown
    \/ ShutdownReturns \/ ShutdownTimesOut \/ Collect
    \/ Stop \/ ClosePhotos \/ WaitWorkers \/ CloseDatabase

LifeNext == MainStep \/ HTTP \/ WorkerStep \/ Signal

LifeSpec == LifeInit /\ [][LifeNext]_lifevars

ServingStep ==
    /\ main # "exited" /\ Serving
    /\ UNCHANGED <<main, failed, ctxDone, closing, photos, worker, database>>

GoOnStep(w) ==
    /\ main # "exited" /\ GoOn(w)
    /\ UNCHANGED <<main, failed, ctxDone, server, clients, photos, database>>

\* The main goroutine and the one that serves run, and a worker ends its photo.
\* Handlers and clients may take as long as they like.
LifeFairness ==
    /\ WF_lifevars(MainStep) /\ WF_lifevars(ServingStep)
    /\ \A w \in Workers : WF_lifevars(GoOnStep(w))

FairLifeSpec == LifeSpec /\ LifeFairness

-----------------------------------------------------------------------------
\* Unless Run returns an error, no request it has accepted is left without an
\* answer: none is open or has been cut off. (Shutdown and Close in Run.)
NothingCutByCleanReturn ==
    main \in Returned /\ ~failed => \A r \in Requests : ~IsOpen(r) /\ conn[r] # "cut"

\* A server that fails by itself is reported, also when a signal comes at the
\* same time and Run takes the other case of its select. (serveResult in Run.)
ServeFailureReported == main \in Returned /\ serve = "error" => failed

\* The database is closed after the last worker; a handler that is still running
\* then has been answered for, or Run has failed. (The defers of run.)
DatabaseClosedLast ==
    database = "closed" =>
        /\ \A w \in Workers : worker[w] # "busy"
        /\ failed \/ \A r \in Requests : handler[r] = "running" => conn[r] \in {"timedOut", "gone"}

\* A signal, a failure of the server and a failed start each end the process,
\* whatever handlers and clients do. (Run and run.)
ProcessEnds == ctxDone \/ failed \/ serve = "error" ~> main = "exited"
=============================================================================
