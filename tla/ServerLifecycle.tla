-------------------------- MODULE ServerLifecycle --------------------------
(***************************************************************************)
(* The life of the api process: run() of cmd/api/main.go over Connect and  *)
(* Close of platform/database and Run, Start and Shutdown of               *)
(* platform/server, with a signal, or the death of the process, possible   *)
(* at every point.                                                         *)
(*                                                                         *)
(* Three parties move at once: the main goroutine, the goroutine Run       *)
(* starts to listen, and one goroutine per request, which alternates       *)
(* between its own work and statements on the pool.  Around them are the   *)
(* database, which comes and goes, and the container runtime of            *)
(* docker-compose.yml, which stops the process with a signal, kills it     *)
(* when its patience ends, and restarts it unless it was stopped.          *)
(*                                                                         *)
(* Library code, modelled from how it is used: Shutdown of fasthttp closes *)
(* the listeners it knows of and waits for the open connections; with no   *)
(* listener registered yet it returns at once.  Close of database/sql      *)
(* refuses every later statement and does not wait for the running ones.   *)
(***************************************************************************)
EXTENDS Integers

CONSTANTS
  Requests,         \* the requests that may be served at once
  ConnectRetries,   \* DB_CONNECT_RETRIES
  AutoMigrate,      \* DB_AUTO_MIGRATE
  ShutdownTimeout,  \* HTTP_SHUTDOWN_TIMEOUT, in ticks
  StopGrace         \* ticks the container runtime leaves a stopped process

ASSUME LifecycleAssumption ==
  /\ ConnectRetries \in Int
  /\ AutoMigrate \in BOOLEAN
  /\ ShutdownTimeout \in Nat /\ StopGrace \in Nat

VARIABLES
  main,       \* where run() is
  pings,      \* attempts Connect has made
  signalled,  \* the context of NotifyContext is cancelled
  listener,   \* the goroutine that calls Start
  errs,       \* what that goroutine has sent
  pool,       \* the *sql.DB
  drain,      \* how Shutdown went
  exit,       \* the exit code, or what ended the process
  left,       \* ticks before Shutdown gives up
  grace,      \* ticks before the container is killed
  dbUp,       \* MariaDB answers
  req         \* the requests

process == <<main, pings, listener, errs, pool, drain, exit>>
lifecycleVars == <<process, signalled, left, grace, dbUp, req>>

----------------------------------------------------------------------------
\* State

Attempts == IF ConnectRetries < 1 THEN 1 ELSE ConnectRetries

Mains == {"connect", "backoff", "migrate", "wire", "run", "drain", "close",
          "closed", "exited"}

\* "working", "statement": being served.  "failed": answered with an error
\* because the pool is closed.  "cut": never answered.
Active == {"working", "statement"}
Outcomes == {"none", "answered", "failed", "cut"}

Alive == main # "exited"

\* run() returns: its deferred Close comes first.
Returns(code) == main' = "close" /\ exit' = code

----------------------------------------------------------------------------
\* The main goroutine: connect, migrate, wire

Connected ==
  /\ main = "connect" /\ dbUp /\ ~signalled
  /\ pings' = pings + 1
  /\ main' = IF AutoMigrate THEN "migrate" ELSE "wire"
  /\ UNCHANGED <<listener, errs, pool, drain, exit, signalled, left, grace, dbUp, req>>

PingFails ==
  /\ main = "connect" /\ (~dbUp \/ signalled)
  /\ pings' = pings + 1
  /\ main' = "backoff"
  /\ UNCHANGED <<listener, errs, pool, drain, exit, signalled, left, grace, dbUp, req>>

\* The timer of the backoff; if the signal came too, select takes either.
Retry ==
  /\ main = "backoff" /\ pings < Attempts
  /\ main' = "connect"
  /\ UNCHANGED <<pings, listener, errs, pool, drain, exit, signalled, left, grace, dbUp, req>>

\* Mutant: after the last attempt only the signal is waited for.
GiveUpOnSignal ==
  /\ main = "backoff" /\ signalled
  /\ main' = "closed" /\ pool' = "closed" /\ exit' = "error"
  /\ UNCHANGED <<pings, listener, errs, drain, signalled, left, grace, dbUp, req>>

\* Connect closes the pool itself and fails: stopped, or out of attempts.
GiveUp ==
  /\ main = "backoff" /\ (signalled \/ pings = Attempts)
  /\ main' = "closed" /\ pool' = "closed" /\ exit' = "error"
  /\ UNCHANGED <<pings, listener, errs, drain, signalled, left, grace, dbUp, req>>

Migrated ==
  /\ main = "migrate" /\ dbUp /\ ~signalled
  /\ main' = "wire"
  /\ UNCHANGED <<pings, listener, errs, pool, drain, exit, signalled, left, grace, dbUp, req>>

\* An error, the two minutes of migrationTimeout, or the signal.
MigrationFails ==
  /\ main = "migrate"
  /\ Returns("error")
  /\ UNCHANGED <<pings, listener, errs, pool, drain, signalled, left, grace, dbUp, req>>

\* The wiring, up to the go statement of Run.
Wire ==
  /\ main = "wire"
  /\ main' = "run" /\ listener' = "starting"
  /\ UNCHANGED <<pings, errs, pool, drain, exit, signalled, left, grace, dbUp, req>>

----------------------------------------------------------------------------
\* Start, in its own goroutine

Listen ==
  /\ Alive /\ listener = "starting"
  /\ listener' = "open"
  /\ UNCHANGED <<main, pings, errs, pool, drain, exit, signalled, left, grace, dbUp, req>>

ListenFails ==
  /\ Alive /\ listener = "starting"
  /\ listener' = "closed" /\ errs' = "error"
  /\ UNCHANGED <<main, pings, pool, drain, exit, signalled, left, grace, dbUp, req>>

----------------------------------------------------------------------------
\* Run, Shutdown and the deferred Close

\* The first case of select: what Start returned is what Run returns.
RunReturns ==
  /\ main = "run" /\ errs = "error"
  /\ Returns("error")
  /\ UNCHANGED <<pings, listener, errs, pool, drain, signalled, left, grace, dbUp, req>>

\* The second case, with a listener to close.
BeginShutdown ==
  /\ main = "run" /\ signalled /\ listener = "open"
  /\ main' = "drain" /\ listener' = "closed" /\ left' = ShutdownTimeout
  /\ UNCHANGED <<pings, errs, pool, drain, exit, signalled, grace, dbUp, req>>

\* The second case, with none registered: Shutdown has nothing to wait for.
ShutdownUnregistered ==
  /\ main = "run" /\ signalled /\ listener # "open"
  /\ drain' = "unregistered"
  /\ Returns("ok")
  /\ UNCHANGED <<pings, listener, errs, pool, signalled, left, grace, dbUp, req>>

\* Mutant: requests waiting for a statement do not count as open.
DrainedButForStatements ==
  /\ main = "drain" /\ \A r \in Requests : req[r] # "working"
  /\ drain' = "done"
  /\ Returns("ok")
  /\ UNCHANGED <<pings, listener, errs, pool, signalled, left, grace, dbUp, req>>

Drained ==
  /\ main = "drain" /\ \A r \in Requests : req[r] \notin Active
  /\ drain' = "done"
  /\ Returns("ok")
  /\ UNCHANGED <<pings, listener, errs, pool, signalled, left, grace, dbUp, req>>

\* Mutant: ShutdownContext has no timeout, so Shutdown waits for as long as it takes.
DrainNeverTimesOut == FALSE /\ UNCHANGED lifecycleVars

\* Mutant: the error of the shutdown is swallowed.
DrainTimesOutSilently ==
  /\ main = "drain" /\ left = 0 /\ \E r \in Requests : req[r] \in Active
  /\ drain' = "done"
  /\ Returns("ok")
  /\ UNCHANGED <<pings, listener, errs, pool, signalled, left, grace, dbUp, req>>

DrainTimesOut ==
  /\ main = "drain" /\ left = 0 /\ \E r \in Requests : req[r] \in Active
  /\ drain' = "timedOut"
  /\ Returns("error")
  /\ UNCHANGED <<pings, listener, errs, pool, signalled, left, grace, dbUp, req>>

ClosePool ==
  /\ main = "close"
  /\ main' = "closed" /\ pool' = "closed"
  /\ UNCHANGED <<pings, listener, errs, drain, exit, signalled, left, grace, dbUp, req>>

\* However the process ends, its goroutines end with it.
ProcessEnds(code) ==
  /\ main' = "exited" /\ exit' = code
  /\ listener' = "closed" /\ pool' = "closed"
  /\ req' = [r \in Requests |-> IF req[r] \in Active THEN "cut" ELSE req[r]]
  /\ UNCHANGED <<pings, errs, drain, signalled, left, grace, dbUp>>

Exit == main = "closed" /\ ProcessEnds(exit)

----------------------------------------------------------------------------
\* Requests

Accept(r) ==
  /\ Alive /\ listener = "open" /\ req[r] \in Outcomes
  /\ req' = [req EXCEPT ![r] = "working"]
  /\ UNCHANGED <<process, signalled, left, grace, dbUp>>

\* A statement needs the pool to be open; a handler whose statement is refused
\* answers an error.
Query(r) ==
  /\ Alive /\ req[r] = "working"
  /\ req' = [req EXCEPT ![r] = IF pool = "open" THEN "statement" ELSE "failed"]
  /\ UNCHANGED <<process, signalled, left, grace, dbUp>>

Queried(r) ==
  /\ Alive /\ req[r] = "statement"
  /\ req' = [req EXCEPT ![r] = "working"]
  /\ UNCHANGED <<process, signalled, left, grace, dbUp>>

Answer(r) ==
  /\ Alive /\ req[r] = "working"
  /\ req' = [req EXCEPT ![r] = "answered"]
  /\ UNCHANGED <<process, signalled, left, grace, dbUp>>

----------------------------------------------------------------------------
\* What happens to the process

\* SIGINT or SIGTERM; a second one changes nothing.
Signal ==
  /\ Alive /\ ~signalled
  /\ signalled' = TRUE /\ grace' = StopGrace
  /\ UNCHANGED <<process, left, dbUp, req>>

\* Time counts while somebody waits: Shutdown, which does not let its own
\* deadline pass unnoticed, or the container runtime.
LifecycleTick ==
  /\ Alive /\ signalled
  /\ IF main = "drain" THEN left > 0 ELSE grace > 0
  /\ grace' = IF grace > 0 THEN grace - 1 ELSE 0
  /\ left' = IF main = "drain" THEN left - 1 ELSE left
  /\ UNCHANGED <<process, signalled, dbUp, req>>

\* SIGKILL, once the grace period is over.
Kill == Alive /\ signalled /\ grace = 0 /\ ProcessEnds("killed")

\* Out of memory, or the power.
Crash == Alive /\ ProcessEnds("crashed")

DatabaseChanges ==
  /\ dbUp' = ~dbUp
  /\ UNCHANGED <<process, signalled, left, grace, req>>

\* restart: unless-stopped.
RestartContainer ==
  /\ ~Alive /\ ~signalled
  /\ main' = "connect" /\ pings' = 0
  /\ listener' = "none" /\ errs' = "none" /\ pool' = "open"
  /\ drain' = "none" /\ exit' = "none"
  /\ req' = [r \in Requests |-> "none"]
  /\ UNCHANGED <<signalled, left, grace, dbUp>>

\* A stopped container stays as it is.
Stopped == ~Alive /\ signalled /\ UNCHANGED lifecycleVars

----------------------------------------------------------------------------

LifecycleInit ==
  /\ main = "connect" /\ pings = 0
  /\ listener = "none" /\ errs = "none" /\ pool = "open"
  /\ drain = "none" /\ exit = "none"
  /\ signalled = FALSE /\ left = 0 /\ grace = 0
  /\ dbUp \in BOOLEAN
  /\ req = [r \in Requests |-> "none"]

Boot == Connected \/ PingFails \/ Retry \/ GiveUp \/ Migrated \/ MigrationFails \/ Wire
ShutDown == RunReturns \/ BeginShutdown \/ ShutdownUnregistered
            \/ Drained \/ DrainTimesOut \/ ClosePool \/ Exit
Serve(r) == Accept(r) \/ Query(r) \/ Queried(r) \/ Answer(r)

LifecycleNext ==
  \/ Boot \/ ShutDown \/ Listen \/ ListenFails
  \/ \E r \in Requests : Serve(r)
  \/ Signal \/ LifecycleTick \/ Kill \/ Crash \/ DatabaseChanges \/ RestartContainer \/ Stopped

LifecycleSpec == LifecycleInit /\ [][LifecycleNext]_lifecycleVars

\* The two goroutines of the process are scheduled, every wait of the main one
\* has its timer, time passes, and the container runtime restarts.  Nothing is
\* assumed of the handlers, one may run for ever, nor of the kill.
LifecycleFairSpec ==
  /\ LifecycleSpec
  /\ WF_lifecycleVars(Boot) /\ WF_lifecycleVars(ShutDown) /\ WF_lifecycleVars(Listen \/ ListenFails)
  /\ WF_lifecycleVars(LifecycleTick) /\ WF_lifecycleVars(RestartContainer)

----------------------------------------------------------------------------
\* Properties

\* Types of the process, its requests and its surroundings.
LifecycleTypeOK ==
  /\ main \in Mains
  /\ pings \in 0 .. Attempts
  /\ signalled \in BOOLEAN /\ dbUp \in BOOLEAN
  /\ listener \in {"none", "starting", "open", "closed"}
  /\ errs \in {"none", "error"}
  /\ pool \in {"open", "closed"}
  /\ drain \in {"none", "done", "timedOut", "unregistered"}
  /\ exit \in {"none", "ok", "error", "killed", "crashed"}
  /\ left \in 0 .. ShutdownTimeout /\ grace \in 0 .. StopGrace
  /\ req \in [Requests -> Active \cup Outcomes]

\* No request loses the pool or the process under it, except to a drain that
\* took all of its time, to a kill or a crash, or because the server began to
\* listen after the shutdown had found no listener.  (Run, Shutdown, Close)
DrainProtectsRequests ==
  (\E r \in Requests : req[r] \in {"failed", "cut"})
    => drain \in {"timedOut", "unregistered"} \/ exit \in {"killed", "crashed"}

\* The exit code tells: 0 only when asked to stop, and not when the drain left
\* anybody behind.  (main, Run, Shutdown)
CleanExitMeansDrained ==
  (main = "exited" /\ exit = "ok") =>
    /\ signalled
    /\ drain = "unregistered" \/ \A r \in Requests : req[r] \notin {"failed", "cut"}

\* Of every state: the process keeps its types, protects its requests as long
\* as it drains, and does not lie when it exits.
LifecycleInv == LifecycleTypeOK /\ DrainProtectsRequests /\ CleanExitMeansDrained

\* A signal ends the process, wherever in its life it arrives and however long
\* the handlers run: in the middle of the connect loop, during a migration,
\* before the server listens, during the drain.
SignalEndsProcess == signalled ~> main = "exited"

\* Once MariaDB is up for good the server ends up listening, through retries
\* and restarts, unless it is stopped, crashes, cannot bind its address or
\* cannot migrate.
ComesUpWithTheDatabase ==
  ( /\ []~signalled /\ <>[]dbUp
    /\ <>[][~(Crash \/ ListenFails \/ MigrationFails)]_lifecycleVars )
  => <>[](listener = "open")

\* What the documentation says and a drain that times out does not keep: the
\* deferred Close "runs after the HTTP server has drained".
PoolClosedAfterDrain ==
  pool = "closed" => \A r \in Requests : req[r] \notin Active

\* What the documentation says and docker-compose.yml does not keep: the
\* shutdown drains requests for HTTP_SHUTDOWN_TIMEOUT.
DrainGetsItsTime ==
  [][main = "drain" /\ Kill => left = 0]_lifecycleVars
=============================================================================
