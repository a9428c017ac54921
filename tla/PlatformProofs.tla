--------------------------- MODULE PlatformProofs ---------------------------
(***************************************************************************)
(* What cmd/api and internal/platform promise, for any requests, accounts, *)
(* clients and bounds: the server starts and stops without leaving anyone  *)
(* behind, the schema is complete whenever it is recorded or served, the   *)
(* limits hold over any window, and mail is sent in order and not in clear.*)
(*                                                                         *)
(* The four share nothing but the process; each section finds the          *)
(* inductive invariant of its own module.                                  *)
(***************************************************************************)
EXTENDS ServerLifecycle, Migrations, RateLimit, Smtp, SequenceTheorems, TLAPS

-----------------------------------------------------------------------------
\* The server.  Where run() is decides what it holds: a listener, a pool and
\* requests only from when they are made to when they are let go.

Untouched == \A r \in Requests : req[r] = "none"

\* Nobody is being served, and nobody will be.
Quiet == listener \in {"none", "closed"} /\ \A r \in Requests : req[r] \notin Active

Booting == {"connect", "backoff", "migrate", "wire"}

\* What run() has by where it is.
MainInv ==
  /\ main = "connect" => pings < Attempts
  /\ main \in Booting => listener = "none"
  /\ main \in Booting \cup {"run", "drain"} => drain = "none" /\ exit = "none"
  /\ main \notin {"closed", "exited"} => pool = "open"
  /\ main = "drain" => signalled /\ listener = "closed"

\* Who can have been served before the listener is open, or if it never was.
ListenerInv ==
  /\ listener \in {"none", "starting"} => Untouched
  /\ errs = "error" => Untouched /\ listener = "closed"

\* run() has returned: everybody is out, unless the shutdown could not see to it.
ReturnInv ==
  main \in {"close", "closed"} =>
    /\ drain \in {"timedOut", "unregistered"} \/ Quiet
    /\ exit \in {"ok", "error"}
    /\ exit = "ok" => signalled /\ drain \in {"done", "unregistered"}

LifecycleIInv == LifecycleInv /\ MainInv /\ ListenerInv /\ ReturnInv

----------------------------------------------------------------------------

LEMMA AttemptsPositive == Attempts \in Nat /\ Attempts > 0
BY LifecycleAssumption DEF Attempts

LEMMA InitLifecycle == LifecycleInit => LifecycleIInv
<1> SUFFICES ASSUME LifecycleInit PROVE LifecycleIInv
  OBVIOUS
<1>1. LifecycleTypeOK
  <2>1. signalled \in BOOLEAN /\ dbUp \in BOOLEAN
    BY Zenon DEF LifecycleInit
  <2>2. pings \in 0 .. Attempts /\ left \in 0 .. ShutdownTimeout /\ grace \in 0 .. StopGrace
    BY LifecycleAssumption, AttemptsPositive DEF LifecycleInit
  <2>3. req \in [Requests -> Active \cup Outcomes]
    BY DEF LifecycleInit, Active, Outcomes
  <2> QED
    BY <2>1, <2>2, <2>3 DEF LifecycleInit, LifecycleTypeOK, Mains
<1>2. DrainProtectsRequests /\ CleanExitMeansDrained
  BY DEF LifecycleInit, DrainProtectsRequests, CleanExitMeansDrained
<1>3. MainInv /\ ListenerInv /\ ReturnInv
  BY AttemptsPositive DEF LifecycleInit, MainInv, ListenerInv, ReturnInv, Untouched, Booting
<1> QED
  BY <1>1, <1>2, <1>3 DEF LifecycleIInv, LifecycleInv

\* The main goroutine on its way to Run.
LEMMA StepBoot ==
  ASSUME LifecycleIInv, Boot
  PROVE LifecycleIInv'
<1> USE LifecycleAssumption, AttemptsPositive
<1>1. UNCHANGED <<errs, drain, signalled, left, grace, dbUp, req>> /\ main \in Booting
  BY DEF Boot, Connected, PingFails, Retry, GiveUp, Migrated, MigrationFails, Wire, Returns, Booting
<1>2. Untouched /\ listener = "none" /\ errs # "error" /\ pool = "open" /\ drain = "none"
      /\ exit = "none"
  BY <1>1 DEF LifecycleIInv, MainInv, ListenerInv, Booting
<1>3. LifecycleTypeOK'
  BY <1>1 DEF LifecycleIInv, LifecycleInv, LifecycleTypeOK, MainInv, Mains, Boot, Connected, PingFails,
     Retry, GiveUp, Migrated, MigrationFails, Wire, Returns
<1>4. Untouched' /\ drain' = "none"
  BY <1>1, <1>2 DEF Untouched
<1>5. DrainProtectsRequests' /\ CleanExitMeansDrained'
  <2>1. main' # "exited"
    BY DEF Boot, Connected, PingFails, Retry, GiveUp, Migrated, MigrationFails, Wire, Returns
  <2> QED
    BY <1>4, <2>1 DEF DrainProtectsRequests, CleanExitMeansDrained, Untouched
<1>6. ListenerInv'
  BY <1>1, <1>2, <1>4 DEF ListenerInv
<1>7. MainInv'
  BY <1>1, <1>2 DEF LifecycleIInv, LifecycleInv, LifecycleTypeOK, MainInv, Booting, Boot, Connected,
     PingFails, Retry, GiveUp, Migrated, MigrationFails, Wire, Returns
<1>8. ReturnInv'
  BY <1>1, <1>2, <1>4 DEF ReturnInv, Quiet, Untouched, Active, Boot, Connected, PingFails, Retry,
     GiveUp, Migrated, MigrationFails, Wire, Returns, Booting
<1> QED
  BY <1>3, <1>5, <1>6, <1>7, <1>8 DEF LifecycleIInv, LifecycleInv

\* Run, Shutdown and Close, up to the exit.
LEMMA StepShutDown ==
  ASSUME LifecycleIInv,
         RunReturns \/ BeginShutdown \/ ShutdownUnregistered \/ Drained \/ DrainTimesOut \/ ClosePool
  PROVE LifecycleIInv'
<1> USE LifecycleAssumption
<1>1. UNCHANGED <<pings, errs, signalled, grace, dbUp, req>> /\ main' # "exited" /\ main # "exited"
      /\ main \notin Booting /\ main' \notin Booting
  BY DEF RunReturns, BeginShutdown, ShutdownUnregistered, Drained, DrainTimesOut, ClosePool, Returns,
     Booting
<1>2. LifecycleTypeOK'
  BY <1>1 DEF LifecycleIInv, LifecycleInv, LifecycleTypeOK, Mains, RunReturns, BeginShutdown,
     ShutdownUnregistered, Drained, DrainTimesOut, ClosePool, Returns
<1>3. DrainProtectsRequests' /\ CleanExitMeansDrained'
  BY <1>1 DEF LifecycleIInv, LifecycleInv, DrainProtectsRequests, CleanExitMeansDrained, MainInv,
     RunReturns, BeginShutdown, ShutdownUnregistered, Drained, DrainTimesOut, ClosePool, Returns,
     Booting, ReturnInv
<1>4. ListenerInv'
  BY <1>1 DEF LifecycleIInv, ListenerInv, Untouched, RunReturns, BeginShutdown,
     ShutdownUnregistered, Drained, DrainTimesOut, ClosePool, Returns
<1>5. MainInv'
  BY <1>1 DEF LifecycleIInv, MainInv, RunReturns, BeginShutdown,
     ShutdownUnregistered, Drained, DrainTimesOut, ClosePool, Returns, Booting
<1>6. ReturnInv'
  BY <1>1 DEF LifecycleIInv, MainInv, ListenerInv, Untouched, ReturnInv, Quiet, Active, RunReturns,
     BeginShutdown, ShutdownUnregistered, Drained, DrainTimesOut, ClosePool, Returns, Booting
<1> QED
  BY <1>2, <1>3, <1>4, <1>5, <1>6 DEF LifecycleIInv, LifecycleInv

\* The process ends: on its own, with everybody out or a drain that says why
\* not, or by a kill or a crash.
LEMMA StepEnds ==
  ASSUME LifecycleIInv, Exit \/ Kill \/ Crash
  PROVE LifecycleIInv'
<1>1. PICK code \in {"ok", "error", "killed", "crashed"} :
        /\ ProcessEnds(code)
        /\ code \in {"ok", "error"} => main = "closed" /\ code = exit
  BY DEF Exit, Kill, Crash, LifecycleIInv, ReturnInv
<1>2. /\ main' = "exited" /\ exit' = code /\ listener' = "closed" /\ pool' = "closed"
      /\ UNCHANGED <<pings, errs, drain, signalled, left, grace, dbUp>>
      /\ req' = [r \in Requests |-> IF req[r] \in Active THEN "cut" ELSE req[r]]
  BY <1>1 DEF ProcessEnds
<1>3. LifecycleTypeOK'
  BY <1>2 DEF LifecycleIInv, LifecycleInv, LifecycleTypeOK, Mains, Active, Outcomes
<1>4. ASSUME code \in {"ok", "error"}
      PROVE drain \in {"timedOut", "unregistered"} \/ \A r \in Requests : req'[r] \notin {"failed", "cut"}
  BY <1>1, <1>2, <1>4 DEF LifecycleIInv, LifecycleInv, DrainProtectsRequests, ReturnInv, Quiet
<1>5. DrainProtectsRequests'
  BY <1>1, <1>2, <1>4 DEF DrainProtectsRequests
<1>6. CleanExitMeansDrained'
  BY <1>1, <1>2, <1>4 DEF LifecycleIInv, CleanExitMeansDrained, ReturnInv
<1>7. MainInv' /\ ReturnInv'
  BY <1>2 DEF MainInv, ReturnInv, Booting
<1>8. ListenerInv'
  BY <1>2 DEF LifecycleIInv, ListenerInv, Untouched, Active
<1> QED
  BY <1>3, <1>5, <1>6, <1>7, <1>8 DEF LifecycleIInv, LifecycleInv

\* A request: it only begins while somebody listens, and only the closed pool
\* fails it.
LEMMA StepServe ==
  ASSUME LifecycleIInv, NEW r \in Requests, Serve(r)
  PROVE LifecycleIInv'
<1>1. UNCHANGED <<process, signalled, left, grace, dbUp>> /\ main # "exited"
  BY DEF Serve, Accept, Query, Queried, Answer, Alive
<1> DEFINE Becomes(s) ==
             /\ req' = [req EXCEPT ![r] = s] /\ s \in Active \cup Outcomes
             /\ s # "cut" /\ (s = "failed" => pool = "closed")
             /\ req[r] \in Active \/ listener = "open"
<1>2. \E s : Becomes(s)
  <2>1. ASSUME Accept(r) \/ Queried(r) PROVE Becomes("working")
    BY <2>1 DEF Accept, Queried, Active
  <2>2. ASSUME Query(r) PROVE Becomes(IF pool = "open" THEN "statement" ELSE "failed")
    BY <2>2 DEF Query, Active, Outcomes, LifecycleIInv, LifecycleInv, LifecycleTypeOK
  <2>3. ASSUME Answer(r) PROVE Becomes("answered")
    BY <2>3 DEF Answer, Active, Outcomes
  <2> QED
    BY <2>1, <2>2, <2>3 DEF Serve
<1>3. PICK s : Becomes(s)
  BY <1>2
<1>4. LifecycleTypeOK'
  BY <1>1, <1>3 DEF LifecycleIInv, LifecycleInv, LifecycleTypeOK, process
<1>5. (~Untouched /\ ~Quiet) \/ listener = "open"
  BY <1>3 DEF Untouched, Quiet, Active
<1>6. MainInv'
  BY <1>1 DEF LifecycleIInv, MainInv, process
<1>7. ListenerInv'
  BY <1>1, <1>5 DEF LifecycleIInv, ListenerInv, process
<1>8. ReturnInv'
  BY <1>1, <1>5 DEF LifecycleIInv, ReturnInv, Quiet, process
<1>9. DrainProtectsRequests'
  <2>1. s = "failed" => main = "closed"
    BY <1>1, <1>3 DEF LifecycleIInv, MainInv
  <2>2. s = "failed" => drain \in {"timedOut", "unregistered"}
    BY <1>5, <2>1 DEF LifecycleIInv, ReturnInv, Quiet
  <2> QED
    BY <1>1, <1>3, <2>2 DEF LifecycleIInv, LifecycleInv, LifecycleTypeOK, DrainProtectsRequests, process
<1>10. CleanExitMeansDrained'
  BY <1>1 DEF CleanExitMeansDrained, process
<1> QED
  BY <1>4, <1>6, <1>7, <1>8, <1>9, <1>10 DEF LifecycleIInv, LifecycleInv

\* What happens around the process leaves it as it is.
LEMMA StepAround ==
  ASSUME LifecycleIInv,
         Signal \/ LifecycleTick \/ DatabaseChanges \/ Stopped \/ UNCHANGED lifecycleVars
  PROVE LifecycleIInv'
<1>1. UNCHANGED <<main, pings, listener, errs, pool, drain, exit, req>> /\ (signalled => signalled')
  BY DEF Signal, LifecycleTick, DatabaseChanges, Stopped, lifecycleVars, process
<1>2. LifecycleTypeOK'
  <2>1. CASE LifecycleTick
    <3>1. left \in 0 .. ShutdownTimeout /\ grace \in 0 .. StopGrace
      BY DEF LifecycleIInv, LifecycleInv, LifecycleTypeOK
    <3>2. left' \in 0 .. ShutdownTimeout /\ grace' \in 0 .. StopGrace
      BY <2>1, <3>1, LifecycleAssumption DEF LifecycleTick
    <3> QED
      BY <1>1, <2>1, <3>2 DEF LifecycleIInv, LifecycleInv, LifecycleTypeOK, LifecycleTick
  <2>2. CASE Signal
    <3>1. grace' \in 0 .. StopGrace
      BY <2>2, LifecycleAssumption DEF Signal
    <3> QED
      BY <1>1, <2>2, <3>1 DEF LifecycleIInv, LifecycleInv, LifecycleTypeOK, Signal
  <2>3. CASE DatabaseChanges \/ Stopped \/ UNCHANGED lifecycleVars
    BY <1>1, <2>3 DEF LifecycleIInv, LifecycleInv, LifecycleTypeOK, DatabaseChanges, Stopped,
       lifecycleVars, process
  <2> QED
    BY <2>1, <2>2, <2>3
<1>3. DrainProtectsRequests' /\ CleanExitMeansDrained'
  BY <1>1 DEF LifecycleIInv, LifecycleInv, DrainProtectsRequests, CleanExitMeansDrained
<1>4. MainInv' /\ ListenerInv' /\ ReturnInv'
  BY <1>1 DEF LifecycleIInv, MainInv, ListenerInv, Untouched, ReturnInv, Quiet
<1> QED
  BY <1>2, <1>3, <1>4 DEF LifecycleIInv, LifecycleInv

\* The goroutine that listens.
LEMMA StepListen ==
  ASSUME LifecycleIInv, Listen \/ ListenFails
  PROVE LifecycleIInv'
<1>1. /\ UNCHANGED <<main, pings, pool, drain, exit, signalled, left, grace, dbUp, req>>
      /\ main # "exited" /\ listener = "starting" /\ Untouched /\ main \notin Booting \cup {"drain"}
      /\ listener' \in {"open", "closed"} /\ errs' \in {"none", "error"}
      /\ errs' = "error" => listener' = "closed"
  BY DEF Listen, ListenFails, Alive, LifecycleIInv, LifecycleInv, LifecycleTypeOK, MainInv, ListenerInv
<1>2. Untouched'
  BY <1>1 DEF Untouched
<1>3. LifecycleTypeOK'
  BY <1>1 DEF LifecycleIInv, LifecycleInv, LifecycleTypeOK
<1>4. DrainProtectsRequests' /\ CleanExitMeansDrained'
  BY <1>1 DEF LifecycleIInv, LifecycleInv, DrainProtectsRequests, CleanExitMeansDrained
<1>5. MainInv' /\ ListenerInv'
  BY <1>1, <1>2 DEF LifecycleIInv, MainInv, ListenerInv, Booting
<1>6. ReturnInv'
  BY <1>1 DEF LifecycleIInv, ReturnInv, Quiet
<1> QED
  BY <1>3, <1>4, <1>5, <1>6 DEF LifecycleIInv, LifecycleInv

LEMMA StepRestart ==
  ASSUME LifecycleIInv, RestartContainer
  PROVE LifecycleIInv'
BY LifecycleAssumption, AttemptsPositive
   DEF RestartContainer, LifecycleIInv, LifecycleInv, LifecycleTypeOK, DrainProtectsRequests,
       CleanExitMeansDrained, MainInv, ListenerInv, ReturnInv, Untouched, Booting, Mains,
       Active, Outcomes

LEMMA StepLifecycle == LifecycleIInv /\ [LifecycleNext]_lifecycleVars => LifecycleIInv'
BY StepBoot, StepShutDown, StepEnds, StepServe, StepAround, StepListen, StepRestart
   DEF LifecycleNext, ShutDown

\* Wherever the signal, a kill, a crash or a fault of the database comes, a
\* request only loses the pool or the process to a drain that took all of its
\* time, a shutdown without a listener, a kill or a crash, and exit code 0 says
\* that none did: for any number of requests and attempts, and any timeouts.
\* (run, Run, Shutdown, Close)
THEOREM LifecycleIsSafe == LifecycleSpec => []LifecycleInv
<1>1. LifecycleIInv => LifecycleInv
  BY DEF LifecycleIInv
<1> QED
  BY <1>1, InitLifecycle, StepLifecycle, PTL DEF LifecycleSpec

-----------------------------------------------------------------------------
\* The schema.  What there has ever been of it, whoever took it away since, only
\* grows, and each process and each version on record have their share behind them.

\* What there has ever been of the schema.
Ever == schema \cup undone

\* The records of the processes.
Records == [at : {"idle", "failed", "checking", "reading", "running", "recording", "serving"},
            command : {"none", "up", "down"}, v : 0 .. Latest, i : Nat]

\* What a process has put behind it: the scripts before the one it runs, and
\* the statements of that one before the next.
Reached(q) ==
  IF q.command = "up" /\ q.at = "running"
  THEN Complete(q.v - 1) \cup {Up[q.v][j].of : j \in 1 .. q.i - 1}
  ELSE IF q.command = "up" /\ q.at = "recording" THEN Complete(q.v)
  ELSE IF q.at = "serving" THEN Objects ELSE {}

Tracked ==
  /\ \A v \in ToSet(versions) : Complete(v) \subseteq Ever
  /\ \A p \in Processes : Reached(proc[p]) \subseteq Ever

\* Whoever migrates has a command, and whoever runs a script a version.
Commanded(q) ==
  /\ q.at \in {"checking", "reading", "running", "recording"} => q.command \in {"up", "down"}
  /\ q.at \in {"running", "recording"} => q.v # 0

InScript(q) ==
  q.at = "running" => q.i \in DOMAIN (IF q.command = "down" THEN Down[q.v] ELSE Up[q.v])

\* The columns are those of users, and only with the column is an account one
\* that registered with it.
Housed ==
  /\ schema \cap Columns # {} => "users" \in schema
  /\ \A a \in Accounts : accounts[a] = "unverified" => "verified" \in schema

\* With the column, or on the way to record that it is there.
Past(q) ==
  \/ q.command = "up" /\ q.at = "running" /\ (q.v > 4 \/ (q.v = 4 /\ q.i > 1))
  \/ q.command = "up" /\ q.at = "recording" /\ q.v > 3
  \/ q.at = "serving"

\* About to confirm the accounts that predate the column.
Confirming(q) == q.command = "up" /\ q.at = "running" /\ q.v = 4 /\ q.i = 2

\* Nobody has registered with the column, and no version with it is on record.
Unused == /\ \A a \in Accounts : accounts[a] # "unverified"
          /\ \A v \in ToSet(versions) : v < 4

\* Whoever is about to, added the column a moment ago: nobody else knows of it.
Spared ==
  "verified" \notin undone =>
    \A p \in Processes : Confirming(proc[p]) =>
      Unused /\ \A r \in Processes \ {p} : ~Past(proc[r])

MigrationIInv ==
  /\ MigrationTypeOK /\ \A p \in Processes : Commanded(proc[p])
  /\ Tracked /\ Housed /\ Spared

-----------------------------------------------------------------------------
\* The scripts

LEMMA Scripts ==
  /\ Latest = 6 /\ DOMAIN Up = 1 .. 6
  /\ Len(Up[1]) = 1 /\ Up[1][1] = Create("users")
  /\ Len(Up[2]) = 1 /\ Up[2][1] = Create("progress")
  /\ Len(Up[3]) = 1 /\ Up[3][1] = Add("activity")
  /\ Len(Up[4]) = 4 /\ Up[4][1] = Add("verified") /\ Up[4][2] = Backfill
  /\ Up[4][3] = Create("codes") /\ Up[4][4] = Create("tokens")
  /\ Len(Up[5]) = 1 /\ Up[5][1] = Add("profile")
  /\ Len(Up[6]) = 1 /\ Up[6][1] = Add("zone")
BY DEF Latest, Up

LEMMA DownScripts ==
  /\ Len(Down[1]) = 1 /\ Down[1][1] = Drop("users")
  /\ Len(Down[2]) = 1 /\ Down[2][1] = Drop("progress")
  /\ Len(Down[3]) = 1 /\ Down[3][1] = DropColumns("activity")
  /\ Len(Down[4]) = 3 /\ Down[4][1] = Drop("tokens") /\ Down[4][2] = Drop("codes")
  /\ Down[4][3] = DropColumns("verified")
  /\ Len(Down[5]) = 1 /\ Down[5][1] = DropColumns("profile")
  /\ Len(Down[6]) = 1 /\ Down[6][1] = DropColumns("zone")
BY DEF Down

LEMMA Domains ==
  ASSUME NEW v \in 1 .. 6
  PROVE  /\ Len(Up[v]) \in Nat /\ DOMAIN Up[v] = 1 .. Len(Up[v])
         /\ Len(Down[v]) \in Nat /\ DOMAIN Down[v] = 1 .. Len(Down[v])
BY DEF Up, Down

\* What may be in a script.  Only the second statement of 00004 confirms accounts,
\* and only the first adds the column.
Raises(s, v, i) ==
  \/ s.op = "create" /\ s.of \in Tables
  \/ s.op = "add" /\ s.of \in Columns /\ (s.of = "verified" <=> v = 4 /\ i = 1)
  \/ s.op = "update" /\ s.of = "verified" /\ v = 4 /\ i = 2

Lowers(s) ==
  \/ s.op = "drop" /\ s.of \in Tables
  \/ s.op = "dropColumns" /\ s.of \in Columns

LEMMA UpStatements ==
  ASSUME NEW v \in 1 .. 6, NEW i \in DOMAIN Up[v]
  PROVE  Raises(Up[v][i], v, i)
<1>1. v \in {1, 2, 3, 5, 6} => i = 1
  BY Scripts, Domains
<1>2. v = 4 => i \in {1, 2, 3, 4}
  BY Scripts, Domains
<1>3. CASE v \in {1, 2, 3, 5, 6}
  BY <1>1, <1>3, Scripts DEF Raises, Create, Add, Tables, Columns
<1>4. CASE v = 4
  BY <1>2, <1>4, Scripts DEF Raises, Create, Add, Backfill, Tables, Columns
<1> QED BY <1>3, <1>4

LEMMA DownStatements ==
  ASSUME NEW v \in 1 .. 6, NEW i \in DOMAIN Down[v]
  PROVE  Lowers(Down[v][i])
<1>1. v \in {1, 2, 3, 5, 6} => i = 1
  BY DownScripts, Domains
<1>2. v = 4 => i \in {1, 2, 3}
  BY DownScripts, Domains
<1>3. CASE v \in {1, 2, 3, 5, 6}
  BY <1>1, <1>3, DownScripts DEF Lowers, Drop, DropColumns, Tables, Columns
<1>4. CASE v = 4
  BY <1>2, <1>4, DownScripts DEF Lowers, Drop, DropColumns, Tables, Columns
<1> QED BY <1>3, <1>4

\* What a script adds to what the ones before it leave.
LEMMA Completes ==
  /\ Complete(0) = {}
  /\ \A v, w \in 0 .. 6 : v <= w => Complete(v) \subseteq Complete(w)
  /\ \A v \in 1 .. 6 : \A o : o \in Complete(v) <=>
       o \in Complete(v - 1) \/ \E j \in DOMAIN Up[v] : o = Up[v][j].of
<1>1. \A v : \A o : o \in Complete(v) <=>
        \E w \in 1 .. v : \E j \in DOMAIN Up[w] : o = Up[w][j].of
  BY DEF Complete, ToSet
<1>2. Complete(0) = {}
  BY <1>1
<1>3. \A v, w \in 0 .. 6 : v <= w => Complete(v) \subseteq Complete(w)
  BY <1>1
<1>4. ASSUME NEW v \in 1 .. 6, NEW o
      PROVE  o \in Complete(v) <=>
               o \in Complete(v - 1) \/ \E j \in DOMAIN Up[v] : o = Up[v][j].of
  <2>1. 1 .. v = (1 .. v - 1) \cup {v}
    OBVIOUS
  <2> QED BY <1>1, <2>1
<1> QED BY <1>2, <1>3, <1>4

LEMMA CompleteObjects ==
  /\ \A v \in 0 .. 6 : Complete(v) \subseteq Objects
  /\ \A v \in 1 .. 6 : "users" \in Complete(v)
  /\ \A v \in 4 .. 6 : "verified" \in Complete(v)
  /\ Complete(6) = Objects
<1>1. ASSUME NEW v \in 0 .. 6, NEW o \in Complete(v) PROVE o \in Objects
  <2>1. PICK w \in 1 .. v : \E j \in DOMAIN Up[w] : o = Up[w][j].of
    BY <1>1 DEF Complete, ToSet
  <2>2. PICK j \in DOMAIN Up[w] : o = Up[w][j].of
    BY <2>1
  <2> QED BY <2>2, UpStatements DEF Raises, Objects, Tables, Columns
<1>2. /\ 1 \in DOMAIN Up[1] /\ 1 \in DOMAIN Up[2] /\ 1 \in DOMAIN Up[3]
      /\ 1 \in DOMAIN Up[4] /\ 3 \in DOMAIN Up[4] /\ 4 \in DOMAIN Up[4]
      /\ 1 \in DOMAIN Up[5] /\ 1 \in DOMAIN Up[6]
  BY Scripts, Domains
<1>3. /\ "users" \in Complete(1) /\ "progress" \in Complete(2) /\ "activity" \in Complete(3)
      /\ "verified" \in Complete(4) /\ "codes" \in Complete(4) /\ "tokens" \in Complete(4)
      /\ "profile" \in Complete(5) /\ "zone" \in Complete(6)
  BY <1>2, Completes, Scripts DEF Create, Add
<1>4. \A v \in 1 .. 6 : v <= 6 /\ Complete(1) \subseteq Complete(v) /\ Complete(v) \subseteq Complete(6)
  BY Completes
<1>5. \A v \in 4 .. 6 : Complete(4) \subseteq Complete(v)
  BY Completes
<1> QED BY <1>1, <1>3, <1>4, <1>5 DEF Objects, Tables, Columns

-----------------------------------------------------------------------------
\* The table of versions

LEMMA Removed ==
  ASSUME NEW S, NEW s \in Seq(S), IsInjective(s), NEW e
  PROVE  /\ RemoveFirst(s, e) \in Seq(S)
         /\ IsInjective(RemoveFirst(s, e))
         /\ ToSet(RemoveFirst(s, e)) = ToSet(s) \ {e}
<1>0. Len(s) \in Nat /\ DOMAIN s = 1 .. Len(s)
  OBVIOUS
<1>1. CASE ~ \E i \in 1 .. Len(s) : s[i] = e
  BY <1>0, <1>1 DEF RemoveFirst, ToSet
<1>2. CASE \E i \in 1 .. Len(s) : s[i] = e
  <2>1. PICK i \in 1 .. Len(s) : s[i] = e
    BY <1>2
  <2>2. {j \in 1 .. Len(s) : s[j] = e} = {i}
    BY <1>0, <2>1 DEF IsInjective
  <2>3. Min({i}) = i
    BY DEF Min
  <2>4. SelectInSeq(s, LAMBDA v : v = e) = i
    BY <2>2, <2>3 DEF SelectInSeq
  <2> DEFINE t == RemoveAt(s, i)
  <2>5. RemoveFirst(s, e) = t
    BY <1>2, <2>4 DEF RemoveFirst
  <2>6. /\ t \in Seq(S) /\ Len(t) = Len(s) - 1
        /\ \A j \in 1 .. Len(t) : t[j] = IF j < i THEN s[j] ELSE s[j + 1]
    <3> DEFINE a == SubSeq(s, 1, i - 1)
               b == SubSeq(s, i + 1, Len(s))
    <3>1. /\ a \in Seq(S) /\ Len(a) = i - 1
          /\ \A j \in 1 .. i - 1 : a[j] = s[j]
      BY <1>0
    <3>2. /\ b \in Seq(S) /\ Len(b) = Len(s) - i
          /\ \A j \in 1 .. Len(s) - i : b[j] = s[i + j]
      <4>1. i + 1 \in Int /\ Len(s) \in Int /\ i \in Int /\ i <= Len(s)
        BY <1>0, <2>1
      <4>2. \A j \in i + 1 .. Len(s) : s[j] \in S
        BY <1>0, <2>1
      <4>3. /\ b \in Seq(S)
            /\ Len(b) = IF i + 1 <= Len(s) THEN Len(s) - (i + 1) + 1 ELSE 0
            /\ \A j \in 1 .. Len(s) - (i + 1) + 1 : b[j] = s[i + 1 + j - 1]
        <5> HIDE DEF t
        <5> QED BY <4>1, <4>2, SubSeqProperties
      <4> HIDE DEF b
      <4>4. Len(b) = Len(s) - i
        BY <4>1, <4>3
      <4>5. ASSUME NEW j \in 1 .. Len(s) - i PROVE b[j] = s[i + j]
        <5>1. j \in 1 .. Len(s) - (i + 1) + 1 /\ i + 1 + j - 1 = i + j
          BY <4>1
        <5> QED BY <4>3, <5>1
      <4> QED BY <4>3, <4>4, <4>5
    <3>3. t = a \o b
      BY DEF RemoveAt
    <3> HIDE DEF t, a, b
    <3>4. t \in Seq(S) /\ Len(t) = Len(a) + Len(b)
      BY <3>1, <3>2, <3>3, ConcatProperties
    <3>5. \A j \in 1 .. Len(a) + Len(b) : t[j] = IF j <= Len(a) THEN a[j] ELSE b[j - Len(a)]
      BY <3>1, <3>2, <3>3, ConcatProperties
    <3>6. ASSUME NEW j \in 1 .. Len(t) PROVE t[j] = IF j < i THEN s[j] ELSE s[j + 1]
      <4>1. CASE j < i
        BY <1>0, <3>1, <3>2, <3>4, <3>5, <4>1
      <4>2. CASE j >= i
        <5>1. j - Len(a) \in 1 .. Len(s) - i /\ i + (j - Len(a)) = j + 1
          BY <1>0, <2>1, <3>1, <3>2, <3>4, <4>2
        <5>2. t[j] = b[j - Len(a)]
          BY <1>0, <3>1, <3>2, <3>4, <3>5, <4>2
        <5>3. t[j] = s[i + (j - Len(a))]
          BY <3>2, <5>1, <5>2
        <5>4. t[j] = s[j + 1] /\ ~ j < i
          BY <1>0, <2>1, <4>2, <5>1, <5>3
        <5> QED BY <5>4
      <4> QED BY <1>0, <4>1, <4>2
    <3> QED BY <1>0, <2>1, <3>1, <3>2, <3>4, <3>6
  <2> HIDE DEF t
  <2>7. Len(t) \in Nat /\ DOMAIN t = 1 .. Len(t)
    BY <2>6
  <2>8. IsInjective(t)
    BY <1>0, <2>1, <2>6, <2>7 DEF IsInjective
  <2>9. ToSet(t) \subseteq ToSet(s) \ {e}
    <3>1. \A j \in 1 .. Len(s) : j # i => s[j] # e
      BY <2>2
    <3>2. ASSUME NEW j \in 1 .. Len(t) PROVE \E k \in 1 .. Len(s) : k # i /\ t[j] = s[k]
      <4>1. CASE j < i
        BY <1>0, <2>1, <2>6, <4>1
      <4>2. CASE j >= i
        BY <1>0, <2>1, <2>6, <4>2
      <4> QED BY <1>0, <4>1, <4>2
    <3> QED BY <1>0, <2>7, <3>1, <3>2 DEF ToSet
  <2>10. ASSUME NEW j \in 1 .. Len(s), j # i PROVE s[j] \in ToSet(t)
    <3>1. CASE j < i
      BY <1>0, <2>1, <2>6, <2>7, <3>1 DEF ToSet
    <3>2. CASE j > i
      <4>1. j - 1 \in 1 .. Len(t) /\ t[j - 1] = s[j]
        BY <1>0, <2>1, <2>6, <2>7, <3>2
      <4> QED BY <2>7, <4>1 DEF ToSet
    <3> QED BY <1>0, <2>1, <2>10, <3>1, <3>2
  <2>11. ToSet(s) \ {e} \subseteq ToSet(t)
    BY <1>0, <2>1, <2>10 DEF ToSet
  <2> QED BY <2>5, <2>6, <2>8, <2>9, <2>11
<1> QED BY <1>1, <1>2

LEMMA Appended ==
  ASSUME NEW S, NEW s \in Seq(S), IsInjective(s), NEW e \in S, e \notin ToSet(s)
  PROVE  /\ Append(s, e) \in Seq(S)
         /\ IsInjective(Append(s, e))
         /\ ToSet(Append(s, e)) = ToSet(s) \cup {e}
<1>0. Len(s) \in Nat /\ DOMAIN s = 1 .. Len(s)
  OBVIOUS
<1>1. /\ Append(s, e) \in Seq(S) /\ DOMAIN Append(s, e) = 1 .. Len(s) + 1
      /\ Append(s, e)[Len(s) + 1] = e
      /\ \A i \in 1 .. Len(s) : Append(s, e)[i] = s[i]
  BY <1>0
<1>2. IsInjective(Append(s, e))
  BY <1>0, <1>1 DEF IsInjective, ToSet
<1>3. ToSet(Append(s, e)) = ToSet(s) \cup {e}
  BY <1>0, <1>1 DEF ToSet
<1> QED BY <1>1, <1>2, <1>3

LEMMA HighestIs ==
  ASSUME ToSet(versions) \subseteq 1 .. 6
  PROVE  /\ Highest \in 0 .. 6 /\ Highest \in ToSet(versions) \cup {0}
         /\ \A v \in ToSet(versions) : v <= Highest
<1> DEFINE recorded == ToSet(versions)
           Is(v) == v \in recorded \cup {0} /\ \A w \in recorded : w <= v
<1>1. \E v \in 0 .. 6 : Is(v)
  <2>1. CASE 6 \in recorded
    <3>1. Is(6)
      BY <2>1
    <3> QED BY <3>1
  <2>2. CASE 6 \notin recorded /\ 5 \in recorded
    <3>1. Is(5)
      BY <2>2
    <3> QED BY <3>1
  <2>3. CASE recorded \subseteq 1 .. 4 /\ 4 \in recorded
    <3>1. Is(4)
      BY <2>3
    <3> QED BY <3>1
  <2>4. CASE recorded \subseteq 1 .. 3 /\ 3 \in recorded
    <3>1. Is(3)
      BY <2>4
    <3> QED BY <3>1
  <2>5. CASE recorded \subseteq 1 .. 2 /\ 2 \in recorded
    <3>1. Is(2)
      BY <2>5
    <3> QED BY <3>1
  <2>6. CASE recorded \subseteq 1 .. 1 /\ 1 \in recorded
    <3>1. Is(1)
      BY <2>6
    <3> QED BY <3>1
  <2>7. CASE recorded = {}
    <3>1. Is(0)
      BY <2>7
    <3> QED BY <3>1
  <2> HIDE DEF recorded
  <2>8. recorded \subseteq 1 .. 6
    BY DEF recorded
  <2> QED BY <2>1, <2>2, <2>3, <2>4, <2>5, <2>6, <2>7, <2>8
<1>2. Highest = CHOOSE v \in 0 .. 6 : Is(v)
  BY Scripts, Zenon DEF Highest
<1> QED BY <1>1, <1>2

\* The version recorded last is one on record, or there is none.
LEMMA CurrentIs ==
  ASSUME versions \in Seq(1 .. 6)
  PROVE  /\ ToSet(versions) \subseteq 1 .. 6
         /\ Current \in 0 .. 6 /\ (Current # 0 => Current \in ToSet(versions))
<1>1. Len(versions) \in Nat /\ DOMAIN versions = 1 .. Len(versions)
  OBVIOUS
<1>2. ToSet(versions) \subseteq 1 .. 6
  BY <1>1 DEF ToSet
<1>3. CASE versions = <<>>
  BY <1>2, <1>3 DEF Current
<1>4. CASE versions # <<>>
  <2>1. Len(versions) \in DOMAIN versions
    BY <1>1, <1>4
  <2> QED BY <1>2, <1>4, <2>1 DEF Current, Last, ToSet
<1> QED BY <1>2, <1>3, <1>4

-----------------------------------------------------------------------------
\* The steps

LEMMA Typed ==
  ASSUME MigrationTypeOK
  PROVE  /\ versions \in Seq(1 .. 6) /\ IsInjective(versions)
         /\ ToSet(versions) \subseteq 1 .. 6 /\ Current \in 0 .. 6
         /\ DOMAIN proc = Processes
         /\ \A p \in Processes : proc[p] \in Records /\ InScript(proc[p])
<1>1. versions \in Seq(1 .. 6) /\ IsInjective(versions)
  BY Scripts DEF MigrationTypeOK
<1>2. \A p \in Processes : proc[p] \in Records
  BY DEF MigrationTypeOK, Records
<1>3. \A p \in Processes : InScript(proc[p])
  BY DEF MigrationTypeOK, Running, Script, InScript
<1> QED BY <1>1, <1>2, <1>3, CurrentIs DEF MigrationTypeOK

\* A statement adds to what there has ever been; it houses what it adds, takes
\* with a table what is in it, and registers nobody.
LEMMA StatementIs ==
  ASSUME MigrationTypeOK, Housed, NEW s, NEW v, NEW i, Raises(s, v, i) \/ Lowers(s),
         Applies(s), Effect(s)
  PROVE  /\ schema' \subseteq Objects /\ undone' \subseteq Objects
         /\ accounts' \in [Accounts -> {"none", "legacy", "unverified", "verified"}]
         /\ Ever \subseteq Ever' /\ undone \subseteq undone'
         /\ Raises(s, v, i) => s.of \in Ever'
         /\ Housed'
         /\ \A a \in Accounts : accounts'[a] = "unverified" => accounts[a] = "unverified"
<1> USE DEF Objects
<1>1. /\ undone' = undone \cup (schema \ schema')
      /\ schema \subseteq Objects /\ undone \subseteq Objects
  BY DEF Effect, MigrationTypeOK
<1>2. schema' \subseteq Objects
  BY <1>1 DEF Effect, Raises, Lowers
<1>3. /\ accounts' \in [Accounts -> {"none", "legacy", "unverified", "verified"}]
      /\ \A a \in Accounts :
           /\ accounts'[a] = "unverified" => accounts[a] = "unverified" /\ "verified" \in schema'
  BY DEF Effect, MigrationTypeOK
<1>4. Raises(s, v, i) => s.of \in Ever'
  BY DEF Effect, Applies, Raises, Ever
<1>5. schema' \cap Columns # {} => "users" \in schema'
  <2>1. CASE s.op \in {"create", "add"}
    <3>1. schema' = schema \cup {s.of} /\ (s.op = "create" => s.of \in Tables)
          /\ (s.op = "add" => "users" \in schema)
      BY <2>1 DEF Effect, Applies, Raises, Lowers
    <3> QED BY <2>1, <3>1 DEF Housed, Tables, Columns
  <2>2. CASE s.op = "update"
    BY <2>2 DEF Effect, Housed
  <2>3. CASE s.op \in {"drop", "dropColumns"}
    BY <2>3 DEF Effect, Lost, Housed, Lowers, Raises, Tables, Columns
  <2> QED BY <2>1, <2>2, <2>3 DEF Raises, Lowers
<1> QED BY <1>1, <1>2, <1>3, <1>4, <1>5 DEF Ever, Housed

\* Whoever is past the column knows it was there.
LEMMA PastKnows ==
  ASSUME NEW q \in Records, InScript(q), Commanded(q), Past(q)
  PROVE  "verified" \in Reached(q)
<1>1. q.v \in 0 .. 6
  BY Scripts DEF Records
<1>2. CASE q.command = "up" /\ q.at = "running" /\ q.v > 4
  <2>1. q.v - 1 \in 4 .. 6
    BY <1>1, <1>2
  <2> QED BY <1>2, <2>1, CompleteObjects DEF Reached
<1>3. CASE q.command = "up" /\ q.at = "running" /\ q.v = 4 /\ q.i > 1
  <2>1. 1 \in 1 .. q.i - 1 /\ Up[q.v][1].of = "verified"
    BY <1>3, Scripts DEF Records, Add
  <2> QED BY <1>3, <2>1 DEF Reached
<1>4. CASE q.command = "up" /\ q.at = "recording" /\ q.v > 3
  BY <1>1, <1>4, CompleteObjects DEF Reached
<1>5. CASE q.at = "serving"
  BY <1>5 DEF Reached, Objects, Columns
<1> QED BY <1>2, <1>3, <1>4, <1>5 DEF Past

\* One process moves.
LEMMA OneMoves ==
  ASSUME MigrationIInv, NEW p \in Processes, NEW q \in Records,
         proc' = [proc EXCEPT ![p] = q], InScript(q), Commanded(q),
         given' \in 0 .. MaxCommands, schema' \subseteq Objects, undone' \subseteq Objects,
         accounts' \in [Accounts -> {"none", "legacy", "unverified", "verified"}],
         Housed', Ever \subseteq Ever', undone \subseteq undone',
         versions' \in Seq(1 .. 6), IsInjective(versions'),
         \A v \in ToSet(versions') : Complete(v) \subseteq Ever',
         Reached(q) \subseteq Ever',
         "verified" \notin undone' =>
           /\ \A r \in Processes \ {p} : Confirming(proc[r]) => Unused' /\ ~Past(q)
           /\ Confirming(q) => Unused' /\ \A r \in Processes \ {p} : ~Past(proc[r])
  PROVE  MigrationIInv'
<1>1. /\ DOMAIN proc = Processes /\ proc'[p] = q
      /\ \A r \in Processes \ {p} : proc'[r] = proc[r]
  BY Typed DEF MigrationIInv
<1>2. \A r \in Processes : proc[r] \in Records /\ InScript(proc[r]) /\ Commanded(proc[r])
  BY Typed DEF MigrationIInv
<1>3. \A r \in Processes : proc'[r] \in Records /\ InScript(proc'[r]) /\ Commanded(proc'[r])
  BY <1>1, <1>2
<1>4. MigrationTypeOK'
  <2>1. proc' \in [Processes -> Records]
    BY <1>1, <1>3
  <2>2. \A r \in Processes : Running(r)' => (proc[r].i)' \in DOMAIN Script(r)'
    BY <1>3 DEF Running, Script, InScript
  <2>3. versions' \in Seq(1 .. Latest) /\ IsInjective(versions)'
    BY Scripts
  <2> QED BY <2>1, <2>2, <2>3 DEF MigrationTypeOK, Records
<1>5. Tracked'
  <2>1. \A r \in Processes : Reached(proc[r]) \subseteq Ever
    BY DEF MigrationIInv, Tracked
  <2>2. \A r \in Processes : Reached(proc'[r]) \subseteq Ever'
    BY <1>1, <2>1
  <2> QED BY <2>2 DEF Tracked
<1>6. Spared'
  <2> SUFFICES ASSUME "verified" \notin undone', NEW r \in Processes, Confirming(proc'[r])
               PROVE  Unused' /\ \A t \in Processes \ {r} : ~Past(proc'[t])
    BY DEF Spared
  <2>1. CASE r = p
    BY <1>1, <2>1
  <2>2. CASE r # p
    <3>1. Confirming(proc[r]) /\ Unused' /\ ~Past(q)
      BY <1>1, <2>2
    <3>2. \A t \in Processes \ {r} : ~Past(proc[t])
      BY <3>1 DEF MigrationIInv, Spared
    <3> QED BY <1>1, <3>1, <3>2
  <2> QED BY <2>1, <2>2
<1> QED BY <1>3, <1>4, <1>5, <1>6 DEF MigrationIInv

\* A step of the process alone, to where it is not about to confirm, nor past the
\* column unless nobody else is.
LEMMA OneWaits ==
  ASSUME MigrationIInv, NEW p \in Processes, NEW q \in Records,
         proc' = [proc EXCEPT ![p] = q], InScript(q), Commanded(q), given' \in 0 .. MaxCommands,
         UNCHANGED <<schema, accounts, undone, versions>>,
         Reached(q) \subseteq Ever, ~Confirming(q),
         Past(q) /\ "verified" \notin undone => \A r \in Processes \ {p} : ~Confirming(proc[r])
  PROVE  MigrationIInv'
<1>1. /\ Ever' = Ever /\ Housed' /\ (Unused <=> Unused')
      /\ schema' \subseteq Objects /\ undone' \subseteq Objects /\ undone \subseteq undone'
      /\ accounts' \in [Accounts -> {"none", "legacy", "unverified", "verified"}]
  BY DEF MigrationIInv, MigrationTypeOK, Ever, Housed, Unused
<1>2. /\ versions' \in Seq(1 .. 6) /\ IsInjective(versions')
      /\ \A v \in ToSet(versions') : Complete(v) \subseteq Ever'
  BY <1>1, Typed DEF MigrationIInv, Tracked
<1>3. "verified" \notin undone' =>
        \A r \in Processes \ {p} : Confirming(proc[r]) => Unused' /\ ~Past(q)
  BY <1>1 DEF MigrationIInv, Spared
<1> QED BY <1>1, <1>2, <1>3, OneMoves

LEMMA IdleIs ==
  /\ IdleProcess \in Records /\ Failed \in Records
  /\ \A q \in {IdleProcess, Failed} :
       InScript(q) /\ Commanded(q) /\ Reached(q) = {} /\ ~Past(q) /\ ~Confirming(q)
BY DEF IdleProcess, Failed, Records, Latest, Up, InScript, Commanded, Reached, Past, Confirming

LEMMA StepStart ==
  ASSUME MigrationIInv, NEW p \in Processes, NEW c \in CommandsOf(p), Start(p, c)
  PROVE  MigrationIInv'
<1> DEFINE q == [at |-> IF c = "up" THEN "checking" ELSE "reading", command |-> c, v |-> 0, i |-> 0]
<1>1. proc' = [proc EXCEPT ![p] = q]
  BY DEF Start
<1>2. c \in {"up", "down"}
  BY DEF CommandsOf
<1>3. q \in Records
  BY <1>2, Scripts DEF Records
<1>4. q.at \in {"checking", "reading"} /\ q.command \in {"up", "down"}
  BY <1>2
<1>5. given' \in 0 .. MaxCommands
  BY MigrationsAssumption DEF Start, MigrationIInv, MigrationTypeOK
<1>6. UNCHANGED <<schema, accounts, undone, versions>>
  BY DEF Start
<1> HIDE DEF q
<1>7. InScript(q) /\ Commanded(q) /\ Reached(q) = {} /\ ~Past(q) /\ ~Confirming(q)
  BY <1>4 DEF InScript, Commanded, Reached, Past, Confirming
<1> QED BY <1>1, <1>3, <1>5, <1>6, <1>7, OneWaits

LEMMA StepCheckVersions ==
  ASSUME MigrationIInv, NEW p \in Processes, CheckVersions(p)
  PROVE  MigrationIInv'
<1>0. proc[p] \in Records /\ Commanded(proc[p]) /\ proc[p].at = "checking"
  BY Typed DEF MigrationIInv, CheckVersions
<1>1. UNCHANGED <<schema, accounts, undone, versions>> /\ given' \in 0 .. MaxCommands
  BY DEF CheckVersions, MigrationIInv, MigrationTypeOK
<1>2. CASE proc' = [proc EXCEPT ![p] = Failed]
  BY <1>1, <1>2, IdleIs, OneWaits
<1> DEFINE q == [proc[p] EXCEPT !.at = "reading"]
<1>3. CASE proc' = [proc EXCEPT ![p] = q]
  <2>1. q \in Records /\ q.at = "reading" /\ q.command \in {"up", "down"}
    BY <1>0 DEF Records, Commanded
  <2> HIDE DEF q
  <2>2. InScript(q) /\ Commanded(q) /\ Reached(q) = {} /\ ~Past(q) /\ ~Confirming(q)
    BY <2>1 DEF InScript, Commanded, Reached, Past, Confirming
  <2> QED BY <1>1, <1>3, <2>1, <2>2, OneWaits
<1> QED BY <1>2, <1>3 DEF CheckVersions

\* The next script is one after a recorded version, so what is behind it is
\* there or was taken away; and one serves only with all of them recorded.
LEMMA StepReadVersion ==
  ASSUME MigrationIInv, NEW p \in Processes, ReadVersion(p)
  PROVE  MigrationIInv'
<1>0. /\ proc[p] \in Records /\ Commanded(proc[p]) /\ proc[p].at = "reading"
      /\ Current \in 0 .. 6 /\ (Current # 0 => Current \in ToSet(versions))
      /\ proc[p].command \in {"up", "down"}
  BY Typed, CurrentIs DEF MigrationIInv, ReadVersion, Commanded
<1>1. UNCHANGED <<schema, accounts, undone, versions>> /\ given' \in 0 .. MaxCommands
  BY DEF ReadVersion, MigrationIInv, MigrationTypeOK
<1>2. Complete(Current) \subseteq Ever
  BY <1>0, Completes DEF MigrationIInv, Tracked
<1> DEFINE
  next ==
    CASE proc[p].command = "up" /\ Current < 6 ->
           [proc[p] EXCEPT !.at = "running", !.v = Current + 1, !.i = 1]
      [] proc[p].command = "up" /\ Current = 6 /\ p = "api" -> [proc[p] EXCEPT !.at = "serving"]
      [] proc[p].command = "down" /\ Current > 0 ->
           [proc[p] EXCEPT !.at = "running", !.v = Current, !.i = 1]
      [] proc[p].command = "down" /\ Current = 0 -> Failed
      [] OTHER -> IdleProcess
<1>n. proc' = [proc EXCEPT ![p] = next]
  BY Scripts, Zenon DEF ReadVersion, NextVersion
<1>3. CASE proc[p].command = "up" /\ Current < 6
  <2> DEFINE q == [proc[p] EXCEPT !.at = "running", !.v = Current + 1, !.i = 1]
  <2>0. next = q
    BY <1>0, <1>3
  <2>1. proc' = [proc EXCEPT ![p] = q]
    BY <1>n, <2>0
  <2>2. /\ q.at = "running" /\ q.command = "up" /\ q.v = Current + 1 /\ q.i = 1
    BY <1>0, <1>3 DEF Records
  <2>3. q \in Records
    <3>1. Current + 1 \in 0 .. 6
      BY <1>0, <1>3
    <3> QED BY <1>0, <3>1, Scripts DEF Records
  <2> HIDE DEF q
  <2>4. InScript(q) /\ Commanded(q) /\ ~Confirming(q)
    <3>1. 1 \in DOMAIN Up[Current + 1]
      <4>1. Current + 1 \in 1 .. 6
        BY <1>0, <1>3
      <4>2. Len(Up[Current + 1]) >= 1
        BY <4>1, Scripts
      <4> QED BY <4>1, <4>2, Domains
    <3>2. q.v \in 1 .. 6
      BY <1>0, <1>3, <2>2
    <3>3. InScript(q)
      BY <2>2, <3>1 DEF InScript
    <3> QED BY <2>2, <3>2, <3>3 DEF Commanded, Confirming
  <2>5. Reached(q) \subseteq Ever
    BY <1>0, <1>2, <2>2 DEF Reached
  <2>6. Past(q) /\ "verified" \notin undone => \A r \in Processes \ {p} : ~Confirming(proc[r])
    <3>1. Past(q) => Current >= 4 /\ Current \in ToSet(versions)
      BY <1>0, <2>2 DEF Past
    <3> QED BY <1>0, <3>1 DEF MigrationIInv, Spared, Unused
  <2> QED BY <1>1, <2>1, <2>3, <2>4, <2>5, <2>6, OneWaits
<1>4. CASE proc[p].command = "up" /\ Current = 6 /\ p = "api"
  <2> DEFINE q == [proc[p] EXCEPT !.at = "serving"]
  <2>0. next = q
    BY <1>0, <1>4
  <2>1. proc' = [proc EXCEPT ![p] = q]
    BY <1>n, <2>0
  <2>2. q \in Records /\ q.at = "serving"
    BY <1>0 DEF Records
  <2> HIDE DEF q
  <2>3. InScript(q) /\ Commanded(q) /\ ~Confirming(q) /\ Reached(q) = Objects
    BY <2>2 DEF InScript, Commanded, Confirming, Reached
  <2>4. Objects \subseteq Ever /\ 6 \in ToSet(versions)
    BY <1>0, <1>2, <1>4, CompleteObjects
  <2>5. "verified" \notin undone => \A r \in Processes \ {p} : ~Confirming(proc[r])
    BY <2>4 DEF MigrationIInv, Spared, Unused
  <2> QED BY <1>1, <2>1, <2>2, <2>3, <2>4, <2>5, OneWaits
<1>5. CASE proc[p].command = "down" /\ Current > 0
  <2> DEFINE q == [proc[p] EXCEPT !.at = "running", !.v = Current, !.i = 1]
  <2>0. next = q
    BY <1>0, <1>5
  <2>1. proc' = [proc EXCEPT ![p] = q]
    BY <1>n, <2>0
  <2>2. q.at = "running" /\ q.command = "down" /\ q.v = Current /\ q.i = 1
    BY <1>0, <1>5 DEF Records
  <2>3. q \in Records
    BY <1>0, Scripts DEF Records
  <2> HIDE DEF q
  <2>4. 1 \in DOMAIN Down[Current]
    <3>1. Current \in 1 .. 6
      BY <1>0, <1>5
    <3>2. Len(Down[Current]) >= 1
      BY <3>1, DownScripts
    <3> QED BY <3>1, <3>2, Domains
  <2>5. InScript(q) /\ Commanded(q) /\ ~Past(q) /\ ~Confirming(q) /\ Reached(q) = {}
    BY <1>5, <2>2, <2>4 DEF InScript, Commanded, Past, Confirming, Reached
  <2> QED BY <1>1, <2>1, <2>3, <2>5, OneWaits
<1>6. CASE next \in {Failed, IdleProcess}
  <2> HIDE DEF next
  <2> QED BY <1>1, <1>6, <1>n, IdleIs, OneWaits
<1>7. \/ proc[p].command = "up" /\ Current < 6
      \/ proc[p].command = "up" /\ Current = 6 /\ p = "api"
      \/ proc[p].command = "down" /\ Current > 0
      \/ next \in {Failed, IdleProcess}
  BY <1>0
<1> HIDE DEF next
<1> QED BY <1>3, <1>4, <1>5, <1>6, <1>7

\* The statement a process is at is one of a script.
LEMMA AtStatement ==
  ASSUME MigrationIInv, NEW p \in Processes, Running(p)
  PROVE  /\ proc[p] \in Records /\ proc[p].v \in 1 .. 6 /\ proc[p].i \in DOMAIN Script(p)
         /\ DOMAIN Script(p) = 1 .. Len(Script(p)) /\ Len(Script(p)) \in Nat
         /\ proc[p].command = "up" =>
              /\ Script(p) = Up[proc[p].v]
              /\ Raises(Script(p)[proc[p].i], proc[p].v, proc[p].i)
         /\ proc[p].command = "down" =>
              Script(p) = Down[proc[p].v] /\ Lowers(Script(p)[proc[p].i])
         /\ proc[p].command \in {"up", "down"}
<1>1. /\ proc[p] \in Records /\ Commanded(proc[p]) /\ proc[p].at = "running"
      /\ proc[p].i \in DOMAIN Script(p)
  BY Typed DEF MigrationIInv, Running, MigrationTypeOK
<1>2. proc[p].v \in 1 .. 6 /\ proc[p].command \in {"up", "down"}
  BY <1>1, Scripts DEF Records, Commanded
<1>3. CASE proc[p].command = "up"
  BY <1>1, <1>2, <1>3, Domains, UpStatements DEF Script
<1>4. CASE proc[p].command = "down"
  BY <1>1, <1>2, <1>4, Domains, DownStatements DEF Script
<1> QED BY <1>1, <1>2, <1>3, <1>4

\* What a statement leaves as it was, whichever process runs it.
LEMMA AfterStatement ==
  ASSUME MigrationIInv, NEW p \in Processes, Running(p), UNCHANGED versions,
         \/ UNCHANGED <<schema, accounts, undone>>
         \/ Applies(Script(p)[proc[p].i]) /\ Effect(Script(p)[proc[p].i])
  PROVE  /\ schema' \subseteq Objects /\ undone' \subseteq Objects
         /\ accounts' \in [Accounts -> {"none", "legacy", "unverified", "verified"}]
         /\ Ever \subseteq Ever' /\ undone \subseteq undone' /\ Housed'
         /\ versions' \in Seq(1 .. 6) /\ IsInjective(versions')
         /\ \A v \in ToSet(versions') : Complete(v) \subseteq Ever'
         /\ Unused => Unused'
<1> DEFINE s == Script(p)[proc[p].i]
<1>1. Raises(s, proc[p].v, proc[p].i) \/ Lowers(s)
  BY AtStatement
<1> HIDE DEF s
<1>2. /\ schema' \subseteq Objects /\ undone' \subseteq Objects
      /\ accounts' \in [Accounts -> {"none", "legacy", "unverified", "verified"}]
      /\ Ever \subseteq Ever' /\ undone \subseteq undone' /\ Housed'
      /\ \A a \in Accounts : accounts'[a] = "unverified" => accounts[a] = "unverified"
  <2>1. CASE UNCHANGED <<schema, accounts, undone>>
    BY <2>1 DEF MigrationIInv, MigrationTypeOK, Ever, Housed
  <2>2. CASE Applies(s) /\ Effect(s)
    BY <1>1, <2>2, StatementIs DEF MigrationIInv
  <2> QED BY <2>1, <2>2 DEF s
<1>3. /\ versions' \in Seq(1 .. 6) /\ IsInjective(versions')
      /\ \A v \in ToSet(versions') : Complete(v) \subseteq Ever'
  BY <1>2, Typed DEF MigrationIInv, Tracked
<1> QED BY <1>2, <1>3 DEF Unused

\* A process ends, wherever it was and whatever took effect.
LEMMA OneEnds ==
  ASSUME MigrationIInv, NEW p \in Processes, Running(p), UNCHANGED <<versions, given>>,
         \/ UNCHANGED <<schema, accounts, undone>>
         \/ Applies(Script(p)[proc[p].i]) /\ Effect(Script(p)[proc[p].i]),
         NEW q \in {IdleProcess, Failed}, proc' = [proc EXCEPT ![p] = q]
  PROVE  MigrationIInv'
<1>1. given' \in 0 .. MaxCommands
  BY DEF MigrationIInv, MigrationTypeOK
<1>2. "verified" \notin undone' =>
        \A r \in Processes \ {p} : Confirming(proc[r]) => Unused' /\ ~Past(q)
  BY AfterStatement, IdleIs DEF MigrationIInv, Spared
<1> QED BY <1>1, <1>2, AfterStatement, IdleIs, OneMoves

LEMMA StepInterrupted ==
  ASSUME MigrationIInv, NEW p \in Processes, Interrupted(p)
  PROVE  MigrationIInv'
<1>1. proc' = [proc EXCEPT ![p] = IdleProcess] /\ UNCHANGED <<versions, given>>
  BY DEF Interrupted
<1>2. CASE UNCHANGED <<schema, accounts, undone>>
  BY <1>1, <1>2, IdleIs, OneWaits DEF MigrationIInv, MigrationTypeOK
<1>3. CASE /\ Running(p)
           /\ Applies(Script(p)[proc[p].i]) /\ Effect(Script(p)[proc[p].i])
  BY <1>1, <1>3, OneEnds
<1> QED BY <1>2, <1>3 DEF Interrupted

\* A statement goes through: the next one of the script, or the record.
LEMMA OneAdvances ==
  ASSUME MigrationIInv, NEW p \in Processes, Running(p), UNCHANGED <<versions, given>>,
         Applies(Script(p)[proc[p].i]), Effect(Script(p)[proc[p].i]),
         proc' = [proc EXCEPT ![p] = Advance(p)]
  PROVE  MigrationIInv'
<1> DEFINE s == Script(p)[proc[p].i]
           v == proc[p].v
           i == proc[p].i
           q == Advance(p)
<1>0. /\ v \in 1 .. 6 /\ i \in 1 .. Len(Script(p)) /\ Len(Script(p)) \in Nat
      /\ DOMAIN Script(p) = 1 .. Len(Script(p))
      /\ proc[p] \in Records /\ proc[p].at = "running" /\ proc[p].command \in {"up", "down"}
      /\ DOMAIN proc = Processes
  BY AtStatement, Typed DEF Running, MigrationIInv
<1>1. \/ i < Len(Script(p)) /\ q = [proc[p] EXCEPT !.i = i + 1]
      \/ i = Len(Script(p)) /\ q = [proc[p] EXCEPT !.at = "recording", !.i = 0]
  BY <1>0 DEF Advance
<1>2. /\ q \in Records /\ q.v = v /\ q.command = proc[p].command
      /\ \/ i < Len(Script(p)) /\ q.at = "running" /\ q.i = i + 1
         \/ i = Len(Script(p)) /\ q.at = "recording"
  <2>1. CASE i < Len(Script(p)) /\ q = [proc[p] EXCEPT !.i = i + 1]
    <3>1. i + 1 \in Nat
      BY <1>0
    <3> QED BY <1>0, <2>1, <3>1 DEF Records
  <2>2. CASE i = Len(Script(p)) /\ q = [proc[p] EXCEPT !.at = "recording", !.i = 0]
    <3>1. /\ q.at = "recording" /\ q.command = proc[p].command /\ q.v = v
      BY <1>0, <2>2 DEF Records
    <3>2. q \in Records
      <4>1. \A e \in Records : [e EXCEPT !.at = "recording", !.i = 0] \in Records
        BY DEF Records
      <4> HIDE DEF q
      <4> QED BY <1>0, <2>2, <4>1
    <3> QED BY <2>2, <3>1, <3>2
  <2> QED BY <1>1, <2>1, <2>2
<1>3. proc[p].command = "up" => Script(p) = Up[v] /\ Raises(s, v, i)
  BY <1>0, AtStatement
<1>4. proc[p].command = "down" => Script(p) = Down[v]
  BY <1>0, AtStatement
<1>5. given' \in 0 .. MaxCommands /\ proc' = [proc EXCEPT ![p] = q]
  BY DEF MigrationIInv, MigrationTypeOK
<1>6. Ever \subseteq Ever' /\ (proc[p].command = "up" => s.of \in Ever')
  BY <1>3, AfterStatement, StatementIs DEF MigrationIInv
<1>7. Effect(s) /\ Applies(s)
  OBVIOUS
<1>8. \A r \in Processes : proc[r] \in Records /\ InScript(proc[r]) /\ Commanded(proc[r])
  BY Typed DEF MigrationIInv
<1> HIDE DEF q
<1>9. InScript(q) /\ Commanded(q)
  BY <1>0, <1>2, <1>3, <1>4 DEF InScript, Commanded
<1>10. Reached(q) \subseteq Ever'
  <2>1. CASE proc[p].command # "up"
    BY <1>2, <2>1 DEF Reached
  <2>2. CASE proc[p].command = "up"
    <3>1. Reached(proc[p]) = Complete(v - 1) \cup {Up[v][j].of : j \in 1 .. i - 1}
      BY <1>0, <2>2 DEF Reached
    <3>2. Reached(proc[p]) \subseteq Ever'
      BY <1>6 DEF MigrationIInv, Tracked
    <3>3. \A j \in 1 .. i : Up[v][j].of \in Ever'
      <4>1. ASSUME NEW j \in 1 .. i - 1 PROVE Up[v][j].of \in Ever'
        BY <3>1, <3>2
      <4>2. Up[v][i].of \in Ever'
        BY <1>3, <1>6, <2>2
      <4> QED BY <1>0, <4>1, <4>2
    <3>4. CASE q.at = "running"
      <4>1. q.i - 1 = i
        BY <1>0, <1>2, <3>4
      <4> QED BY <1>2, <2>2, <3>1, <3>2, <3>3, <3>4, <4>1 DEF Reached
    <3>5. CASE q.at = "recording"
      <4>1. DOMAIN Up[v] = 1 .. i
        BY <1>0, <1>2, <1>3, <2>2, <3>5
      <4>2. \A o \in Complete(v) : o \in Complete(v - 1) \/ \E j \in 1 .. i : o = Up[v][j].of
        <5>1. \A o : o \in Complete(v) <=>
                o \in Complete(v - 1) \/ \E j \in DOMAIN Up[v] : o = Up[v][j].of
          BY <1>0, Completes
        <5> QED BY <4>1, <5>1
      <4>3. Complete(v) \subseteq Ever'
        BY <3>1, <3>2, <3>3, <4>2
      <4> QED BY <1>2, <2>2, <3>5, <4>3 DEF Reached
    <3> QED BY <1>2, <3>4, <3>5
  <2> QED BY <2>1, <2>2
<1>11. ASSUME "verified" \notin undone', NEW r \in Processes \ {p}, Confirming(proc[r])
       PROVE  Unused' /\ ~Past(q)
  <2>1. "verified" \notin undone /\ Unused' /\ ~Past(proc[p])
    BY <1>11, AfterStatement DEF MigrationIInv, Spared
  <2>2. "verified" \in schema
    <3>1. Up[4][1].of = "verified" /\ 1 \in 1 .. proc[r].i - 1
      BY <1>11, Scripts DEF Confirming, Add
    <3>2. "verified" \in Reached(proc[r])
      BY <1>11, <3>1 DEF Confirming, Reached
    <3> QED BY <2>1, <3>2 DEF MigrationIInv, Tracked, Ever
  <2>3. ~(proc[p].command = "up" /\ v = 4 /\ i = 1)
    <3> SUFFICES ASSUME proc[p].command = "up" /\ v = 4 /\ i = 1 PROVE FALSE
      OBVIOUS
    <3>1. s = Add("verified")
      BY <1>3, Scripts
    <3> QED BY <1>7, <2>2, <3>1 DEF Applies, Add
  <2>4. proc[p].command = "up" => v < 4
    BY <1>0, <2>1, <2>3 DEF Past
  <2> QED BY <1>0, <1>2, <2>1, <2>4 DEF Past
<1>12. ASSUME "verified" \notin undone', Confirming(q)
       PROVE  Unused' /\ \A r \in Processes \ {p} : ~Past(proc[r])
  <2>1. s = Add("verified")
    <3>1. v = 4 /\ i = 1 /\ proc[p].command = "up"
      BY <1>0, <1>2, <1>12 DEF Confirming
    <3> QED BY <1>3, <3>1, Scripts
  <2>2. "verified" \notin Ever
    <3>1. "verified" \notin schema
      BY <1>7, <2>1 DEF Applies, Add
    <3> QED BY <1>12, <3>1, AfterStatement DEF Ever
  <2>3. \A w \in ToSet(versions) : w < 4
    <3>1. \A w \in ToSet(versions) : w \in 1 .. 6 /\ "verified" \notin Complete(w)
      BY <2>2, Typed DEF MigrationIInv, Tracked
    <3> QED BY <3>1, CompleteObjects
  <2>4. Unused
    BY <2>2, <2>3 DEF Unused, MigrationIInv, Housed, Ever
  <2>5. \A r \in Processes : ~Past(proc[r])
    BY <1>8, <2>2, PastKnows DEF MigrationIInv, Tracked
  <2> QED BY <2>4, <2>5, AfterStatement
<1> QED BY <1>2, <1>5, <1>9, <1>10, <1>11, <1>12, AfterStatement, OneMoves

LEMMA StepStatement ==
  ASSUME MigrationIInv, NEW p \in Processes, Statement(p)
  PROVE  MigrationIInv'
<1>1. Running(p) /\ UNCHANGED <<versions, given>> /\ proc' = [proc EXCEPT ![p] = Advance(p)]
  BY DEF Statement
<1>2. CASE Applies(Script(p)[proc[p].i])
  BY <1>1, <1>2, OneAdvances DEF Statement
<1>3. CASE ~Applies(Script(p)[proc[p].i])
  <2>1. Advance(p) = Failed /\ UNCHANGED <<schema, accounts, undone>>
    BY <1>3 DEF Advance, Statement
  <2> QED BY <1>1, <2>1, OneEnds
<1> QED BY <1>2, <1>3

\* The version joins those on record, or leaves them: all that is behind it is
\* there, or was taken away.
LEMMA StepRecord ==
  ASSUME MigrationIInv, NEW p \in Processes, Record(p)
  PROVE  MigrationIInv'
<1> DEFINE v == proc[p].v
           others == RemoveFirst(versions, v)
<1>0. /\ proc[p] \in Records /\ proc[p].at = "recording" /\ v \in 1 .. 6
      /\ proc[p].command \in {"up", "down"}
      /\ versions \in Seq(1 .. 6) /\ IsInjective(versions)
  BY Typed, Scripts DEF MigrationIInv, Record, Commanded, Records
<1>1. UNCHANGED <<schema, accounts, undone, given>>
  BY DEF Record
<1>2. /\ Ever' = Ever /\ Housed' /\ schema' \subseteq Objects /\ undone' \subseteq Objects
      /\ undone' = undone /\ given' \in 0 .. MaxCommands
      /\ accounts' \in [Accounts -> {"none", "legacy", "unverified", "verified"}]
  BY <1>1 DEF MigrationIInv, MigrationTypeOK, Ever, Housed
<1>3. /\ others \in Seq(1 .. 6) /\ IsInjective(others) /\ ToSet(others) = ToSet(versions) \ {v}
  BY <1>0, Removed
<1> HIDE DEF others
<1>4. \A w \in ToSet(versions) : Complete(w) \subseteq Ever
  BY DEF MigrationIInv, Tracked
<1>5. CASE proc[p].command = "up"
  <2> DEFINE q == [proc[p] EXCEPT !.at = "reading", !.v = 0, !.i = 0]
  <2>1. versions' = Append(others, v) /\ proc' = [proc EXCEPT ![p] = q]
    BY <1>5 DEF Record, others
  <2>2. /\ versions' \in Seq(1 .. 6) /\ IsInjective(versions')
        /\ ToSet(versions') = ToSet(versions) \cup {v}
    BY <1>0, <1>3, <2>1, Appended
  <2>3. q \in Records /\ q.at = "reading" /\ q.command = "up"
    <3>1. 0 \in 0 .. Latest
      BY Scripts
    <3>2. \A e \in Records : [e EXCEPT !.at = "reading", !.v = 0, !.i = 0] \in Records
      BY <3>1 DEF Records
    <3>3. q.at = "reading" /\ q.command = "up"
      BY <1>0, <1>5 DEF Records
    <3> QED BY <1>0, <3>2, <3>3
  <2> HIDE DEF q
  <2>4. InScript(q) /\ Commanded(q) /\ Reached(q) = {} /\ ~Past(q) /\ ~Confirming(q)
    BY <2>3 DEF InScript, Commanded, Reached, Past, Confirming
  <2>5. Complete(v) \subseteq Ever
    BY <1>0, <1>5 DEF MigrationIInv, Tracked, Reached
  <2>6. \A w \in ToSet(versions') : Complete(w) \subseteq Ever'
    BY <1>2, <1>4, <2>2, <2>5
  <2>7. ASSUME "verified" \notin undone', NEW r \in Processes \ {p}, Confirming(proc[r])
        PROVE  Unused'
    <3>1. Unused /\ ~Past(proc[p])
      BY <1>2, <2>7 DEF MigrationIInv, Spared
    <3>2. v < 4
      BY <1>0, <1>5, <3>1 DEF Past
    <3> QED BY <1>1, <2>2, <3>1, <3>2 DEF Unused
  <2> QED BY <1>2, <2>1, <2>2, <2>3, <2>4, <2>6, <2>7, OneMoves
<1>6. CASE proc[p].command = "down"
  <2>1. versions' = others /\ proc' = [proc EXCEPT ![p] = IdleProcess]
    BY <1>6 DEF Record, others
  <2>2. /\ versions' \in Seq(1 .. 6) /\ IsInjective(versions')
        /\ ToSet(versions') \subseteq ToSet(versions)
    BY <1>3, <2>1
  <2>3. \A w \in ToSet(versions') : Complete(w) \subseteq Ever'
    BY <1>2, <1>4, <2>2
  <2>4. "verified" \notin undone' =>
          \A r \in Processes \ {p} : Confirming(proc[r]) => Unused'
    BY <1>1, <1>2, <2>2 DEF MigrationIInv, Spared, Unused
  <2> QED BY <1>2, <2>1, <2>2, <2>3, <2>4, IdleIs, OneMoves
<1> QED BY <1>0, <1>5, <1>6

\* Only an api that serves registers anyone, and nobody confirms beside it.
LEMMA StepRegister ==
  ASSUME MigrationIInv, NEW a \in Accounts, Register(a)
  PROVE  MigrationIInv'
<1>1. /\ UNCHANGED <<schema, versions, proc, given, undone>>
      /\ "api" \in Processes /\ proc["api"].at = "serving"
      /\ accounts' = [accounts EXCEPT ![a] = IF "verified" \in schema THEN "unverified" ELSE "legacy"]
  BY DEF Register
<1>2. accounts \in [Accounts -> {"none", "legacy", "unverified", "verified"}]
  BY DEF MigrationIInv, MigrationTypeOK
<1>3. accounts' \in [Accounts -> {"none", "legacy", "unverified", "verified"}]
  BY <1>1, <1>2
<1>4. MigrationTypeOK'
  BY <1>1, <1>3 DEF MigrationIInv, MigrationTypeOK, Running, Script
<1>5. Tracked' /\ \A p \in Processes : Commanded(proc'[p])
  BY <1>1 DEF MigrationIInv, Tracked, Ever
<1>6. Housed'
  BY <1>1, <1>2 DEF MigrationIInv, Housed
<1>7. "verified" \notin undone => \A p \in Processes : ~Confirming(proc[p])
  <2> SUFFICES ASSUME "verified" \notin undone, NEW p \in Processes, Confirming(proc[p]) PROVE FALSE
    OBVIOUS
  <2>1. p # "api"
    BY <1>1 DEF Confirming
  <2>2. Past(proc["api"])
    BY <1>1 DEF Past
  <2> QED BY <1>1, <2>1, <2>2 DEF MigrationIInv, Spared
<1>8. Spared'
  BY <1>1, <1>7 DEF Spared
<1> QED BY <1>4, <1>5, <1>6, <1>8 DEF MigrationIInv

LEMMA InitMigration == MigrationInit => MigrationIInv
<1> SUFFICES ASSUME MigrationInit PROVE MigrationIInv
  OBVIOUS
<1>1. PICK v \in 0 .. 6 :
        /\ schema = Complete(v) /\ versions = [w \in 1 .. v |-> w]
        /\ accounts \in [Accounts -> CASE v = 0 -> {"none"}
                                       [] v \in 1 .. 3 -> {"none", "legacy"}
                                       [] OTHER -> {"none", "unverified", "verified"}]
  BY Scripts DEF MigrationInit
<1>2. proc = [p \in Processes |-> IdleProcess] /\ given = 0 /\ undone = {}
  BY DEF MigrationInit
<1>3. versions \in Seq(1 .. 6) /\ IsInjective(versions) /\ ToSet(versions) = 1 .. v
  <2>1. DOMAIN versions = 1 .. v /\ \A w \in 1 .. v : versions[w] = w
    BY <1>1
  <2>2. versions \in [1 .. v -> 1 .. 6]
    BY <1>1
  <2> QED BY <2>1, <2>2, SeqDef DEF IsInjective, ToSet
<1>4. accounts \in [Accounts -> {"none", "legacy", "unverified", "verified"}]
  BY <1>1
<1>5. \A a \in Accounts : accounts[a] = "unverified" => v \in 4 .. 6
  BY <1>1
<1>6. MigrationTypeOK
  BY <1>1, <1>2, <1>3, <1>4, IdleIs, Scripts, CompleteObjects, MigrationsAssumption
     DEF MigrationTypeOK, Records, Running, IdleProcess
<1>7. \A p \in Processes : Commanded(proc[p])
  BY <1>2, IdleIs
<1>8. Tracked
  BY <1>1, <1>2, <1>3, IdleIs, Completes DEF Tracked, Ever
<1>9. Housed
  <2>1. CASE v = 0
    BY <1>1, <1>5, <2>1, Completes DEF Housed
  <2>2. CASE v # 0
    BY <1>1, <1>5, <2>2, CompleteObjects DEF Housed
  <2> QED BY <2>1, <2>2
<1>10. Spared
  BY <1>2, IdleIs DEF Spared
<1> QED BY <1>6, <1>7, <1>8, <1>9, <1>10 DEF MigrationIInv

LEMMA StepMigration == MigrationIInv /\ [MigrationNext]_migrationVars => MigrationIInv'
<1> SUFFICES ASSUME MigrationIInv, [MigrationNext]_migrationVars PROVE MigrationIInv'
  OBVIOUS
<1>1. CASE UNCHANGED migrationVars
  BY <1>1 DEF migrationVars, MigrationIInv, MigrationTypeOK, Running, Script, Tracked, Ever, Housed,
     Spared, Unused
<1>2. CASE MigrationNext
  BY <1>2, StepStart, StepCheckVersions, StepReadVersion, StepStatement, StepRecord,
     StepInterrupted, StepRegister DEF MigrationNext, Migrate
<1> QED BY <1>1, <1>2

LEMMA MigrationInductive == MigrationSpec => []MigrationIInv
BY InitMigration, StepMigration, PTL DEF MigrationSpec

\* Whatever is interrupted, repeated or run twice at once, a version on record has
\* all its statements behind it, and the api serves on a complete schema, but for
\* what a rollback took away.  (Migrate, MigrateDown, run of cmd/api)
THEOREM SchemaIsComplete == MigrationSpec => []MigrationInv
<1>1. MigrationIInv => MigrationInv
  <2> SUFFICES ASSUME MigrationIInv PROVE MigrationInv
    OBVIOUS
  <2>1. RecordedMeansApplied
    <3>1. Highest \in ToSet(versions) \cup {0}
      BY Typed, HighestIs DEF MigrationIInv
    <3>2. Complete(Highest) \subseteq Ever
      BY <3>1, Completes DEF MigrationIInv, Tracked
    <3> QED BY <3>2 DEF RecordedMeansApplied, Ever
  <2>2. ServesOnCompleteSchema
    BY DEF MigrationIInv, Tracked, Reached, Ever, ServesOnCompleteSchema
  <2> QED BY <2>1, <2>2 DEF MigrationIInv, MigrationInv
<1> QED BY <1>1, MigrationInductive, PTL

\* No migration confirms an account that registered with verification, however
\* late it runs or whatever runs beside it, as long as the column was never rolled
\* back.  (the backfill of 00004)
THEOREM BackfillSpares == MigrationSpec => BackfillSparesTheFlow
<1>1. ASSUME MigrationIInv, [MigrationNext]_migrationVars, "verified" \notin undone',
             NEW a \in Accounts, accounts[a] = "unverified"
      PROVE  accounts'[a] = "unverified"
  <2>1. "verified" \in schema /\ "users" \in schema
    BY <1>1 DEF MigrationIInv, Housed, Columns
  <2>2. ASSUME NEW p \in Processes, Running(p), Effect(Script(p)[proc[p].i])
        PROVE  accounts'[a] = "unverified"
    <3> DEFINE s == Script(p)[proc[p].i]
    <3>1. undone' = undone \cup (schema \ schema')
      BY <2>2 DEF Effect
    <3>2. "verified" \in schema' /\ "verified" \notin undone
      BY <1>1, <2>1, <3>1
    <3>3. "users" \in schema'
      <4>1. Raises(s, proc[p].v, proc[p].i) \/ Lowers(s)
        BY <1>1, <2>2, AtStatement
      <4> HIDE DEF s
      <4>2. Effect(s)
        BY <2>2 DEF s
      <4> QED BY <2>1, <3>2, <4>1, <4>2 DEF Effect, Lost, Raises, Lowers, Columns, Tables
    <3>4. s.op # "update"
      <4> SUFFICES ASSUME s.op = "update" PROVE FALSE
        OBVIOUS
      <4>1. ~Lowers(s)
        BY DEF Lowers
      <4>2. proc[p].command = "up" /\ proc[p].v = 4 /\ proc[p].i = 2
        BY <1>1, <2>2, <4>1, AtStatement DEF Raises
      <4>3. Confirming(proc[p])
        BY <2>2, <4>2 DEF Confirming, Running
      <4> QED BY <1>1, <3>2, <4>3 DEF MigrationIInv, Spared, Unused
    <3> HIDE DEF s
    <3>5. Effect(s)
      BY <2>2 DEF s
    <3> QED BY <1>1, <3>2, <3>3, <3>4, <3>5 DEF Effect
  <2>3. CASE UNCHANGED accounts
    BY <1>1, <2>3
  <2>4. ASSUME NEW b \in Accounts, Register(b) PROVE accounts'[a] = "unverified"
    BY <1>1, <2>4 DEF Register, MigrationIInv, MigrationTypeOK
  <2>5. ASSUME NEW p \in Processes,
               Statement(p) \/ Interrupted(p) \/ CheckVersions(p) \/ ReadVersion(p) \/ Record(p)
        PROVE  accounts'[a] = "unverified"
    BY <2>2, <2>3, <2>5 DEF Statement, Interrupted, CheckVersions, ReadVersion, Record
  <2>6. ASSUME NEW p \in Processes, NEW c \in CommandsOf(p), Start(p, c)
        PROVE  accounts'[a] = "unverified"
    BY <2>3, <2>6 DEF Start
  <2> QED BY <1>1, <2>3, <2>4, <2>5, <2>6 DEF MigrationNext, Migrate, migrationVars
<1>2. MigrationIInv /\ [MigrationNext]_migrationVars =>
        [ "verified" \notin undone' =>
            \A a \in Accounts : accounts[a] = "unverified" => accounts'[a] = "unverified" ]_migrationVars
  BY <1>1
<1> QED BY <1>2, MigrationInductive, PTL DEF MigrationSpec, BackfillSparesTheFlow

-----------------------------------------------------------------------------
\* The limiters.  What the two windows of an entry have let through is what the
\* history says, window by window.

\* The entry of a key beside what got through: what of its current and of its
\* previous window did, and is still within one.
WindowInv(e, h) ==
  /\ h[Window - e.left] <= e.curr /\ h[Window - e.left] <= MaxRequests
  /\ h[Window - 1] - h[Window - e.left] <= e.prev
  /\ h[Window - 1] - h[Window - e.left] <= MaxRequests

\* The same once the window is over: all of it was in that one.
OverInv(e, h) ==
  /\ h[-e.left] = 0
  /\ h[Window - 1] <= e.curr /\ h[Window - 1] <= MaxRequests

Growing(h) == \A a, b \in DOMAIN h : a <= b => h[a] <= h[b]

\* x requests, as a capped history counts them.
Cap(x) == IF x <= MaxRequests THEN x ELSE MaxRequests + 1

\* All that is counted was asked for, the previous window within two.
SeenInv(e, h) ==
  /\ -Window < e.left => Cap(e.curr) <= h[Window - e.left]
  /\ 0 < e.left => Cap(e.curr + e.prev) <= h[2 * Window - e.left]

EntryTyped(e) ==
  /\ e \in [curr : 0 .. MaxHits, prev : 0 .. MaxHits, left : -Window .. Window]
  /\ e.left = -Window => e = NoEntry

TakenTyped(h) == h \in [OneWindow -> Nat] /\ Growing(h)

SeenTyped(h) == h \in [TwoWindows -> 0 .. MaxRequests + 1] /\ Growing(h)

TakenInv(e, h) ==
  /\ e.left = -Window => h[Window - 1] = 0
  /\ -Window < e.left /\ e.left <= 0 => OverInv(e, h)
  /\ 0 < e.left => WindowInv(e, h)

Bounded(h) ==
  Window > 1 => h[Window - 1] <= 2 * MaxRequests - (2 * MaxRequests) \div Window

KeyInv(e, h, n) ==
  /\ EntryTyped(e) /\ TakenTyped(h) /\ SeenTyped(n)
  /\ TakenInv(e, h) /\ SeenInv(e, n) /\ Bounded(h)

\* The budgets of others that use the same key.
KeyOf(b) == <<b.limiter, b.ip, b.mailbox>>

Others(b) == {o \in Budgets \ {b} : KeyOf(o) = KeyOf(b)}

\* A history as its key feels it: once one of the others asked, the key may be
\* used up, whatever b did.
Felt(s, b) ==
  [a \in TwoWindows |->
     IF \A o \in Others(b) : s[o][a] = 0 THEN s[b][a] ELSE MaxRequests + 1]

LimitIInv ==
  /\ store \in [Keys -> {store[k] : k \in Keys}]
  /\ taken \in [Keys -> {taken[k] : k \in Keys}]
  /\ seen \in [Budgets -> {seen[b] : b \in Budgets}]
  /\ \A b \in Budgets : SeenTyped(seen[b])
  /\ \A b \in Budgets : KeyInv(store[KeyOf(b)], taken[KeyOf(b)], Felt(seen, b))

----------------------------------------------------------------------------
\* Keys and windows

\* A call falls under the key of its budget.
LEMMA KeyOfBudget == \A c \in Calls : KeyOf(Budget(c)) = Key(c)
BY DEF KeyOf, Budget, Key

LEMMA KeysOfBudgets == Keys = {KeyOf(b) : b \in Budgets}
BY KeyOfBudget DEF Keys, Budgets

\* Two clients under one key share what the limiter looks at.
LEMMA OthersShare ==
  ASSUME NEW c \in Calls, NEW o \in Others(Budget(c))
  PROVE \E d \in Calls : o = Budget(d) /\ d.client # c.client /\ Shares(c, d)
<1>1. PICK d \in Calls : o = Budget(d)
  BY DEF Others, Budgets
<1>2. Budget(d) # Budget(c) /\ KeyOf(Budget(d)) = KeyOf(Budget(c))
  BY <1>1 DEF Others
<1>3. /\ Limiter(d.route) = Limiter(c.route) /\ IP(d) = IP(c)
      /\ Budget(d).mailbox = Budget(c).mailbox
  BY <1>2 DEF KeyOf, Budget
<1>4. d.client # c.client
  BY <1>2, <1>3 DEF Budget
<1>5. Shares(c, d)
  BY <1>3 DEF Shares, Budget
<1> QED
  BY <1>1, <1>4, <1>5

\* What division rounds down to.
LEMMA Quotient ==
  ASSUME NEW t \in Nat, NEW d \in Nat \ {0}
  PROVE t \div d \in Nat /\ d * (t \div d) <= t /\ t < d * (t \div d) + d
<1>0. d \in Nat /\ d > 0
  OBVIOUS
<1>1. t = d * (t \div d) + (t % d) /\ t % d \in 0 .. d - 1
      /\ t \div d \in Nat
  BY <1>0
<1>2. d * (t \div d) \in Nat
  BY <1>1
<1> QED
  BY <1>1, <1>2

LEMMA Times ==
  ASSUME NEW d \in Nat \ {0}, NEW m \in Int, NEW n \in Int, m <= n
  PROVE d * m \in Int /\ d * n \in Int /\ d * m <= d * n
OBVIOUS

LEMMA QuotientAtMost ==
  ASSUME NEW t \in Nat, NEW d \in Nat \ {0}, NEW n \in Int, t < d * n + d
  PROVE t \div d <= n
<1> DEFINE q == t \div d
<1>1. q \in Nat /\ d * q <= t
  BY Quotient
<1> HIDE DEF q
<1> SUFFICES ASSUME n + 1 <= q PROVE FALSE
  BY <1>1 DEF q
<1>2. d * (n + 1) <= d * q /\ d * (n + 1) \in Int /\ d * q \in Int
  BY <1>1, Times
<1>3. d * (n + 1) = d * n + d /\ d * n \in Int
  OBVIOUS
<1> QED
  BY <1>1, <1>2, <1>3

\* The share of the previous window is no more than all of it.
LEMMA WindowShare ==
  ASSUME NEW p \in Nat, NEW l \in 1 .. Window
  PROVE (p * l) \div Window \in Nat /\ (p * l) \div Window <= p
<1>1. Window \in Nat \ {0} /\ p * l \in Nat
  BY RateLimitAssumption
<1>2. p * l <= Window * p /\ Window * p \in Nat
  BY <1>1
<1> QED
  BY <1>1, <1>2, Quotient, QuotientAtMost

LEMMA ShareGrows ==
  ASSUME NEW p \in Nat, NEW r \in Nat, p <= r
  PROVE p \div Window <= r \div Window
<1>1. Window \in Nat \ {0}
  BY RateLimitAssumption
<1>2. r \div Window \in Nat /\ r < Window * (r \div Window) + Window
  BY <1>1, Quotient
<1>3. Window * (r \div Window) \in Nat
  BY <1>1, <1>2
<1>4. p < Window * (r \div Window) + Window
  BY <1>1, <1>2, <1>3
<1> QED
  BY <1>1, <1>2, <1>4, QuotientAtMost

\* A request more adds no more than one to the share of two ticks.
LEMMA ShareOfTwoTicks ==
  ASSUME NEW m \in Nat, NEW p \in 0 .. m, Window > 1
  PROVE (2 * m) \div Window <= (2 * p) \div Window + (m - p)
<1> DEFINE q == (2 * p) \div Window
<1>1. Window \in Nat \ {0} /\ Window >= 2 /\ 2 * m \in Nat /\ 2 * p \in Nat /\ m - p \in Nat
  BY RateLimitAssumption
<1>2. q \in Nat /\ 2 * p < Window * q + Window
  BY <1>1, Quotient
<1> HIDE DEF q
<1>3. Window * q \in Nat
  BY <1>1, <1>2
<1>4. 2 * (m - p) <= Window * (m - p) /\ Window * (m - p) \in Nat
  BY <1>1
<1>5. Window * (q + (m - p)) = Window * q + Window * (m - p)
  BY <1>1, <1>2
<1>6. 2 * m < Window * (q + (m - p)) + Window /\ q + (m - p) \in Int
  BY <1>1, <1>2, <1>3, <1>4, <1>5
<1>7. (2 * m) \div Window <= q + (m - p)
  BY <1>1, <1>6, QuotientAtMost
<1> QED
  BY <1>7 DEF q

\* The least share of p requests before the last tick of the window.
LEMMA ShareBeforeLastTick ==
  ASSUME NEW p \in Nat, NEW l \in 2 .. Window
  PROVE (2 * p) \div Window <= (p * l) \div Window
<1>1. 2 * p \in Nat /\ p * l \in Nat /\ 2 * p <= p * l
  BY RateLimitAssumption
<1> QED
  BY <1>1, ShareGrows

LEMMA Sizes == Window \in Nat \ {0} /\ MaxRequests \in Nat \ {0} /\ MaxHits \in Nat
BY RateLimitAssumption

----------------------------------------------------------------------------
\* Histories

\* A tick makes everything older by one.
LEMMA AgedHistory ==
  ASSUME NEW n \in Nat \ {0}, NEW s \in SUBSET Nat, 0 \in s,
         NEW h \in [0 .. n - 1 -> s], Growing(h)
  PROVE /\ Aged(h) \in [0 .. n - 1 -> s] /\ Growing(Aged(h))
        /\ Aged(h)[0] = 0
        /\ \A a \in 1 .. n - 1 : Aged(h)[a] = h[a - 1]
        /\ \A a \in 0 .. n - 1 : Aged(h)[a] <= h[a]
<1>1. \A a \in 0 .. n - 1 : Aged(h)[a] = IF a = 0 THEN 0 ELSE h[a - 1]
  BY DEF Aged
<1>2. Aged(h) \in [0 .. n - 1 -> s]
  BY DEF Aged
<1>3. \A a \in 0 .. n - 1 : h[a] \in Nat
  OBVIOUS
<1>4. \A a, b \in 0 .. n - 1 : a <= b => h[a] <= h[b]
  BY DEF Growing
<1>5. \A a, b \in 0 .. n - 1 : a <= b => Aged(h)[a] <= Aged(h)[b]
  BY <1>1, <1>3, <1>4
<1>6. Growing(Aged(h))
  BY <1>2, <1>5 DEF Growing
<1>7. \A a \in 0 .. n - 1 : Aged(h)[a] <= h[a]
  BY <1>1, <1>3, <1>4
<1> QED
  BY <1>1, <1>2, <1>6, <1>7

LEMMA NowTaken ==
  ASSUME NEW h, TakenTyped(h)
  PROVE /\ TakenTyped(Now(h)) /\ Now(h) # h
        /\ \A a \in OneWindow : Now(h)[a] = h[a] + 1
<1>1. \A a \in OneWindow : Now(h)[a] = h[a] + 1 /\ h[a] \in Nat
  BY DEF Now, TakenTyped
<1>2. Now(h) \in [OneWindow -> Nat]
  BY <1>1 DEF Now, TakenTyped
<1>3. Growing(Now(h))
  BY <1>1, <1>2 DEF TakenTyped, Growing
<1>4. 0 \in OneWindow
  BY Sizes DEF OneWindow
<1>5. Now(h)[0] # h[0]
  BY <1>1, <1>4
<1> QED
  BY <1>1, <1>2, <1>3, <1>5 DEF TakenTyped

LEMMA NowSeen ==
  ASSUME NEW n, SeenTyped(n)
  PROVE /\ SeenTyped(Capped(Now(n)))
        /\ \A a \in TwoWindows :
             Capped(Now(n))[a] = IF n[a] <= MaxRequests THEN n[a] + 1 ELSE n[a]
<1> DEFINE c == Capped(Now(n))
<1>1. \A a \in TwoWindows : n[a] \in 0 .. MaxRequests + 1
  BY DEF SeenTyped
<1>2. DOMAIN n = TwoWindows
  BY DEF SeenTyped
<1>3. \A a \in TwoWindows : c[a] = IF n[a] + 1 <= MaxRequests THEN n[a] + 1 ELSE MaxRequests + 1
  BY <1>2 DEF Now, Capped
<1>4. c \in [TwoWindows -> 0 .. MaxRequests + 1]
  <2>1. DOMAIN c = TwoWindows /\ c = [a \in TwoWindows |-> c[a]]
    BY <1>2 DEF Now, Capped
  <2>2. \A a \in TwoWindows : c[a] \in 0 .. MaxRequests + 1
    BY <1>1, <1>3, Sizes
  <2> QED
    BY <2>1, <2>2
<1>5. \A a \in TwoWindows : c[a] = IF n[a] <= MaxRequests THEN n[a] + 1 ELSE n[a]
  BY <1>1, <1>3, Sizes
<1> HIDE DEF c
<1>6. Growing(c)
  <2>1. \A a, b \in TwoWindows : a <= b => n[a] <= n[b]
    BY <1>2 DEF SeenTyped, Growing
  <2>2. \A a, b \in TwoWindows : a <= b => c[a] <= c[b]
    BY <1>1, <1>5, <2>1, Sizes
  <2> QED
    BY <1>4, <2>2 DEF Growing
<1>7. SeenTyped(c)
  BY <1>4, <1>6 DEF SeenTyped
<1> QED
  BY <1>5, <1>7 DEF c

\* No history is one.
LEMMA NoHistoryFits ==
  /\ TakenTyped(NoHistory(OneWindow)) /\ SeenTyped(NoHistory(TwoWindows))
  /\ TakenInv(NoEntry, NoHistory(OneWindow)) /\ Bounded(NoHistory(OneWindow))
  /\ EntryTyped(NoEntry) /\ \A n : SeenInv(NoEntry, n)
<1>1. TakenTyped(NoHistory(OneWindow))
  BY DEF TakenTyped, NoHistory, Growing
<1>2. SeenTyped(NoHistory(TwoWindows))
  BY Sizes DEF SeenTyped, NoHistory, Growing
<1>3. NoEntry.left = -Window /\ EntryTyped(NoEntry)
  BY Sizes DEF NoEntry, EntryTyped
<1>4. NoHistory(OneWindow)[Window - 1] = 0
  BY Sizes DEF NoHistory, OneWindow
<1>5. TakenInv(NoEntry, NoHistory(OneWindow))
  BY <1>3, <1>4, Sizes DEF TakenInv
<1>6. \A n : SeenInv(NoEntry, n)
  BY <1>3, Sizes DEF SeenInv
<1>7. Bounded(NoHistory(OneWindow))
  <2>1. ASSUME Window > 1 PROVE (2 * MaxRequests) \div Window <= (2 * 0) \div Window + (MaxRequests - 0)
    BY <2>1, Sizes, ShareOfTwoTicks
  <2>2. (2 * 0) \div Window <= 0
    <3>1. 2 * 0 \in Nat /\ 2 * 0 < Window * 0 + Window
      BY Sizes
    <3> QED
      BY <3>1, Sizes, QuotientAtMost
  <2>3. (2 * 0) \div Window \in Nat /\ (2 * MaxRequests) \div Window \in Nat
    <3>1. 2 * 0 \in Nat /\ 2 * MaxRequests \in Nat
      BY Sizes
    <3> QED
      BY <3>1, Sizes, Quotient
  <2> QED
    BY <1>4, <2>1, <2>2, <2>3, Sizes DEF Bounded
<1> QED
  BY <1>1, <1>2, <1>3, <1>5, <1>6, <1>7

----------------------------------------------------------------------------
\* The entry of a key

EntryFields(e) ==
  e.curr \in 0 .. MaxHits /\ e.prev \in 0 .. MaxHits /\ e.left \in -Window .. Window

\* What a request finds is a current window that fits what got through.
LEMMA RolledFits ==
  ASSUME NEW e, NEW h, NEW n, KeyInv(e, h, n)
  PROVE /\ EntryTyped(Rolled(e)) /\ Rolled(e).left \in 1 .. Window
        /\ WindowInv(Rolled(e), h) /\ SeenInv(Rolled(e), n)
<1>1. \A a \in OneWindow : h[a] \in Nat
  BY DEF KeyInv, TakenTyped
<1>2. \A a, b \in OneWindow : a <= b => h[a] <= h[b]
  BY DEF KeyInv, TakenTyped, Growing
<1>3. \A a \in TwoWindows : n[a] \in 0 .. MaxRequests + 1
  BY DEF KeyInv, SeenTyped
<1>4. EntryFields(e) /\ (e.left = -Window <=> e = NoEntry)
      /\ e = [curr |-> e.curr, prev |-> e.prev, left |-> e.left]
  BY DEF KeyInv, EntryTyped, EntryFields, NoEntry
<1>5. CASE e = NoEntry
  <2>1. Rolled(e) = [curr |-> 0, prev |-> 0, left |-> Window]
    BY <1>5 DEF Rolled, NoEntry
  <2>2. h[Window - 1] = 0
    BY <1>4, <1>5 DEF KeyInv, TakenInv
  <2>3. h[0] = 0
    BY <1>1, <1>2, <2>2, Sizes DEF OneWindow
  <2>4. n[0] \in Nat /\ n[Window] \in Nat
    BY <1>3, Sizes DEF TwoWindows
  <2>5. EntryTyped(Rolled(e))
    BY <2>1, Sizes DEF EntryTyped
  <2>6. WindowInv(Rolled(e), h)
    BY <2>1, <2>2, <2>3, Sizes DEF WindowInv
  <2>7. SeenInv(Rolled(e), n)
    BY <2>1, <2>4, Sizes DEF SeenInv, Cap
  <2> QED
    BY <2>1, <2>5, <2>6, <2>7, Sizes
<1>6. CASE e # NoEntry /\ e.left <= 0
  <2>1. Rolled(e) = [curr |-> 0, prev |-> e.curr, left |-> Window + e.left]
    BY <1>6 DEF Rolled
  <2>2. e.left \in 1 - Window .. 0 /\ Window + e.left \in 1 .. Window
    BY <1>4, <1>6, Sizes DEF EntryFields
  <2>3. OverInv(e, h)
    BY <1>6, <2>2, Sizes DEF KeyInv, TakenInv
  <2>4. Cap(e.curr) <= n[Window - e.left]
    BY <2>2, Sizes DEF KeyInv, SeenInv
  <2>5. Window - (Window + e.left) = -e.left /\ -e.left \in OneWindow
        /\ 2 * Window - (Window + e.left) = Window - e.left
        /\ Window - e.left \in TwoWindows
    BY <2>2, Sizes DEF OneWindow, TwoWindows
  <2>6. EntryTyped(Rolled(e))
    BY <1>4, <2>1, <2>2, Sizes DEF EntryTyped, EntryFields
  <2> DEFINE r == Rolled(e)
  <2>9. r.curr = 0 /\ r.prev = e.curr /\ r.left = Window + e.left
        /\ Window - r.left = -e.left /\ 2 * Window - r.left = Window - e.left
    BY <2>1, <2>5
  <2> HIDE DEF r
  <2>7. WindowInv(r, h)
    <3>1. h[Window - r.left] = 0 /\ h[Window - 1] \in Nat /\ h[Window - 1] <= e.curr
          /\ h[Window - 1] <= MaxRequests
      BY <1>1, <2>3, <2>9, Sizes DEF OverInv, OneWindow
    <3> QED
      BY <2>9, <3>1, Sizes DEF WindowInv
  <2>8. SeenInv(r, n)
    <3>1. Cap(0 + e.curr) <= n[2 * Window - r.left] /\ Cap(0) = 0
      BY <1>4, <2>4, <2>9, Sizes DEF EntryFields, Cap
    <3>2. -Window < r.left => Cap(r.curr) <= n[Window - r.left]
      BY <1>3, <2>5, <2>9, <3>1, Sizes DEF TwoWindows, OneWindow
    <3> QED
      BY <2>9, <3>1, <3>2 DEF SeenInv
  <2> QED
    BY <2>1, <2>2, <2>6, <2>7, <2>8 DEF r
<1>7. CASE e # NoEntry /\ ~(e.left <= 0)
  <2>1. Rolled(e) = e
    BY <1>4, <1>7 DEF Rolled
  <2>2. e.left \in 1 .. Window
    BY <1>4, <1>7, Sizes DEF EntryFields
  <2> QED
    BY <2>1, <2>2, Sizes DEF KeyInv, TakenInv
<1> QED
  BY <1>5, <1>6, <1>7

\* A request more is one request more.
LEMMA HitFits ==
  ASSUME NEW e, NEW h, NEW n, KeyInv(e, h, n), NEW hit,
         hit = [Rolled(e) EXCEPT !.curr = @ + 1], hit.curr <= MaxHits
  PROVE /\ EntryTyped(hit) /\ hit.left \in 1 .. Window /\ EntryFields(hit)
        /\ hit.curr = Rolled(e).curr + 1 /\ hit.prev = Rolled(e).prev
        /\ hit.left = Rolled(e).left
        /\ SeenInv(hit, Capped(Now(n)))
<1> DEFINE e1 == Rolled(e)
<1>1. EntryTyped(e1) /\ e1.left \in 1 .. Window /\ WindowInv(e1, h) /\ SeenInv(e1, n)
  BY RolledFits
<1> HIDE DEF e1
<1>2. /\ hit.curr = e1.curr + 1 /\ hit.prev = e1.prev /\ hit.left = e1.left
      /\ hit = [curr |-> e1.curr + 1, prev |-> e1.prev, left |-> e1.left]
      /\ EntryFields(e1) /\ e1 = [curr |-> e1.curr, prev |-> e1.prev, left |-> e1.left]
  BY <1>1 DEF EntryTyped, EntryFields, e1
<1>3. EntryTyped(hit) /\ EntryFields(hit)
  <2>1. hit.curr \in 0 .. MaxHits /\ hit.left # -Window
    BY <1>1, <1>2, Sizes DEF EntryFields
  <2>2. EntryFields(hit)
    BY <1>2, <2>1 DEF EntryFields
  <2> QED
    BY <1>2, <2>1, <2>2 DEF EntryTyped, EntryFields
<1>5. SeenInv(hit, Capped(Now(n)))
  <2> DEFINE c == Capped(Now(n))
  <2>1. \A a \in TwoWindows : c[a] = IF n[a] <= MaxRequests THEN n[a] + 1 ELSE n[a]
    BY NowSeen DEF KeyInv
  <2> HIDE DEF c
  <2>2. \A a \in TwoWindows : n[a] \in 0 .. MaxRequests + 1
    BY DEF KeyInv, SeenTyped
  <2>3. Window - e1.left \in TwoWindows /\ 2 * Window - e1.left \in TwoWindows
    BY <1>1, Sizes DEF TwoWindows
  <2>4. Cap(e1.curr) <= n[Window - e1.left]
    BY <1>1, Sizes DEF SeenInv
  <2>5. Cap(e1.curr + e1.prev) <= n[2 * Window - e1.left]
    BY <1>1, Sizes DEF SeenInv
  <2>6. Cap(e1.curr + 1) <= c[Window - e1.left]
    BY <1>2, <2>1, <2>2, <2>3, <2>4, Sizes DEF Cap, EntryFields
  <2>7. Cap(e1.curr + 1 + e1.prev) <= c[2 * Window - e1.left]
    BY <1>2, <2>1, <2>2, <2>3, <2>5, Sizes DEF Cap, EntryFields
  <2> QED
    BY <1>2, <2>6, <2>7 DEF SeenInv, c
<1> QED
  BY <1>1, <1>2, <1>3, <1>5 DEF e1

\* One let through fits as well, and keeps the bound: what is left of Max by the
\* share of the previous window, together with what that window let through.
LEMMA LetThrough ==
  ASSUME NEW e, NEW h, NEW n, KeyInv(e, h, n), NEW hit,
         hit = [Rolled(e) EXCEPT !.curr = @ + 1], hit.curr <= MaxHits,
         Rate(hit) <= MaxRequests
  PROVE KeyInv(hit, Now(h), Capped(Now(n)))
<1> DEFINE l == hit.left
           share == (hit.prev * hit.left) \div Window
           before == h[Window - 1] - h[Window - l]
<1>1. /\ EntryTyped(hit) /\ l \in 1 .. Window /\ EntryFields(hit)
      /\ SeenInv(hit, Capped(Now(n)))
      /\ hit.curr = Rolled(e).curr + 1 /\ hit.prev = Rolled(e).prev
      /\ l = Rolled(e).left
  BY HitFits
<1>2. WindowInv(Rolled(e), h) /\ EntryFields(Rolled(e))
  BY RolledFits DEF EntryTyped, EntryFields
<1>3. TakenTyped(Now(h)) /\ (\A a \in OneWindow : Now(h)[a] = h[a] + 1 /\ h[a] \in Nat)
  BY NowTaken DEF KeyInv, TakenTyped
<1>4. Window - l \in OneWindow /\ Window - 1 \in OneWindow
  BY <1>1, Sizes DEF OneWindow
<1>5. share \in Nat /\ share + hit.curr <= MaxRequests
  <2>1. hit.prev \in Nat /\ hit.left \in 1 .. Window
    BY <1>1, Sizes DEF EntryFields
  <2> QED
    BY <2>1, WindowShare DEF Rate
<1>6. /\ h[Window - l] + 1 <= hit.curr /\ h[Window - l] + 1 <= MaxRequests
      /\ before <= hit.prev /\ before <= MaxRequests
  BY <1>1, <1>2, <1>3, <1>4, <1>5, Sizes DEF WindowInv, EntryFields
<1>7. WindowInv(hit, Now(h))
  BY <1>3, <1>4, <1>6 DEF WindowInv
<1>8. before \in 0 .. MaxRequests
  <2>1. h[Window - l] <= h[Window - 1]
    BY <1>1, <1>4, Sizes DEF KeyInv, TakenTyped, Growing
  <2> QED
    BY <1>3, <1>4, <1>6, <2>1, Sizes
<1>9. Now(h)[Window - 1] <= hit.curr + before
  BY <1>1, <1>3, <1>4, <1>6, Sizes DEF EntryFields
<1>10. ASSUME Window > 1
       PROVE hit.curr + before <= 2 * MaxRequests - (2 * MaxRequests) \div Window
  <2> DEFINE m == (2 * MaxRequests) \div Window
             b == (2 * before) \div Window
  <2>1. m \in Nat /\ b \in Nat
    <3>1. 2 * MaxRequests \in Nat /\ 2 * before \in Nat
      BY <1>8, Sizes
    <3> QED
      BY <3>1, Sizes, Quotient
  <2>2. m <= b + (MaxRequests - before)
    BY <1>8, <1>10, Sizes, ShareOfTwoTicks
  <2>3. CASE l > 1
    <3>1. l \in 2 .. Window /\ before \in Nat /\ before * l \in Nat /\ hit.prev * l \in Nat
          /\ before * l <= hit.prev * l
      BY <1>1, <1>6, <1>8, <2>3, Sizes DEF EntryFields
    <3>2. b <= (before * l) \div Window
      BY <3>1, ShareBeforeLastTick
    <3>3. (before * l) \div Window <= share
      BY <3>1, ShareGrows
    <3>4. (before * l) \div Window \in Nat
      BY <3>1, Sizes, Quotient
    <3> HIDE DEF m, b, share, before, l
    <3>5. b <= share
      BY <1>5, <2>1, <3>2, <3>3, <3>4
    <3> QED
      BY <1>1, <1>5, <1>8, <2>1, <2>2, <3>5, Sizes DEF EntryFields, m
  <2>4. CASE l = 1
    <3>1. before = 0
      BY <1>3, <1>4, <2>4
    <3>2. (2 * 0) \div Window <= 0
      <4>1. 2 * 0 \in Nat /\ 2 * 0 < Window * 0 + Window
        BY Sizes
      <4> QED
        BY <4>1, Sizes, QuotientAtMost
    <3>3. b <= 0
      BY <3>1, <3>2
    <3> HIDE DEF m, b, share, before, l
    <3> QED
      BY <1>1, <1>5, <2>1, <2>2, <3>1, <3>3, Sizes DEF EntryFields, m
  <2> QED
    BY <1>1, <2>3, <2>4, Sizes
<1>11. Bounded(Now(h))
  <2>1. ASSUME Window > 1 PROVE (2 * MaxRequests) \div Window \in Nat
    <3>1. 2 * MaxRequests \in Nat
      BY Sizes
    <3> QED
      BY <3>1, Sizes, Quotient
  <2>2. Now(h)[Window - 1] \in Int /\ hit.curr + before \in Int
    BY <1>1, <1>3, <1>4, <1>8, Sizes DEF EntryFields
  <2> HIDE DEF before
  <2> QED
    BY <1>9, <1>10, <2>1, <2>2, Sizes DEF Bounded
<1>12. TakenInv(hit, Now(h))
  BY <1>1, <1>7, Sizes DEF TakenInv
<1>13. SeenTyped(Capped(Now(n)))
  BY NowSeen DEF KeyInv
<1> QED
  BY <1>1, <1>3, <1>11, <1>12, <1>13 DEF KeyInv

\* One refused has seen more than Max within two windows.
LEMMA Refused ==
  ASSUME NEW e, NEW h, NEW n, KeyInv(e, h, n), NEW hit,
         hit = [Rolled(e) EXCEPT !.curr = @ + 1], hit.curr <= MaxHits,
         ~(Rate(hit) <= MaxRequests)
  PROVE KeyInv(hit, h, Capped(Now(n))) /\ Capped(Now(n))[2 * Window - 1] > MaxRequests
<1> DEFINE share == (hit.prev * hit.left) \div Window
           c == Capped(Now(n))
<1>1. /\ EntryTyped(hit) /\ hit.left \in 1 .. Window /\ EntryFields(hit)
      /\ SeenInv(hit, c)
      /\ hit.curr = Rolled(e).curr + 1 /\ hit.prev = Rolled(e).prev
      /\ hit.left = Rolled(e).left
  BY HitFits
<1>2. WindowInv(Rolled(e), h) /\ EntryFields(Rolled(e))
  BY RolledFits DEF EntryTyped, EntryFields
<1>3. Window - hit.left \in OneWindow /\ \A a \in OneWindow : h[a] \in Nat
  BY <1>1, Sizes DEF OneWindow, KeyInv, TakenTyped
<1>4. WindowInv(hit, h)
  BY <1>1, <1>2, <1>3, Sizes DEF WindowInv, EntryFields
<1>5. TakenInv(hit, h)
  BY <1>1, <1>4, Sizes DEF TakenInv
<1>6. SeenTyped(c)
  BY NowSeen DEF KeyInv
<1>7. share \in Nat /\ share <= hit.prev
  <2>1. hit.prev \in Nat /\ hit.left \in 1 .. Window
    BY <1>1, Sizes DEF EntryFields
  <2> QED
    BY <2>1, WindowShare
<1>8. share + hit.curr > MaxRequests
  <2>1. Rate(hit) = share + hit.curr /\ hit.curr \in Nat
    BY <1>1, Sizes DEF Rate, EntryFields
  <2> HIDE DEF share
  <2> QED
    BY <1>7, <2>1, Sizes
<1>9. Cap(hit.curr + hit.prev) > MaxRequests
  <2> HIDE DEF share
  <2> QED
    BY <1>1, <1>7, <1>8, Sizes DEF EntryFields, Cap
<1> HIDE DEF c
<1>10. 2 * Window - hit.left \in TwoWindows /\ 2 * Window - 1 \in TwoWindows
       /\ 2 * Window - hit.left <= 2 * Window - 1
  BY <1>1, Sizes DEF TwoWindows
<1>11. c[2 * Window - hit.left] <= c[2 * Window - 1]
  BY <1>6, <1>10 DEF SeenTyped, Growing
<1>12. Cap(hit.curr + hit.prev) <= c[2 * Window - hit.left]
  BY <1>1, Sizes DEF SeenInv
<1>13. \A a \in TwoWindows : c[a] \in 0 .. MaxRequests + 1
  BY <1>6 DEF SeenTyped
<1>14. c[2 * Window - 1] > MaxRequests
  <2>1. Cap(hit.curr + hit.prev) = MaxRequests + 1
    BY <1>1, <1>9, Sizes DEF Cap, EntryFields
  <2> QED
    BY <1>10, <1>11, <1>12, <1>13, <2>1, Sizes
<1> QED
  BY <1>1, <1>5, <1>6, <1>14 DEF KeyInv, c

\* A tick of the window: what ages out of it leaves the sums behind.
LEMMA Ticked ==
  ASSUME NEW e, NEW h, NEW n, KeyInv(e, h, n), NEW f,
         f = IF e.left <= 1 - Window THEN NoEntry ELSE [e EXCEPT !.left = @ - 1]
  PROVE KeyInv(f, Aged(h), Aged(n))
<1> DEFINE g == Aged(h)
           s == Aged(n)
           l == e.left
<1>1. /\ g \in [OneWindow -> Nat] /\ Growing(g) /\ g[0] = 0
      /\ \A a \in 1 .. Window - 1 : g[a] = h[a - 1]
      /\ \A a \in OneWindow : g[a] <= h[a]
  <2>1. h \in [0 .. Window - 1 -> Nat] /\ Growing(h) /\ Nat \in SUBSET Nat /\ 0 \in Nat
    BY DEF KeyInv, TakenTyped, OneWindow
  <2> HIDE DEF g, s
  <2>2. /\ Aged(h) \in [0 .. Window - 1 -> Nat] /\ Growing(Aged(h))
        /\ Aged(h)[0] = 0
        /\ \A a \in 1 .. Window - 1 : Aged(h)[a] = h[a - 1]
        /\ \A a \in 0 .. Window - 1 : Aged(h)[a] <= h[a]
    BY <2>1, AgedHistory, Sizes
  <2> QED
    BY <2>2 DEF OneWindow, g
<1>2. /\ s \in [TwoWindows -> 0 .. MaxRequests + 1] /\ Growing(s)
      /\ \A a \in 1 .. 2 * Window - 1 : s[a] = n[a - 1]
  <2>1. 2 * Window \in Nat \ {0} /\ 0 .. MaxRequests + 1 \in SUBSET Nat
        /\ 0 \in 0 .. MaxRequests + 1
    BY Sizes
  <2>2. n \in [0 .. 2 * Window - 1 -> 0 .. MaxRequests + 1] /\ Growing(n)
    BY DEF KeyInv, SeenTyped, TwoWindows
  <2> QED
    BY <2>1, <2>2, AgedHistory DEF TwoWindows
<1>3. \A a \in OneWindow : h[a] \in Nat
  BY DEF KeyInv, TakenTyped
<1>4. \A a, b \in OneWindow : a <= b => h[a] <= h[b]
  BY DEF KeyInv, TakenTyped, Growing
<1>5. EntryFields(e) /\ e = [curr |-> e.curr, prev |-> e.prev, left |-> e.left]
      /\ (l = -Window => e = NoEntry)
  BY DEF KeyInv, EntryTyped, EntryFields
<1> HIDE DEF g, s
<1>6. Bounded(g)
  <2>1. Window - 1 \in OneWindow
    BY Sizes DEF OneWindow
  <2>2. g[Window - 1] \in Nat /\ h[Window - 1] \in Nat /\ g[Window - 1] <= h[Window - 1]
    BY <1>1, <1>3, <2>1
  <2>3. 2 * MaxRequests \in Nat
    BY Sizes
  <2>4. (2 * MaxRequests) \div Window \in Nat
    BY <2>3, Sizes, Quotient
  <2> QED
    BY <2>2, <2>4, Sizes DEF KeyInv, Bounded
<1>7. CASE l <= 1 - Window
  <2>1. f = NoEntry /\ f.left = -Window
    BY <1>7 DEF NoEntry
  <2>2. h[Window - 1] = 0
    <3>1. CASE l = -Window
      BY <3>1 DEF KeyInv, TakenInv
    <3>2. CASE l # -Window
      <4>1. l = 1 - Window
        BY <1>5, <1>7, <3>2, Sizes DEF EntryFields
      <4>2. OverInv(e, h)
        BY <4>1, Sizes DEF KeyInv, TakenInv
      <4>3. -l = Window - 1
        BY <4>1, Sizes
      <4> QED
        BY <4>2, <4>3 DEF OverInv
    <3> QED
      BY <3>1, <3>2
  <2>3. g[Window - 1] = 0
    <3>1. Window - 1 \in OneWindow
      BY Sizes DEF OneWindow
    <3> QED
      BY <1>1, <2>2, <3>1
  <2>4. TakenInv(f, g) /\ SeenInv(f, s) /\ EntryTyped(f)
    BY <2>1, <2>3, Sizes, NoHistoryFits DEF TakenInv
  <2> QED
    BY <1>1, <1>2, <1>6, <2>4 DEF KeyInv, TakenTyped, SeenTyped, g, s
<1>8. CASE ~(l <= 1 - Window)
  <2>1. /\ f.curr = e.curr /\ f.prev = e.prev /\ f.left = l - 1
        /\ f = [curr |-> e.curr, prev |-> e.prev, left |-> l - 1]
    BY <1>5, <1>8
  <2>2. l \in 2 - Window .. Window /\ f.left \in 1 - Window .. Window - 1
    BY <1>5, <1>8, <2>1, Sizes DEF EntryFields
  <2>0. l \in Int /\ f.left \in Int /\ f.left # -Window /\ -Window < f.left
        /\ (l > 1 => f.left > 0) /\ (l = 1 => f.left = 0 /\ -f.left = 0) /\ (l < 1 => f.left <= 0)
    <3>1. l \in Int /\ f.left = l - 1 /\ Window \in Nat /\ l > 1 - Window
      BY <1>8, <2>1, <2>2, Sizes
    <3>2. \A x \in Int : x > 1 - Window =>
            /\ x - 1 \in Int /\ x - 1 # -Window /\ -Window < x - 1
            /\ (x > 1 => x - 1 > 0) /\ (x = 1 => x - 1 = 0 /\ -(x - 1) = 0) /\ (x < 1 => x - 1 <= 0)
      BY Sizes
    <3> QED
      BY <3>1, <3>2
  <2>3. EntryTyped(f)
    BY <1>5, <2>1, <2>2, Sizes DEF EntryTyped, EntryFields
  <2>4. Window - 1 \in OneWindow
    BY Sizes DEF OneWindow
  <2>5. g[Window - 1] <= h[Window - 1] /\ g[Window - 1] \in Nat /\ h[Window - 1] \in Nat
    BY <1>1, <1>3, <2>4
  <2>6. ASSUME l > 1 PROVE TakenInv(f, g)
    <3>1. WindowInv(e, h)
      BY <2>2, <2>6, Sizes DEF KeyInv, TakenInv
    <3>2. Window - f.left \in 1 .. Window - 1 /\ Window - f.left - 1 = Window - l
          /\ Window - l \in OneWindow
      BY <2>1, <2>2, <2>6, Sizes DEF OneWindow
    <3>3. g[Window - f.left] = h[Window - l] /\ h[Window - l] \in Nat
      BY <1>1, <1>3, <3>2
    <3>4. WindowInv(f, g)
      BY <1>5, <2>1, <2>5, <3>1, <3>3, Sizes DEF WindowInv, EntryFields
    <3> QED
      BY <2>0, <2>6, <3>4 DEF TakenInv
  <2>7. ASSUME l = 1 PROVE TakenInv(f, g)
    <3>1. h[Window - 1] <= e.curr /\ h[Window - 1] <= MaxRequests
      BY <2>7, Sizes DEF KeyInv, TakenInv, WindowInv
    <3>2. f.left = 0 /\ -f.left = 0
      BY <2>0, <2>7
    <3>3. OverInv(f, g)
      BY <1>1, <1>5, <2>1, <2>5, <3>1, <3>2, Sizes DEF OverInv, EntryFields
    <3> QED
      BY <2>0, <3>2, <3>3 DEF TakenInv
  <2>8. ASSUME l < 1 PROVE TakenInv(f, g)
    <3>1. OverInv(e, h)
      BY <2>2, <2>8, Sizes DEF KeyInv, TakenInv
    <3>2. -f.left \in 1 .. Window - 1 /\ -f.left - 1 = -l
      BY <2>1, <2>2, <2>8, Sizes
    <3>3. g[-f.left] = 0
      BY <1>1, <3>1, <3>2 DEF OverInv
    <3>4. OverInv(f, g)
      BY <1>5, <2>1, <2>5, <3>1, <3>3, Sizes DEF OverInv, EntryFields
    <3> QED
      BY <2>0, <2>8, <3>4 DEF TakenInv
  <2>9. TakenInv(f, g)
    BY <2>0, <2>6, <2>7, <2>8
  <2>10. SeenInv(f, s)
    <3>1. Cap(e.curr) <= n[Window - l]
      BY <2>2, Sizes DEF KeyInv, SeenInv
    <3>2. Window - f.left \in 1 .. 2 * Window - 1 /\ Window - f.left - 1 = Window - l
      BY <2>1, <2>2, Sizes
    <3>3. s[Window - f.left] = n[Window - l]
      BY <1>2, <3>2
    <3>4. ASSUME 0 < f.left PROVE Cap(e.curr + e.prev) <= s[2 * Window - f.left]
      <4>1. Cap(e.curr + e.prev) <= n[2 * Window - l]
        BY <2>1, <2>2, <3>4, Sizes DEF KeyInv, SeenInv
      <4>2. 2 * Window - f.left \in 1 .. 2 * Window - 1
            /\ 2 * Window - f.left - 1 = 2 * Window - l
        BY <2>1, <2>2, <3>4, Sizes
      <4> QED
        BY <1>2, <4>1, <4>2
    <3> QED
      BY <2>1, <3>1, <3>3, <3>4 DEF SeenInv
  <2> QED
    BY <1>1, <1>2, <1>6, <2>3, <2>9, <2>10 DEF KeyInv, TakenTyped, SeenTyped, g, s
<1> QED
  BY <1>5, <1>7, <1>8, Sizes DEF EntryFields

----------------------------------------------------------------------------
\* The invariant

\* Before anybody asked nobody was refused.
LEMMA FeltNothing ==
  ASSUME NEW s, \A b \in Budgets : s[b] = NoHistory(TwoWindows)
  PROVE \A b \in Budgets : Felt(s, b) = NoHistory(TwoWindows)
BY DEF Felt, Others, NoHistory

\* What is felt of histories is one.
LEMMA FeltTyped ==
  ASSUME NEW s, \A b \in Budgets : SeenTyped(s[b]), NEW b \in Budgets
  PROVE SeenTyped(Felt(s, b))
<1> DEFINE f == Felt(s, b)
<1>1. \A o \in Budgets, x \in TwoWindows : s[o][x] \in 0 .. MaxRequests + 1
  BY DEF SeenTyped
<1>2. \A o \in Budgets, x, y \in TwoWindows : x <= y => s[o][x] <= s[o][y]
  BY DEF SeenTyped, Growing
<1>3. \A x \in TwoWindows :
        f[x] = IF \A o \in Others(b) : s[o][x] = 0 THEN s[b][x] ELSE MaxRequests + 1
  BY DEF Felt
<1>4. f \in [TwoWindows -> 0 .. MaxRequests + 1]
  BY <1>1, Sizes DEF Felt
<1> HIDE DEF f
<1>5. ASSUME NEW x \in TwoWindows, NEW y \in TwoWindows, x <= y PROVE f[x] <= f[y]
  <2>1. CASE \A o \in Others(b) : s[o][y] = 0
    <3>1. \A o \in Others(b) : s[o][x] = 0
      <4> SUFFICES ASSUME NEW o \in Others(b) PROVE s[o][x] = 0
        OBVIOUS
      <4>1. s[o][x] \in Nat /\ s[o][x] <= s[o][y] /\ s[o][y] = 0
        BY <1>1, <1>2, <1>5, <2>1, Sizes DEF Others
      <4> QED
        BY <4>1
    <3> QED
      BY <1>2, <1>3, <1>5, <2>1, <3>1
  <2>2. CASE ~(\A o \in Others(b) : s[o][y] = 0)
    <3>1. f[y] = MaxRequests + 1 /\ f[x] \in 0 .. MaxRequests + 1
      BY <1>3, <1>4, <2>2
    <3> QED
      BY <3>1, Sizes
  <2> QED
    BY <2>1, <2>2
<1>6. Growing(f)
  BY <1>4, <1>5 DEF Growing
<1> QED
  BY <1>4, <1>6 DEF SeenTyped, f

\* A tick ages what is felt like what was seen.
LEMMA FeltAged ==
  ASSUME NEW s, NEW t, \A b \in Budgets : SeenTyped(s[b]),
         \A b \in Budgets : t[b] = Aged(s[b]), NEW b \in Budgets
  PROVE Felt(t, b) = Aged(Felt(s, b))
<1>1. \A o \in Budgets : DOMAIN s[o] = TwoWindows
  BY DEF SeenTyped
<1>2. \A o \in Budgets, x \in TwoWindows : t[o][x] = IF x = 0 THEN 0 ELSE s[o][x - 1]
  <2> SUFFICES ASSUME NEW o \in Budgets
               PROVE \A x \in TwoWindows : t[o][x] = IF x = 0 THEN 0 ELSE s[o][x - 1]
    OBVIOUS
  <2>1. t[o] = [x \in TwoWindows |-> IF x = 0 THEN 0 ELSE s[o][x - 1]]
    BY <1>1 DEF Aged
  <2> QED
    BY <2>1
<1>3. \A x \in TwoWindows : x = 0 \/ x - 1 \in TwoWindows
  BY Sizes DEF TwoWindows
<1>4. Others(b) \subseteq Budgets
  BY DEF Others
<1>5. \A x \in TwoWindows :
        Felt(t, b)[x] = IF x = 0 THEN 0 ELSE Felt(s, b)[x - 1]
  <2> SUFFICES ASSUME NEW x \in TwoWindows
               PROVE Felt(t, b)[x] = IF x = 0 THEN 0 ELSE Felt(s, b)[x - 1]
    OBVIOUS
  <2>1. Felt(t, b)[x] = IF \A o \in Others(b) : t[o][x] = 0 THEN t[b][x] ELSE MaxRequests + 1
    BY DEF Felt
  <2>2. CASE x = 0
    BY <1>2, <1>4, <2>1, <2>2
  <2>3. CASE x # 0
    <3>1. x - 1 \in TwoWindows
      BY <1>3, <2>3
    <3>2. Felt(s, b)[x - 1]
            = IF \A o \in Others(b) : s[o][x - 1] = 0 THEN s[b][x - 1] ELSE MaxRequests + 1
      BY <3>1 DEF Felt
    <3>3. t[b][x] = s[b][x - 1] /\ \A o \in Others(b) : t[o][x] = s[o][x - 1]
      BY <1>2, <1>4, <2>3
    <3> QED
      BY <2>1, <2>3, <3>2, <3>3
  <2> QED
    BY <2>2, <2>3
<1>6. DOMAIN Felt(s, b) = TwoWindows
  BY DEF Felt
<1>7. Aged(Felt(s, b)) = [x \in TwoWindows |-> IF x = 0 THEN 0 ELSE Felt(s, b)[x - 1]]
  BY <1>6 DEF Aged
<1>8. Felt(t, b) = [x \in TwoWindows |-> Felt(t, b)[x]]
  BY DEF Felt
<1> QED
  BY <1>5, <1>7, <1>8

\* A request is felt by whoever made it as one more, and by the others of its
\* key as all they could make.
LEMMA FeltHit ==
  ASSUME NEW s, NEW t, \A b \in Budgets : SeenTyped(s[b]), NEW b \in Budgets,
         t[b] = Capped(Now(s[b])), \A o \in Budgets \ {b} : t[o] = s[o]
  PROVE /\ Felt(t, b) = Capped(Now(Felt(s, b)))
        /\ \A o \in Others(b), x \in TwoWindows : Felt(t, o)[x] = MaxRequests + 1
        /\ \A o \in Budgets : KeyOf(o) # KeyOf(b) => Felt(t, o) = Felt(s, o)
<1>1. /\ SeenTyped(Felt(s, b))
      /\ \A x \in TwoWindows : s[b][x] \in 0 .. MaxRequests + 1
      /\ \A x \in TwoWindows : t[b][x] = IF s[b][x] <= MaxRequests THEN s[b][x] + 1 ELSE s[b][x]
  BY FeltTyped, NowSeen DEF SeenTyped
<1>2. \A o \in Others(b) : o # b /\ o \in Budgets /\ t[o] = s[o] /\ b \in Others(o)
  BY DEF Others
<1>3. Felt(t, b) = Capped(Now(Felt(s, b)))
  <2> DEFINE c == Capped(Now(Felt(s, b)))
  <2>1. \A x \in TwoWindows :
          c[x] = IF Felt(s, b)[x] <= MaxRequests THEN Felt(s, b)[x] + 1 ELSE Felt(s, b)[x]
    BY <1>1, NowSeen
  <2>2. SeenTyped(c)
    BY <1>1, NowSeen
  <2> HIDE DEF c
  <2>3. ASSUME NEW x \in TwoWindows PROVE Felt(t, b)[x] = c[x]
    <3>1. Felt(s, b)[x] = IF \A o \in Others(b) : s[o][x] = 0 THEN s[b][x] ELSE MaxRequests + 1
      BY DEF Felt
    <3>2. Felt(t, b)[x] = IF \A o \in Others(b) : s[o][x] = 0 THEN t[b][x] ELSE MaxRequests + 1
      BY <1>2 DEF Felt
    <3>3. CASE \A o \in Others(b) : s[o][x] = 0
      BY <1>1, <2>1, <3>1, <3>2, <3>3
    <3>4. CASE ~(\A o \in Others(b) : s[o][x] = 0)
      <4>1. Felt(s, b)[x] = MaxRequests + 1 /\ Felt(t, b)[x] = MaxRequests + 1
        BY <3>1, <3>2, <3>4
      <4>2. c[x] = MaxRequests + 1
        BY <2>1, <4>1, Sizes
      <4> QED
        BY <4>1, <4>2
    <3> QED
      BY <3>3, <3>4
  <2>4. Felt(t, b) = [x \in TwoWindows |-> Felt(t, b)[x]] /\ c = [x \in TwoWindows |-> c[x]]
    BY <2>2 DEF Felt, SeenTyped
  <2> QED
    BY <2>3, <2>4 DEF c
<1>4. ASSUME NEW o \in Others(b), NEW x \in TwoWindows
      PROVE Felt(t, o)[x] = MaxRequests + 1
  <2>1. t[b][x] # 0
    BY <1>1, Sizes
  <2> QED
    BY <1>2, <2>1 DEF Felt
<1>5. ASSUME NEW o \in Budgets, KeyOf(o) # KeyOf(b) PROVE Felt(t, o) = Felt(s, o)
  <2>1. o # b /\ t[o] = s[o] /\ \A z \in Others(o) : t[z] = s[z]
    BY <1>5 DEF Others
  <2> QED
    BY <2>1 DEF Felt
<1> QED
  BY <1>3, <1>4, <1>5

LEMMA InitLimits == LimitInit => LimitIInv
<1> SUFFICES ASSUME LimitInit PROVE LimitIInv
  OBVIOUS
<1>1. \A b \in Budgets : KeyOf(b) \in Keys /\ seen[b] = NoHistory(TwoWindows)
  BY KeysOfBudgets DEF LimitInit
<1>2. \A b \in Budgets : Felt(seen, b) = NoHistory(TwoWindows)
  BY <1>1, FeltNothing
<1> QED
  BY <1>1, <1>2, NoHistoryFits DEF LimitInit, LimitIInv, KeyInv

\* What a request does to its key, let through or refused.
LEMMA RequestStep ==
  ASSUME LimitIInv, NEW c \in Calls, Request(c)
  PROVE /\ LimitIInv'
        /\ taken'[Key(c)] = taken[Key(c)] =>
             \/ seen'[Budget(c)][2 * Window - 1] > MaxRequests
             \/ \E d \in Calls :
                  /\ d.client # c.client /\ Shares(c, d)
                  /\ seen[Budget(d)][2 * Window - 1] > 0
<1> DEFINE k == Key(c)
           b == Budget(c)
           hit == [Rolled(store[k]) EXCEPT !.curr = @ + 1]
           n == Capped(Now(Felt(seen, b)))
           h == IF Rate(hit) <= MaxRequests THEN Now(taken[k]) ELSE taken[k]
<1>1. k \in Keys /\ b \in Budgets /\ KeyOf(b) = k
  BY KeyOfBudget DEF Keys, Budgets
<1>2. /\ hit.curr <= MaxHits
      /\ store' = [store EXCEPT ![k] = hit]
      /\ seen' = [seen EXCEPT ![b] = Capped(Now(@))]
      /\ taken' = IF Rate(hit) <= MaxRequests THEN [taken EXCEPT ![k] = Now(@)] ELSE taken
  BY DEF Request, Hit
<1>3. KeyInv(store[k], taken[k], Felt(seen, b))
  BY <1>1 DEF LimitIInv
<1>4. DOMAIN store = Keys /\ DOMAIN taken = Keys /\ DOMAIN seen = Budgets
      /\ \A o \in Budgets : SeenTyped(seen[o])
  BY DEF LimitIInv
<1> HIDE DEF k, b, hit
<1>5. /\ store'[k] = hit /\ taken'[k] = h
      /\ \A j \in Keys \ {k} : store'[j] = store[j] /\ taken'[j] = taken[j]
      /\ DOMAIN store' = Keys /\ DOMAIN taken' = Keys
      /\ store' = [j \in Keys |-> store'[j]] /\ taken' = [j \in Keys |-> taken'[j]]
  BY <1>1, <1>2, <1>4 DEF LimitIInv
<1>6. /\ seen'[b] = Capped(Now(seen[b]))
      /\ \A o \in Budgets \ {b} : seen'[o] = seen[o]
      /\ DOMAIN seen' = Budgets /\ seen' = [o \in Budgets |-> seen'[o]]
  BY <1>1, <1>2, <1>4 DEF LimitIInv
<1>7. /\ Felt(seen', b) = n
      /\ \A o \in Others(b), x \in TwoWindows : Felt(seen', o)[x] = MaxRequests + 1
      /\ \A o \in Budgets : KeyOf(o) # k => Felt(seen', o) = Felt(seen, o)
  BY <1>1, <1>4, <1>6, FeltHit
<1>8. \A o \in Budgets : SeenTyped(seen'[o])
  BY <1>1, <1>4, <1>6, NowSeen
<1> HIDE DEF n, h
<1>9. KeyInv(hit, h, n)
  BY <1>2, <1>3, LetThrough, Refused DEF hit, n, h
<1>10. EntryFields(hit) /\ hit.left \in 1 .. Window
  BY <1>2, <1>3, HitFits DEF hit
<1>11. ASSUME NEW o \in Budgets
       PROVE KeyInv(store'[KeyOf(o)], taken'[KeyOf(o)], Felt(seen', o))
  <2>1. CASE o = b
    BY <1>1, <1>5, <1>7, <1>9, <2>1
  <2>2. CASE o # b /\ KeyOf(o) = k
    <3> DEFINE f == Felt(seen', o)
    <3>1. \A x \in TwoWindows : f[x] = MaxRequests + 1
      BY <1>1, <1>7, <2>2 DEF Others
    <3>2. SeenTyped(f)
      BY <1>8, FeltTyped
    <3> HIDE DEF f
    <3>3. Window - hit.left \in TwoWindows /\ 2 * Window - hit.left \in TwoWindows
      BY <1>10, Sizes DEF TwoWindows
    <3>4. Cap(hit.curr) <= MaxRequests + 1 /\ Cap(hit.curr + hit.prev) <= MaxRequests + 1
      BY <1>10, Sizes DEF EntryFields, Cap
    <3>5. SeenInv(hit, f)
      BY <3>1, <3>3, <3>4 DEF SeenInv
    <3>6. KeyInv(hit, h, f)
      BY <1>9, <3>2, <3>5 DEF KeyInv
    <3> QED
      BY <1>5, <2>2, <3>6 DEF f
  <2>3. CASE KeyOf(o) # k
    <3>1. KeyOf(o) \in Keys
      BY KeysOfBudgets
    <3> QED
      BY <1>5, <1>7, <2>3, <3>1 DEF LimitIInv
  <2> QED
    BY <2>1, <2>2, <2>3
<1>12. LimitIInv'
  BY <1>5, <1>6, <1>8, <1>11 DEF LimitIInv
<1>13. ASSUME taken'[k] = taken[k]
       PROVE \/ seen'[b][2 * Window - 1] > MaxRequests
             \/ \E d \in Calls :
                  /\ d.client # c.client /\ Shares(c, d)
                  /\ seen[Budget(d)][2 * Window - 1] > 0
  <2>1. ~(Rate(hit) <= MaxRequests)
    BY <1>3, <1>5, <1>13, NowTaken DEF KeyInv, h
  <2>2. Felt(seen', b)[2 * Window - 1] > MaxRequests
    BY <1>2, <1>3, <1>7, <2>1, Refused DEF hit, n
  <2>3. 2 * Window - 1 \in TwoWindows
    BY Sizes DEF TwoWindows
  <2>4. CASE \A o \in Others(b) : seen'[o][2 * Window - 1] = 0
    BY <2>2, <2>3, <2>4 DEF Felt
  <2>5. CASE ~(\A o \in Others(b) : seen'[o][2 * Window - 1] = 0)
    <3>1. PICK o \in Others(b) : seen'[o][2 * Window - 1] # 0
      BY <2>5
    <3>2. PICK d \in Calls : o = Budget(d) /\ d.client # c.client /\ Shares(c, d)
      BY <3>1, OthersShare DEF b
    <3>3. o \in Budgets \ {b} /\ seen'[o] = seen[o]
      BY <1>6, <3>1 DEF Others
    <3>4. seen[o][2 * Window - 1] \in 0 .. MaxRequests + 1
      BY <1>4, <2>3, <3>3 DEF SeenTyped
    <3>5. seen[o][2 * Window - 1] > 0
      BY <3>1, <3>3, <3>4, Sizes
    <3> QED
      BY <3>2, <3>5
  <2> QED
    BY <2>4, <2>5
<1> QED
  BY <1>12, <1>13 DEF k, b

LEMMA StepLimits == LimitIInv /\ [LimitNext]_limitVars => LimitIInv'
<1> SUFFICES ASSUME LimitIInv, [LimitNext]_limitVars PROVE LimitIInv'
  OBVIOUS
<1>1. CASE LimitTick
  <2>1. \A b \in Budgets :
          /\ KeyOf(b) \in Keys /\ SeenTyped(seen[b])
          /\ KeyInv(store[KeyOf(b)], taken[KeyOf(b)], Felt(seen, b))
    BY KeysOfBudgets DEF LimitIInv
  <2>2. \A b \in Budgets : seen'[b] = Aged(seen[b])
    BY <1>1 DEF LimitTick
  <2>3. \A b \in Budgets : Felt(seen', b) = Aged(Felt(seen, b))
    BY <2>1, <2>2, FeltAged
  <2>4. \A b \in Budgets : KeyInv(store'[KeyOf(b)], taken'[KeyOf(b)], Felt(seen', b))
    BY <1>1, <2>1, <2>3, Ticked DEF LimitTick
  <2>5. ASSUME NEW b \in Budgets PROVE SeenTyped(seen'[b])
    <3>1. 2 * Window \in Nat \ {0} /\ 0 .. MaxRequests + 1 \in SUBSET Nat
          /\ 0 \in 0 .. MaxRequests + 1
      BY Sizes
    <3>2. seen[b] \in [0 .. 2 * Window - 1 -> 0 .. MaxRequests + 1] /\ Growing(seen[b])
      BY <2>1 DEF SeenTyped, TwoWindows
    <3>3. /\ Aged(seen[b]) \in [0 .. 2 * Window - 1 -> 0 .. MaxRequests + 1]
          /\ Growing(Aged(seen[b]))
      BY <3>1, <3>2, AgedHistory
    <3> QED
      BY <2>2, <3>3 DEF SeenTyped, TwoWindows
  <2> QED
    BY <1>1, <2>4, <2>5 DEF LimitTick, LimitIInv
<1>2. CASE LimitRestart
  <2>1. \A b \in Budgets : KeyOf(b) \in Keys
    BY KeysOfBudgets
  <2>2. \A b \in Budgets : KeyInv(store'[KeyOf(b)], taken'[KeyOf(b)], Felt(seen', b))
    BY <1>2, <2>1, NoHistoryFits DEF LimitRestart, LimitIInv, KeyInv
  <2> QED
    BY <1>2, <2>2 DEF LimitRestart, LimitIInv
<1>3. ASSUME NEW c \in Calls, Request(c) PROVE LimitIInv'
  BY <1>3, RequestStep
<1>4. CASE UNCHANGED limitVars
  BY <1>4 DEF limitVars, LimitIInv
<1> QED
  BY <1>1, <1>2, <1>3, <1>4 DEF LimitNext

LEMMA LimitIInvImplies == LimitIInv => LimitInv
<1>1. ASSUME LimitIInv, NEW k \in Keys
      PROVE EntryTyped(store[k]) /\ TakenTyped(taken[k]) /\ Bounded(taken[k])
  BY <1>1, KeysOfBudgets DEF LimitIInv, KeyInv
<1> QED
  BY <1>1 DEF EntryTyped, TakenTyped, Bounded, LimitInv, LimitTypeOK, NearlyTwice

\* In no stretch of time as long as the window does a key get twice MaxRequests
\* through, and two ticks' share less: whenever the window, the requests and the
\* restarts come, for any MaxRequests and Window.  (RateLimit)
THEOREM WindowsHold == LimitSpec => []LimitInv
<1>1. LimitInit => LimitIInv
  BY InitLimits
<1> QED
  BY <1>1, StepLimits, LimitIInvImplies, PTL DEF LimitSpec

\* A client is refused for more than MaxRequests requests of its own within two
\* windows, or for one of somebody else with whom it shares the address and, where
\* mail is sent, the mailbox: for any clients that share addresses, any header that
\* reaches a trusted proxy's connection and any mailboxes.  (RateLimit, KeyGenerator)
THEOREM RefusalsAreEarned == LimitSpec => RefusalIsEarned
<1>1. LimitIInv /\ [LimitNext]_limitVars
        => [\A c \in Calls : Request(c) /\ taken'[Key(c)] = taken[Key(c)] =>
              \/ seen'[Budget(c)][2 * Window - 1] > MaxRequests
              \/ \E d \in Calls :
                   /\ d.client # c.client /\ Shares(c, d)
                   /\ seen[Budget(d)][2 * Window - 1] > 0]_limitVars
  BY RequestStep
<1>2. LimitInit => LimitIInv
  BY InitLimits
<1> QED
  BY <1>1, <1>2, StepLimits, PTL DEF LimitSpec, RefusalIsEarned

-----------------------------------------------------------------------------
\* The mail.  The commands come in order, so which one a conversation is at says
\* what was given away before it.

\* The conversation: it is encrypted from where it has to be.
TalkInv ==
  /\ at # "talking" => step = 0 /\ ~secure
  /\ at = "dialling" => deadline = Timeout
  /\ at = "talking" /\ cfg.tls = "tls" => secure
  /\ at = "talking" /\ cfg.tls = "starttls" => step < 3 \/ secure

\* The message being sent is not counted yet, until its body is taken.
CountInv ==
  /\ at = "dialling" => accepted < sends
  /\ at = "talking" => IF Command = "QUIT" THEN reported < accepted ELSE accepted < sends

MailIInv == MailInv /\ TalkInv /\ CountInv

----------------------------------------------------------------------------
\* The commands

Preludes == {"greeting", "STARTTLS", "AUTH"}

\* The commands before the message, and those of the message.
Prelude ==
  <<"greeting">>
  \o (IF cfg.tls = "starttls" THEN <<"STARTTLS">> ELSE <<>>)
  \o (IF cfg.login THEN <<"AUTH">> ELSE <<>>)

Message == <<"MAIL", "RCPT", "DATA", "body", "QUIT">>

LEMMA PreludeFacts ==
  /\ Prelude \in Seq(Preludes) /\ Len(Prelude) \in Nat
  /\ cfg.tls = "starttls" =>
       Len(Prelude) >= 2 /\ Prelude[1] = "greeting" /\ Prelude[2] = "STARTTLS"
<1> DEFINE one == <<"greeting">>
           two == IF cfg.tls = "starttls" THEN <<"STARTTLS">> ELSE <<>>
           three == IF cfg.login THEN <<"AUTH">> ELSE <<>>
           both == one \o two
<1>1. one \in Seq(Preludes) /\ Len(one) = 1 /\ one[1] = "greeting"
  BY DEF Preludes
<1>2. /\ two \in Seq(Preludes) /\ Len(two) \in Nat
      /\ cfg.tls = "starttls" => Len(two) = 1 /\ two[1] = "STARTTLS"
  <2>1. CASE cfg.tls = "starttls"
    <3>1. two = <<"STARTTLS">>
      BY <2>1
    <3> HIDE DEF two
    <3> QED
      BY <3>1 DEF Preludes
  <2>2. CASE cfg.tls # "starttls"
    <3>1. two = <<>>
      BY <2>2
    <3> HIDE DEF two
    <3> QED
      BY <2>2, <3>1, EmptySeq
  <2> QED
    BY <2>1, <2>2
<1>3. three \in Seq(Preludes) /\ Len(three) \in Nat
  <2>1. three = <<"AUTH">> \/ three = <<>>
    BY Zenon
  <2> HIDE DEF three
  <2>2. CASE three = <<"AUTH">>
    BY <2>2 DEF Preludes
  <2>3. CASE three = <<>>
    BY <2>3, EmptySeq
  <2> QED
    BY <2>1, <2>2, <2>3
<1> HIDE DEF one, two, three
<1>4. /\ both \in Seq(Preludes) /\ Len(both) = 1 + Len(two) /\ both[1] = "greeting"
      /\ cfg.tls = "starttls" => both[2] = "STARTTLS"
  <2>1. /\ one \o two \in Seq(Preludes) /\ Len(one \o two) = Len(one) + Len(two)
        /\ \A j \in 1 .. Len(one) + Len(two) :
             (one \o two)[j] = IF j <= Len(one) THEN one[j] ELSE two[j - Len(one)]
    BY <1>1, <1>2, ConcatProperties
  <2>2. both[1] = "greeting"
    BY <1>1, <1>2, <2>1
  <2>3. ASSUME cfg.tls = "starttls" PROVE both[2] = "STARTTLS"
    BY <1>1, <1>2, <2>1, <2>3
  <2> QED
    BY <1>1, <2>1, <2>2, <2>3
<1> HIDE DEF both
<1>5. /\ both \o three \in Seq(Preludes) /\ Len(both \o three) = Len(both) + Len(three)
      /\ \A j \in 1 .. Len(both) : (both \o three)[j] = both[j]
  <2>1. /\ both \o three \in Seq(Preludes) /\ Len(both \o three) = Len(both) + Len(three)
        /\ \A j \in 1 .. Len(both) + Len(three) :
             (both \o three)[j] = IF j <= Len(both) THEN both[j] ELSE three[j - Len(both)]
    <3>1. both \in Seq(Preludes) /\ three \in Seq(Preludes)
      BY <1>3, <1>4
    <3> QED
      BY <3>1, ConcatProperties
  <2> QED
    BY <1>2, <1>3, <1>4, <2>1
<1>6. Prelude = both \o three
  BY DEF Prelude, both, one, two, three
<1> QED
  BY <1>2, <1>3, <1>4, <1>5, <1>6

LEMMA CommandFacts ==
  /\ Len(Commands) \in Nat /\ Len(Commands) > 1
  /\ \A j \in 1 .. Len(Commands) :
       /\ Commands[j] = "QUIT" <=> j = Len(Commands)
       /\ Commands[j] = "body" <=> j = Len(Commands) - 1
  /\ cfg.tls = "starttls" => Commands[1] = "greeting" /\ Commands[2] = "STARTTLS"
<1>1. Commands = Prelude \o Message
  BY DEF Commands, Prelude, Message
<1> DEFINE all == {"greeting", "STARTTLS", "AUTH", "MAIL", "RCPT", "DATA", "body", "QUIT"}
<1>2. Prelude \in Seq(all)
  BY PreludeFacts DEF Preludes
<1>3. Message \in Seq(all) /\ Len(Message) = 5 /\ Message[4] = "body" /\ Message[5] = "QUIT"
      /\ Message[1] = "MAIL" /\ Message[2] = "RCPT" /\ Message[3] = "DATA"
  BY DEF Message
<1>4. \A j \in 1 .. Len(Prelude) : Prelude[j] \in Preludes
  BY PreludeFacts
<1> HIDE DEF all
<1>5. /\ Len(Commands) = Len(Prelude) + 5
      /\ \A j \in 1 .. Len(Commands) :
           Commands[j] = IF j <= Len(Prelude) THEN Prelude[j] ELSE Message[j - Len(Prelude)]
  <2>1. /\ Len(Prelude \o Message) = Len(Prelude) + Len(Message)
        /\ \A j \in 1 .. Len(Prelude) + Len(Message) :
             (Prelude \o Message)[j] =
               IF j <= Len(Prelude) THEN Prelude[j] ELSE Message[j - Len(Prelude)]
    BY <1>2, <1>3, ConcatProperties
  <2> QED
    BY <1>1, <1>3, <2>1, PreludeFacts
<1>6. ASSUME NEW j \in 1 .. Len(Commands)
      PROVE /\ Commands[j] = "QUIT" <=> j = Len(Commands)
            /\ Commands[j] = "body" <=> j = Len(Commands) - 1
  <2>1. CASE j <= Len(Prelude)
    BY <1>4, <1>5, <2>1, PreludeFacts DEF Preludes
  <2>2. CASE ~(j <= Len(Prelude))
    <3>1. j - Len(Prelude) \in 1 .. 5 /\ Commands[j] = Message[j - Len(Prelude)]
      BY <1>5, <2>2, PreludeFacts
    <3> QED
      BY <1>3, <1>5, <3>1, PreludeFacts
  <2> QED
    BY <2>1, <2>2
<1> QED
  BY <1>5, <1>6, PreludeFacts

\* The command Send waits at, and the next.
LEMMA NextCommand ==
  ASSUME MailTypeOK, at = "talking", Command # "QUIT"
  PROVE /\ step + 1 \in 0 .. Len(Commands)
        /\ Commands[step + 1] = "QUIT" <=> Command = "body"
<1>1. step \in 1 .. Len(Commands)
  BY CommandFacts DEF MailTypeOK
<1>2. step # Len(Commands)
  BY <1>1, CommandFacts DEF Command
<1>3. step + 1 \in 1 .. Len(Commands)
  BY <1>1, <1>2, CommandFacts
<1> QED
  BY <1>1, <1>3, CommandFacts DEF Command

----------------------------------------------------------------------------
\* The invariant

LEMMA InitMail == MailInit => MailIInv
<1> SUFFICES ASSUME MailInit PROVE MailIInv
  OBVIOUS
<1>1. MailTypeOK
  <2>1. secure \in BOOLEAN
    BY Zenon DEF MailInit
  <2>2. 0 \in 0 .. Len(Commands) /\ 0 \in 0 .. MaxSends /\ 0 \in 0 .. 2 * Timeout /\ 0 \in 0 .. 0
    BY SmtpAssumption, CommandFacts
  <2> QED
    BY <2>1, <2>2 DEF MailInit, MailTypeOK
<1> QED
  BY <1>1 DEF MailInit, MailIInv, MailInv, ReportedWasAccepted, NothingInClear, TalkInv, CountInv

\* The configuration is the same, and so are the commands.
LEMMA SameCommands ==
  ASSUME cfg' = cfg
  PROVE Commands' = Commands
BY DEF Commands

LEMMA StepSend ==
  ASSUME MailIInv, Send
  PROVE MailIInv'
<1> USE SmtpAssumption
<1>1. Commands' = Commands
  BY SameCommands DEF Send
<1>2. MailTypeOK'
  BY <1>1 DEF MailIInv, MailInv, MailTypeOK, Send
<1>3. ReportedWasAccepted' /\ NothingInClear'
  BY DEF MailIInv, MailInv, MailTypeOK, ReportedWasAccepted, NothingInClear, Send
<1>4. TalkInv' /\ CountInv'
  BY DEF MailIInv, MailInv, MailTypeOK, ReportedWasAccepted, TalkInv, CountInv, Send
<1> QED
  BY <1>2, <1>3, <1>4 DEF MailIInv, MailInv

LEMMA StepDialled ==
  ASSUME MailIInv, Dialled
  PROVE MailIInv'
<1> USE SmtpAssumption
<1>1. Commands' = Commands
  BY SameCommands DEF Dialled
<1>2. MailTypeOK'
  <2>1. deadline' \in 0 .. 2 * Timeout /\ elapsed' \in 0 .. deadline'
    BY DEF MailIInv, MailInv, MailTypeOK, TalkInv, Dialled, FreshDeadline
  <2>2. step' \in 0 .. Len(Commands)' /\ step' > 0
    BY <1>1, CommandFacts DEF Dialled
  <2>3. secure' \in BOOLEAN
    BY Zenon DEF Dialled
  <2> QED
    BY <2>1, <2>2, <2>3 DEF MailIInv, MailInv, MailTypeOK, Dialled
<1>3. ReportedWasAccepted' /\ NothingInClear'
  BY DEF MailIInv, MailInv, ReportedWasAccepted, NothingInClear, Dialled
<1>4. TalkInv'
  <2>1. cfg'.tls = "tls" => secure'
    BY Zenon DEF Dialled
  <2> QED
    BY <2>1 DEF TalkInv, Dialled
<1>5. CountInv'
  <2>1. Command' # "QUIT"
    BY <1>1, CommandFacts DEF Dialled, Command
  <2> QED
    BY <2>1 DEF MailIInv, CountInv, Dialled
<1> QED
  BY <1>2, <1>3, <1>4, <1>5 DEF MailIInv, MailInv

\* Commands in clear give nothing away that TLS was asked for, and nobody but
\* localhost the password.
LEMMA ClearCommands ==
  ASSUME MailIInv, at = "talking", Speaks(Command), ~secure
  PROVE /\ cfg.tls \in {"starttls", "tls"} => Gives(Command) = {}
        /\ "password" \in Gives(Command) => cfg.localhost
<1>1. step \in 1 .. Len(Commands)
  BY CommandFacts DEF MailIInv, MailInv, MailTypeOK
<1>2. ASSUME cfg.tls = "starttls" PROVE Gives(Command) = {}
  <2>1. step \in 1 .. 2
    BY <1>1, <1>2, CommandFacts DEF MailIInv, TalkInv
  <2>2. Command \in {"greeting", "STARTTLS"}
    BY <1>2, <2>1, CommandFacts DEF Command
  <2> QED
    BY <2>2 DEF Gives
<1>3. cfg.tls # "tls"
  BY DEF MailIInv, TalkInv
<1>4. ASSUME "password" \in Gives(Command) PROVE cfg.localhost
  <2>1. Command = "AUTH"
    BY <1>4 DEF Gives
  <2> QED
    BY <2>1 DEF Speaks
<1> QED
  BY <1>2, <1>3, <1>4

LEMMA GivesTyped == \A c : Gives(c) \subseteq {"password", "message"}
BY DEF Gives

LEMMA StepReplies ==
  ASSUME MailIInv, Replies
  PROVE MailIInv'
<1>1. Commands' = Commands /\ cfg' = cfg
  BY SameCommands DEF Replies
<1>2. /\ step + 1 \in 0 .. Len(Commands)
      /\ Commands[step + 1] = "QUIT" <=> Command = "body"
  BY NextCommand DEF MailIInv, MailInv, Replies
<1>3. accepted < sends /\ accepted \in Nat /\ sends \in Nat /\ reported \in Nat /\ step \in Nat
      /\ accepted' = IF Command = "body" THEN accepted + 1 ELSE accepted
  BY SmtpAssumption, CommandFacts DEF MailIInv, MailInv, MailTypeOK, CountInv, Replies
<1>4. exposed' \subseteq {"password", "message"}
  BY GivesTyped DEF MailIInv, MailInv, MailTypeOK, Replies
<1>5. MailTypeOK'
  <2>1. secure' \in BOOLEAN
    BY Zenon DEF Replies
  <2>2. step' \in 0 .. Len(Commands)' /\ step' > 0
    BY <1>1, <1>2, <1>3 DEF Replies
  <2>3. accepted' \in 0 .. MaxSends
    BY <1>3, SmtpAssumption DEF MailIInv, MailInv, MailTypeOK
  <2> QED
    BY <1>4, <2>1, <2>2, <2>3 DEF MailIInv, MailInv, MailTypeOK, Replies
<1>6. ReportedWasAccepted'
  BY <1>3 DEF MailIInv, MailInv, ReportedWasAccepted, Replies
<1>7. NothingInClear'
  <2>1. CASE secure
    BY <1>1, <2>1 DEF MailIInv, MailInv, NothingInClear, Replies
  <2>2. CASE ~secure
    <3>1. exposed' = exposed \cup Gives(Command)
      BY <2>2 DEF Replies
    <3> QED
      BY <1>1, <2>2, <3>1, ClearCommands DEF MailIInv, MailInv, NothingInClear, Replies
  <2> QED
    BY <2>1, <2>2
<1>8. TalkInv'
  <2>1. secure => secure'
    BY DEF Replies
  <2>2. ASSUME cfg.tls = "starttls" PROVE step' < 3 \/ secure'
    <3>1. CASE step = 2
      BY <2>2, <3>1, CommandFacts DEF Replies, Command
    <3>2. CASE step # 2
      BY <1>3, <2>1, <2>2, <3>2 DEF MailIInv, TalkInv, Replies
    <3> QED
      BY <3>1, <3>2
  <2> QED
    BY <1>1, <2>1, <2>2 DEF MailIInv, TalkInv, Replies
<1>9. CountInv'
  <2>1. Command' = Commands[step + 1]
    BY <1>1 DEF Command, Replies
  <2> QED
    BY <1>2, <1>3, <2>1 DEF MailIInv, MailInv, ReportedWasAccepted, CountInv, Replies
<1> QED
  BY <1>5, <1>6, <1>7, <1>8, <1>9 DEF MailIInv, MailInv

\* However Send ends, what it reports was taken.
LEMMA StepSendEnds ==
  ASSUME MailIInv, DialFails \/ Quits \/ CommandFails
  PROVE MailIInv'
<1>1. /\ at' = "idle" /\ step' = 0 /\ ~secure' /\ secure' = FALSE
      /\ UNCHANGED <<cfg, elapsed, deadline, sends>>
      /\ at \in {"dialling", "talking"}
  BY DEF DialFails, Quits, CommandFails, SendEnds
<1>2. Commands' = Commands
  BY <1>1, SameCommands
<1>3. reported \in Nat /\ accepted \in Nat /\ sends \in Nat /\ reported <= accepted /\ accepted <= sends
      /\ sends <= MaxSends
  BY SmtpAssumption DEF MailIInv, MailInv, MailTypeOK, ReportedWasAccepted
<1>4. /\ reported' \in Nat /\ accepted' \in Nat /\ reported' <= accepted' /\ accepted' <= sends
  <2>1. CASE DialFails
    BY <1>3, <2>1 DEF DialFails, SendEnds
  <2>2. CASE Quits
    BY <1>3, <2>2 DEF Quits, SendEnds, MailIInv, CountInv
  <2>3. CASE CommandFails
    BY <1>3, <2>3 DEF CommandFails, SendEnds, Failure, MailIInv, CountInv
  <2> QED
    BY <2>1, <2>2, <2>3
<1>5. exposed' \subseteq {"password", "message"} /\ NothingInClear'
  <2>1. CASE exposed' = exposed
    BY <1>1, <2>1 DEF MailIInv, MailInv, MailTypeOK, NothingInClear
  <2>2. CASE exposed' # exposed
    <3>1. CommandFails /\ ~secure /\ Speaks(Command) /\ exposed' = exposed \cup Gives(Command)
      BY <2>2 DEF DialFails, Quits, CommandFails
    <3>2. at = "talking"
      BY <3>1 DEF CommandFails
    <3> QED
      BY <1>1, <3>1, <3>2, ClearCommands, GivesTyped DEF MailIInv, MailInv, MailTypeOK, NothingInClear
  <2> QED
    BY <2>1, <2>2
<1>6. MailTypeOK'
  <2>1. secure' \in BOOLEAN
    BY <1>1, Zenon
  <2>2. 0 \in 0 .. Len(Commands) /\ accepted' \in 0 .. MaxSends /\ reported' \in 0 .. MaxSends
    BY <1>3, <1>4, SmtpAssumption, CommandFacts
  <2> QED
    BY <1>1, <1>2, <1>5, <2>1, <2>2 DEF MailIInv, MailInv, MailTypeOK
<1> QED
  BY <1>1, <1>4, <1>5, <1>6 DEF MailIInv, MailInv, ReportedWasAccepted, TalkInv, CountInv

LEMMA StepMail == MailIInv /\ [MailNext]_mailVars => MailIInv'
<1> SUFFICES ASSUME MailIInv, [MailNext]_mailVars PROVE MailIInv'
  OBVIOUS
<1>1. CASE MailTick
  <2>1. Commands' = Commands /\ Command' = Command
    BY <1>1, SameCommands DEF MailTick, Command
  <2>2. elapsed' \in 0 .. deadline'
    BY <1>1, SmtpAssumption DEF MailTick, MailIInv, MailInv, MailTypeOK
  <2> QED
    BY <1>1, <2>1, <2>2 DEF MailTick, MailIInv, MailInv, MailTypeOK, ReportedWasAccepted,
       NothingInClear, TalkInv, CountInv
<1>2. CASE AllSent \/ UNCHANGED mailVars
  <2>1. Commands' = Commands /\ Command' = Command
    BY <1>2, SameCommands DEF AllSent, mailVars, Command
  <2>2. UNCHANGED mailVars
    BY <1>2 DEF AllSent
  <2>3. MailInv'
    BY <2>1, <2>2 DEF mailVars, MailIInv, MailInv, MailTypeOK, ReportedWasAccepted, NothingInClear
  <2>4. TalkInv' /\ CountInv'
    BY <2>1, <2>2 DEF mailVars, MailIInv, TalkInv, CountInv
  <2> QED
    BY <2>3, <2>4 DEF MailIInv
<1> QED
  BY <1>1, <1>2, StepSend, StepDialled, StepReplies, StepSendEnds DEF MailNext

\* Whatever the server refuses, drops or answers late, what is reported as sent
\* was taken, and nothing that TLS was asked for travels in clear: for any
\* timeout and number of messages.  (Send)
THEOREM MailIsSafe == MailSpec => []MailInv
<1>1. MailIInv => MailInv
  BY DEF MailIInv
<1> QED
  BY <1>1, InitMail, StepMail, PTL DEF MailSpec
=============================================================================
