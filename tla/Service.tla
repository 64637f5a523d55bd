------------------------------ MODULE Service ------------------------------
(***************************************************************************)
(* service/setup.go: Run initialises the modules as the configuration file *)
(* says, serves requests until its context ends, shuts the server down and *)
(* stops pprof.  Two of the routes are /pprof/start and /pprof/stop, so    *)
(* that the requests being served and the shutdown path (Main) are callers *)
(* of one DynamicPprof.                                                    *)
(*                                                                         *)
(* The service speaks HTTP/1 and HTTP/2 without TLS.  h2c hijacks its      *)
(* connections, and http.Server.Shutdown neither closes hijacked           *)
(* connections nor waits for them.  When Run is over the process ends.     *)
(***************************************************************************)
EXTENDS AppConfig

CONSTANTS
    Clients,        \* connections, each making one request at most
    Main,           \* the goroutine of Run
    ConfigFiles,    \* configuration files to consider
    RedisRetries,   \* times the first ping is tried again
    MaxTime, NoCaller, NoSession, Absent    \* of DynamicPprof

ASSUME MainAssumption == Main \notin Clients
ASSUME RetriesAssumption == RedisRetries \in Nat
ASSUME FilesAssumption == \A f \in ConfigFiles : f.trace.rate \in Int
\* What DynamicPprof asks of its constants.
ASSUME PprofAssumption ==
    /\ NoCaller \notin Clients \cup {Main}
    /\ MaxTime \in Nat \ {0}
    /\ {NoSession, Absent} \cap ((Clients \cup {Main}) \X (1 .. 1)) = {}
    /\ NoSession # Absent

VARIABLES
    main,       \* where Run is
    booted,     \* how many modules are initialised
    file,       \* the configuration file
    tracing,    \* "off", "ready" or "closed"
    redis,      \* the client InitRedis has published
    pings,      \* pings of it that have failed
    mysql,      \* the client InitMySQL has published
    ctxDone,    \* the context of Run is done
    server,     \* the http.Server
    conn,       \* the protocol of each connection
    req,        \* and its request
    timedOut    \* Shutdown gave up waiting

\* The variables of DynamicPprof.
VARIABLES state, mu, session, cpu, sock, began, disk, dumpFailures, now,
          pc, calls, taken, reply

Pprof == INSTANCE DynamicPprof WITH
    Callers <- Clients \cup {Main}, MaxCalls <- 1, StopMayOvertakeStart <- TRUE

\* Pprof!vars, in the names of this module.
pprofVars   == <<state, mu, session, cpu, sock, began, disk, dumpFailures, now,
                 pc, calls, taken, reply>>
bootVars    == <<booted, file, tracing, redis, pings, mysql>>
requestVars == <<conn, req>>
vars == <<main, bootVars, ctxDone, server, requestVars, timedOut, pprofVars>>

\* The default modules in the order Sort gives them, then those of the caller.
Modules == <<"config", "runtime-metadata", "log", "tracing", "redis", "mysql",
             "kafka", "metrics", "pprof", "extra">>
Plain == {"runtime-metadata", "log", "kafka", "metrics", "pprof", "extra"}

\* A client of the instance of that name; "up" when it has been heard of.
Instances == UNION {DOMAIN f.redis \cup DOMAIN f.mysql.instances : f \in ConfigFiles}
Backend == [instance : Instances \cup {NoInstance}, up : BOOLEAN]
NoBackend == [instance |-> NoInstance, up |-> FALSE]

TypeOK ==
    /\ Pprof!TypeOK
    /\ main \in {"boot", "waiting", "draining", "stopping", "unwinding", "returned", "panicked"}
    /\ booted \in 0 .. Len(Modules)
    /\ file \in ConfigFiles
    /\ tracing \in {"off", "ready", "closed"}
    /\ redis \in Backend /\ mysql \in Backend
    /\ pings \in 0 .. RedisRetries
    /\ ctxDone \in BOOLEAN /\ timedOut \in BOOLEAN
    /\ server \in {"none", "starting", "listening", "down", "closed"}
    /\ conn \in [Clients -> {"http1", "h2c"}]
    /\ req \in [Clients -> {"none", "open", "serving", "answered"}]

Init ==
    /\ Pprof!Init
    /\ file \in ConfigFiles
    /\ main = "boot" /\ booted = 0 /\ tracing = "off"
    /\ redis = NoBackend /\ mysql = NoBackend /\ pings = 0
    /\ ctxDone = FALSE /\ timedOut = FALSE
    /\ server = "none"
    /\ conn \in [Clients -> {"http1", "h2c"}]
    /\ req = [c \in Clients |-> "none"]

-----------------------------------------------------------------------------
Alive == main \notin {"returned", "panicked"}

\* Execute comes to a module, and goes on to the next when its Init succeeds.
Booting(module) == main = "boot" /\ booted < Len(Modules) /\ Modules[booted + 1] = module
Booted == booted' = booted + 1 /\ UNCHANGED main

\* Execute returns an error: Run panics.
Panics == main' = "unwinding" /\ UNCHANGED booted

LoadConfig ==
    /\ Booting("config")
    /\ \/ Accepted(file) /\ Booted
       \/ ~Accepted(file) /\ Panics
    /\ UNCHANGED <<file, tracing, redis, pings, mysql, ctxDone, server, requestVars,
                   timedOut, pprofVars>>

\* Modules that cannot fail, and the caller's, which can; kafka only warns.
Boot ==
    /\ \E module \in Plain : Booting(module) /\ (Booted \/ (module = "extra" /\ Panics))
    /\ UNCHANGED <<file, tracing, redis, pings, mysql, ctxDone, server, requestVars,
                   timedOut, pprofVars>>

\* A failure of InitTracing is logged and swallowed; the exporter or the
\* resource may fail too.
InitTracing ==
    /\ Booting("tracing")
    /\ tracing' \in IF Traceable(TraceConfig(file)) THEN {"off", "ready"} ELSE {"off"}
    /\ Booted
    /\ UNCHANGED <<file, redis, pings, mysql, ctxDone, server, requestVars, timedOut, pprofVars>>

\* initRedis and initMySQL: no instance, no choice between several, or one.
RefusedAsNone(instances) == Booted  \* mutant: the error is not returned
Refused(instances) == Panics

SkipBackend(module, instances) ==
    /\ Booting(module)
    /\ \/ DOMAIN instances = {} /\ Booted
       \/ Ambiguous(instances) /\ Refused(instances)
    /\ UNCHANGED <<file, tracing, redis, pings, mysql, ctxDone, server, requestVars,
                   timedOut, pprofVars>>

Chosen(instances) == DOMAIN instances # {} /\ ~Ambiguous(instances)

\* InitRedis publishes the client before it pings it.
DialRedis ==
    /\ Booting("redis") /\ Chosen(file.redis)
    /\ redis = NoBackend
    /\ redis' = [instance |-> SelectInstance(file.redis), up |-> FALSE]
    /\ UNCHANGED <<main, booted, file, tracing, pings, mysql, ctxDone, server, requestVars,
                   timedOut, pprofVars>>

\* Retry: the ping is tried again so many times at most.
MoreTries == pings < RedisRetries

\* A ping fails when the context of Run is done, or for a reason of its
\* own; the last failure is the error.
PingRedis ==
    /\ Booting("redis")
    /\ redis # NoBackend
    /\ \/ ~ctxDone /\ redis' = [redis EXCEPT !.up = TRUE] /\ Booted /\ UNCHANGED pings
       \/ /\ pings < RedisRetries /\ pings' = pings + 1
          /\ UNCHANGED <<main, booted, redis>>
       \/ ~MoreTries /\ Panics /\ UNCHANGED <<redis, pings>>
    /\ UNCHANGED <<file, tracing, mysql, ctxDone, server, requestVars, timedOut, pprofVars>>

\* mysql.InitMySQL publishes what gorm.Open, which has pinged it, returns.
PublishMySQL == mysql' = [instance |-> SelectInstance(file.mysql.instances), up |-> TRUE]

\* gorm.Open fails before that; db.DB() or the ping of the file may fail later.
InitMySQL ==
    /\ Booting("mysql") /\ Chosen(file.mysql.instances)
    /\ \/ PublishMySQL /\ (Booted \/ Panics)
       \/ UNCHANGED mysql /\ Panics
    /\ UNCHANGED <<file, tracing, redis, pings, ctxDone, server, requestVars, timedOut, pprofVars>>

\* serve spawns the goroutine of ListenAndServe and waits for its context.
Serve ==
    /\ main = "boot"
    /\ booted = Len(Modules)
    /\ main' = "waiting"
    /\ server' = "starting"
    /\ UNCHANGED <<bootVars, ctxDone, requestVars, timedOut, pprofVars>>

\* ListenAndServe listens, or fails at once or later, which is only logged.
Listen ==
    /\ Alive
    /\ \/ server = "starting"  /\ server' \in {"listening", "down"}
       \/ server = "listening" /\ server' = "down"
    /\ UNCHANGED <<main, bootVars, ctxDone, requestVars, timedOut, pprofVars>>

\* Shutdown closes the listener and the idle HTTP/1 connections.
BeginShutdown ==
    /\ main = "waiting"
    /\ ctxDone
    /\ main' = "draining"
    /\ server' = "closed"
    /\ UNCHANGED <<bootVars, ctxDone, requestVars, timedOut, pprofVars>>

\* It waits for the requests of the others, for ten seconds at most.
WaitsFor == {c \in Clients : conn[c] = "http1" /\ req[c] = "serving"}
NothingToWaitForAssumed == TRUE  \* mutant: Close instead of Shutdown
NothingToWaitFor == WaitsFor = {}

Drained ==
    /\ main = "draining"
    /\ NothingToWaitFor
    /\ main' = "stopping"
    /\ UNCHANGED <<bootVars, ctxDone, server, requestVars, timedOut, pprofVars>>

TimeOutNever == FALSE  \* mutant: Shutdown without a deadline
TimeOut ==
    /\ main = "draining"
    /\ WaitsFor # {}
    /\ timedOut' = TRUE
    /\ main' = "stopping"
    /\ UNCHANGED <<bootVars, ctxDone, server, requestVars, pprofVars>>

\* stopFn: the manager's Stop, when there is a manager.
HasStopFnNever == FALSE  \* mutant: initPprof returns no function
HasStopFn == HasManager(file)

StopPprof ==
    /\ main = "stopping"
    /\ HasStopFn
    /\ Pprof!Stop(Main)
    /\ UNCHANGED <<main, bootVars, ctxDone, server, requestVars, timedOut>>

Stopped ==
    /\ main = "stopping"
    /\ HasStopFn => calls[Main] = 1 /\ pc[Main] = "idle"
    /\ main' = "unwinding"
    /\ UNCHANGED <<bootVars, ctxDone, server, requestVars, timedOut, pprofVars>>

\* The deferred calls: the log is synced, then tracing is closed.
Unwind ==
    /\ main = "unwinding"
    /\ main' = IF booted = Len(Modules) THEN "returned" ELSE "panicked"
    /\ tracing' = IF tracing = "ready" THEN "closed" ELSE tracing
    /\ UNCHANGED <<booted, file, redis, pings, mysql, ctxDone, server, requestVars, timedOut, pprofVars>>

-----------------------------------------------------------------------------
Goto(c, r) ==
    /\ req' = [req EXCEPT ![c] = r]
    /\ UNCHANGED <<main, bootVars, ctxDone, server, conn, timedOut, pprofVars>>

Connect(c) ==
    /\ Alive /\ server = "listening"
    /\ req[c] = "none"
    /\ Goto(c, "open")

\* A connection that Shutdown has not closed: it gives a new HTTP/1 connection
\* time for its first request, and leaves a hijacked one alone for ever.
Request(c) ==
    /\ Alive
    /\ conn[c] = "http1" => main \in {"waiting", "draining"} \/ timedOut
    /\ req[c] = "open"
    /\ Goto(c, "serving")

\* Any step of the handler of /pprof/start or /pprof/stop.
HandlePprof(c) ==
    /\ Alive /\ HasManager(file)
    /\ req[c] = "serving"
    /\ Pprof!Start(c) \/ Pprof!Stop(c)
    /\ UNCHANGED <<main, bootVars, ctxDone, server, requestVars, timedOut>>

\* The request may also have been for one of the service's own methods.
Answer(c) ==
    /\ Alive
    /\ req[c] = "serving"
    /\ pc[c] = "idle"
    /\ Goto(c, "answered")

CancelContext ==
    /\ Alive /\ ~ctxDone
    /\ ctxDone' = TRUE
    /\ UNCHANGED <<main, bootVars, server, requestVars, timedOut, pprofVars>>

\* The goroutines pprof has spawned, and the clock.
Background ==
    /\ Alive
    /\ \/ \E s \in Pprof!Sessions : Pprof!Serve(s) \/ Pprof!ServeDown(s)
       \/ Pprof!Tick
    /\ UNCHANGED <<main, bootVars, ctxDone, server, requestVars, timedOut>>

Exited == ~Alive /\ UNCHANGED vars

BootStep == \/ LoadConfig \/ Boot \/ InitTracing \/ DialRedis \/ PingRedis \/ InitMySQL
            \/ SkipBackend("redis", file.redis) \/ SkipBackend("mysql", file.mysql.instances)
RunStep == \/ BootStep \/ Serve \/ BeginShutdown
           \/ Drained \/ TimeOut \/ Stopped \/ Unwind

Next ==
    \/ RunStep \/ Listen \/ StopPprof \/ CancelContext \/ Background \/ Exited
    \/ \E c \in Clients : Connect(c) \/ Request(c) \/ HandlePprof(c) \/ Answer(c)

\* Run goes on whenever it can, every Init returns, and a call of pprof in
\* progress is neither abandoned nor kept from the mutex for ever.  Requests
\* need not come and need not be answered.
Fairness ==
    /\ WF_vars(RunStep)
    /\ SF_vars(StopPprof)
    /\ \A c \in Clients : SF_vars(pc[c] # "idle" /\ HandlePprof(c))

Spec == Init /\ [][Next]_vars
FairSpec == Spec /\ Fairness

-----------------------------------------------------------------------------
\* Shutdown saw the end of all that was asked of the service.
Graceful ==
    /\ ~timedOut
    /\ \A c \in Clients : req[c] \in {"serving", "answered"} => conn[c] = "http1"

\* The request of c was a Stop that came between the compare-and-swap of a
\* Start and its lock: it has stopped the manager and found no session in it.
FoundNoSession(c) ==
    /\ reply[c].changed /\ taken[c] = NoSession
    /\ reply[c].err \/ reply[c].files # {}

(***************************************************************************)
(* A graceful shutdown leaves no call inside the manager, and leaves it    *)
(* stopped; and its profiler and its server are off, whatever the requests *)
(* before were and however they interleaved, unless one of them was a Stop *)
(* that overtook a Start.  That Start then goes on behind a manager that   *)
(* says "stopped", the Stop of Run is refused, and Run returns with both   *)
(* on (setup.go:279-287, 364-368; pprof.go:109-113, 172-179).              *)
(***************************************************************************)
ShutdownStopsPprof ==
    main = "returned" /\ Graceful =>
        /\ state = "stopped" /\ mu = NoCaller
        /\ (\A c \in Clients : ~FoundNoSession(c)) =>
            /\ session = NoSession /\ cpu = NoSession
            /\ \A s \in Pprof!Sessions : sock[s] \notin {"bound", "serving"}

(***************************************************************************)
(* While tracing is being closed, and when Run returns, no HTTP/1 request  *)
(* is still being served, unless the shutdown timed out: no answer is cut  *)
(* off and no span comes too late (setup.go:85-103, 279-284).              *)
(***************************************************************************)
NoRequestCut ==
    main \in {"unwinding", "returned"} /\ ~timedOut =>
        \A c \in Clients : conn[c] = "http1" => req[c] # "serving"

(***************************************************************************)
(* What is served is what the file says.  A backend that is configured is  *)
(* the one called default, or the only one, and has answered; none is      *)
(* there that is not configured.  And no setting was replaced on the way:  *)
(* the fall-backs and the clamp of the translation never apply to a file   *)
(* that was accepted (config.go:86-99, setup.go:317-359, 469-498).         *)
(***************************************************************************)
AsConfigured(backend, instances) ==
    IF DOMAIN instances = {} THEN backend = NoBackend
    ELSE /\ backend.up
         /\ backend.instance = "default" \/ DOMAIN instances = {backend.instance}

ServesWhatIsConfigured ==
    server # "none" =>
        /\ AsConfigured(redis, file.redis)
        /\ AsConfigured(mysql, file.mysql.instances)
        /\ tracing = "ready" => file.trace.enabled
        /\ SamplerRate(TraceConfig(file)) = file.trace.rate
        /\ HasManager(file) => file.pprof.mode = "dynamic"

\* Run ends when its context does, during the boot or later, with a server
\* that failed to listen, with requests that never end or with a pprof call
\* holding the manager (setup.go:273-287).
RunEnds == ctxDone ~> ~Alive
=============================================================================
