--------------------------- MODULE ServiceProofs ---------------------------
(***************************************************************************)
(* Proofs about Service, for any connections, files, retries and clock.    *)
(*                                                                         *)
(* Every step of the service is a step of DynamicPprof or leaves it alone, *)
(* so that what is proved of the manager holds inside the service.         *)
(***************************************************************************)
EXTENDS Service, TLAPS

Callers == Clients \cup {Main}

PP == INSTANCE DynamicPprofProofs WITH
    Callers <- Callers, MaxCalls <- 1, StopMayOvertakeStart <- TRUE

LEMMA InitPprof == Pprof!Init => PP!Init
BY DEF Pprof!Init, PP!Init, Callers, Pprof!Sessions, PP!Sessions, Pprof!Files, PP!Files,
       Pprof!Dumped, PP!Dumped, Pprof!ZeroTime, PP!ZeroTime, Pprof!Fresh, PP!Fresh

LEMMA StartIsPprof == \A c \in Callers : Pprof!Start(c) => PP!Start(c)
BY DEF Callers, Pprof!Start, PP!Start, Pprof!StartAdmitted, PP!StartAdmitted,
    Pprof!StartRefused, PP!StartRefused, Pprof!StartLock, PP!StartLock,
    Pprof!StartCreate, PP!StartCreate, Pprof!StartProfile, PP!StartProfile,
    Pprof!StartListen, PP!StartListen, Pprof!Published, PP!Published,
    Pprof!Called, PP!Called, Pprof!Goto, PP!Goto, Pprof!Fresh, PP!Fresh,
    Pprof!FailStart, PP!FailStart, Pprof!UndoCreate, PP!UndoCreate, Pprof!Me, PP!Me,
    Pprof!ProfilerFree, PP!ProfilerFree, Pprof!StopCPUProfile, PP!StopCPUProfile,
    Pprof!Holds, PP!Holds, Pprof!Sessions, PP!Sessions

LEMMA StopIsPprof == \A c \in Callers : Pprof!Stop(c) => PP!Stop(c)
BY DEF Callers, Pprof!Stop, PP!Stop, Pprof!StopAdmitted, PP!StopAdmitted,
    Pprof!StopRefused, PP!StopRefused, Pprof!StopTake, PP!StopTake,
    Pprof!StopShutdown, PP!StopShutdown, Pprof!StopCpu, PP!StopCpu,
    Pprof!StopDump, PP!StopDump, Pprof!Starting, PP!Starting, Pprof!StartPcs, PP!StartPcs,
    Pprof!Called, PP!Called, Pprof!Goto, PP!Goto, Pprof!Fresh, PP!Fresh,
    Pprof!ShutDown, PP!ShutDown, Pprof!StopCPUProfile, PP!StopCPUProfile,
    Pprof!Renamed, PP!Renamed, Pprof!CpuDumpFailed, PP!CpuDumpFailed,
    Pprof!DiskAfter, PP!DiskAfter, Pprof!StartedAt, PP!StartedAt, Pprof!Memory, PP!Memory,
    Pprof!Files, PP!Files, Pprof!Dumped, PP!Dumped, Pprof!ZeroTime, PP!ZeroTime

LEMMA BackgroundIsPprof == Background => PP!Tick \/ \E s \in PP!Sessions : PP!Serve(s) \/ PP!ServeDown(s)
BY DEF Background, Callers, Pprof!Tick, PP!Tick, Pprof!Serve, PP!Serve, Pprof!ServeDown, PP!ServeDown,
       Pprof!Sessions, PP!Sessions, Pprof!callerVars, PP!callerVars

\* Steps of the service that leave pprof alone.
Elsewhere ==
    \/ RunStep \/ Listen \/ CancelContext \/ Exited
    \/ \E c \in Clients : Connect(c) \/ Request(c) \/ Answer(c)

LEMMA ElsewhereUnchanged == Elsewhere => UNCHANGED pprofVars
BY DEF Elsewhere, RunStep, BootStep, LoadConfig, Boot, InitTracing, DialRedis, PingRedis, InitMySQL,
       SkipBackend, Serve, BeginShutdown, Drained, TimeOut, Stopped, Unwind, Listen, CancelContext,
       Exited, vars, Connect, Request, Answer, Goto

LEMMA NextCases ==
    Next => \/ Elsewhere \/ StopPprof \/ Background
            \/ \E c \in Clients : HandlePprof(c)
BY DEF Next, Elsewhere

LEMMA PprofStep == [Next]_vars => [PP!Next]_PP!vars
<1> SUFFICES ASSUME [Next]_vars PROVE [PP!Next]_PP!vars
  OBVIOUS
<1>1. CASE UNCHANGED pprofVars
  BY <1>1 DEF pprofVars, PP!vars, PP!callerVars
<1>2. CASE StopPprof
  BY <1>2, StopIsPprof DEF StopPprof, PP!Next, Callers
<1>3. CASE Background
  BY <1>3, BackgroundIsPprof DEF PP!Next
<1>4. ASSUME NEW c \in Clients, HandlePprof(c) PROVE PP!Next
  BY <1>4, StartIsPprof, StopIsPprof DEF HandlePprof, PP!Next, Callers
<1> QED
  BY <1>1, <1>2, <1>3, <1>4, NextCases, ElsewhereUnchanged DEF vars

(***************************************************************************)
(* The manager inside the service, called by its requests and by the       *)
(* shutdown of Run, is the DynamicPprof that is specified alone            *)
(* (setup.go:262-271, 279-287, 364-368).                                   *)
(***************************************************************************)
THEOREM PprofInService == Spec => PP!Spec
<1>1. Init => PP!Init
  BY InitPprof DEF Init
<1> QED
  BY <1>1, PprofStep, PTL DEF Spec, PP!Spec

(***************************************************************************)
(* So the profiler and the listening socket never lose their owner in the  *)
(* service, whichever requests start and stop them while Run shuts down    *)
(* (pprof.go:129-153, 187-221).                                            *)
(***************************************************************************)
THEOREM PprofOwnedInService == Spec => [](Pprof!CaptureOwned /\ Pprof!ListenerOwned)
<1>1. PP!Spec => []PP!CaptureOwned
  BY PP!CaptureNeverOrphaned, PprofAssumption DEF Callers, PP!Sessions
<1>2. PP!Spec => []PP!ListenerOwned
  BY PP!ListenerNeverOrphaned, PprofAssumption DEF Callers, PP!Sessions
<1>3. PP!CaptureOwned /\ PP!ListenerOwned => Pprof!CaptureOwned /\ Pprof!ListenerOwned
  BY DEF Callers, Pprof!CaptureOwned, PP!CaptureOwned, Pprof!ListenerOwned, PP!ListenerOwned,
      Pprof!InHand, PP!InHand, Pprof!Me, PP!Me, Pprof!Sessions, PP!Sessions
<1> QED
  BY <1>1, <1>2, <1>3, PprofInService, PTL

\* What is proved of the manager, in the service.
PprofInv == PP!IInv /\ PP!Dumping

LEMMA InitPprofInv == Init => PprofInv
BY InitPprof, PP!InitIInv, PP!InitDumping, PprofAssumption DEF Init, PprofInv, Callers, PP!Sessions

LEMMA PprofInvStep == PprofInv /\ [Next]_vars => PprofInv'
BY PprofStep, PP!IInvStep, PP!DumpingStep, PprofAssumption DEF PprofInv, Callers, PP!Sessions

-----------------------------------------------------------------------------
Last == 10

OwnTypes ==
    /\ main \in {"boot", "waiting", "draining", "stopping", "unwinding", "returned", "panicked"}
    /\ booted \in 0 .. Last
    /\ file \in ConfigFiles
    /\ tracing \in {"off", "ready", "closed"}
    /\ redis \in Backend /\ mysql \in Backend
    /\ pings \in 0 .. RedisRetries
    /\ ctxDone \in BOOLEAN /\ timedOut \in BOOLEAN
    /\ server \in {"none", "starting", "listening", "down", "closed"}
    /\ conn \in [Clients -> {"http1", "h2c"}]
    /\ req \in [Clients -> {"none", "open", "serving", "answered"}]

\* A server is there once everything is initialised, and requests once there
\* is a server.
Order ==
    /\ main \in {"boot", "waiting", "draining"} => ~timedOut
    /\ main = "boot" => server = "none"
    /\ main \in {"waiting", "draining", "stopping", "returned"} \/ server # "none" => booted = Last
    /\ server = "none" => \A c \in Clients : req[c] = "none"

\* After Shutdown no HTTP/1 request is being served.
Cleared ==
    main \in {"stopping", "unwinding", "returned"} /\ ~timedOut =>
        \A c \in Clients : conn[c] = "http1" => req[c] # "serving"

\* What the modules that are initialised have done with the file.
Configured ==
    /\ booted >= 1 => Accepted(file)
    /\ tracing = "ready" => file.trace.enabled
    /\ booted < 4 => redis = NoBackend
    /\ booted = 4 /\ redis # NoBackend =>
        Chosen(file.redis) /\ redis.instance = SelectInstance(file.redis)
    /\ booted > 4 => AsConfigured(redis, file.redis)
    /\ booted < 5 \/ (booted = 5 /\ main = "boot") => mysql = NoBackend
    /\ booted > 5 => AsConfigured(mysql, file.mysql.instances)

BootInv == OwnTypes /\ Order /\ Cleared /\ Configured

LEMMA Lengths == Len(Modules) = Last
BY DEF Modules, Last

LEMMA Turn ==
    ASSUME OwnTypes
    PROVE  /\ Booting("config") => booted = 0
           /\ Booting("tracing") => booted = 3
           /\ Booting("redis") => booted = 4
           /\ Booting("mysql") => booted = 5
           /\ \A module \in Plain : Booting(module) => booted \notin {0, 4, 5}
<1>1. booted \in {0, 1, 2, 3, 4, 5, 6, 7, 8, 9, 10}
  BY DEF OwnTypes, Last
<1> QED
  BY <1>1 DEF Booting, Modules, Plain

LEMMA OneChosen ==
    ASSUME NEW instances, Chosen(instances)
    PROVE  /\ SelectInstance(instances) \in DOMAIN instances
           /\ SelectInstance(instances) = "default" \/ DOMAIN instances = {SelectInstance(instances)}
<1>1. CASE "default" \in DOMAIN instances
  BY <1>1 DEF Chosen, SelectInstance
<1>2. CASE "default" \notin DOMAIN instances
  <2>1. \A a, b \in DOMAIN instances : a = b
    BY <1>2 DEF Chosen, Ambiguous
  <2>2. (CHOOSE name \in DOMAIN instances : TRUE) \in DOMAIN instances
    BY DEF Chosen
  <2> QED
    BY <1>2, <2>1, <2>2 DEF SelectInstance, Chosen
<1> QED
  BY <1>1, <1>2

LEMMA InitBootInv == Init => BootInv
<1> SUFFICES ASSUME Init PROVE BootInv
  OBVIOUS
<1>1. NoBackend \in Backend
  BY DEF NoBackend, Backend
<1>2. OwnTypes
  <2>1. 0 \in 0 .. RedisRetries
    BY RetriesAssumption
  <2>2. ctxDone \in BOOLEAN /\ timedOut \in BOOLEAN
    BY DEF Init
  <2>3. req \in [Clients -> {"none", "open", "serving", "answered"}]
    BY DEF Init
  <2>4. booted \in 0 .. 10 /\ redis \in Backend /\ mysql \in Backend /\ pings \in 0 .. RedisRetries
    BY <1>1, <2>1 DEF Init
  <2> QED
    BY <2>2, <2>3, <2>4 DEF Init, OwnTypes, Last
<1>3. Order /\ Cleared
  BY DEF Init, Order, Cleared
<1>4. Configured
  <2>1. booted = 0 /\ redis = NoBackend /\ mysql = NoBackend /\ tracing = "off"
    BY DEF Init
  <2> QED
    BY <2>1 DEF Configured
<1> QED
  BY <1>2, <1>3, <1>4 DEF BootInv

LEMMA BootSteps == BootInv /\ BootStep => BootInv'
<1> SUFFICES ASSUME BootInv, BootStep PROVE BootInv'
  OBVIOUS
<1> USE DEF BootInv
<1>a. Len(Modules) = 10 /\ Last = 10
  BY Lengths DEF Last
<1>b. main = "boot" /\ booted < 10
  BY <1>a
  DEF BootStep, LoadConfig, Boot, InitTracing, DialRedis, PingRedis, InitMySQL, SkipBackend, Booting
<1>c. (Booted \/ Panics \/ UNCHANGED <<main, booted>>) /\ UNCHANGED <<file, ctxDone, server, requestVars, timedOut>>
  BY DEF BootStep, LoadConfig, Boot, InitTracing, DialRedis, PingRedis, InitMySQL, SkipBackend, Refused
<1>d. server = "none" /\ ~timedOut /\ \A c \in Clients : req[c] = "none"
  BY <1>b DEF Order
<1>1. Order' /\ Cleared'
  BY <1>a, <1>b, <1>c, <1>d DEF Order, Cleared, Booted, Panics, requestVars, OwnTypes
<1>2. main' \in {"boot", "unwinding"} /\ booted' \in 0 .. Last
  BY <1>a, <1>b, <1>c DEF Booted, Panics, OwnTypes
<1>f. /\ file \in ConfigFiles /\ file.trace.rate \in Int
      /\ DOMAIN file.redis \subseteq Instances /\ DOMAIN file.mysql.instances \subseteq Instances
  BY FilesAssumption DEF OwnTypes, Instances
<1>3. CASE LoadConfig
  <2>1. booted = 0
    BY <1>3, Turn DEF LoadConfig
  <2>2. Configured'
    BY <1>3, <2>1 DEF LoadConfig, Configured, Booted, Panics
  <2> QED
    BY <1>1, <1>2, <1>3, <2>2 DEF LoadConfig, OwnTypes, requestVars
<1>4. CASE Boot
  <2>1. booted \notin {0, 4, 5} /\ booted \in 0 .. 10
    BY <1>4, <1>a, Turn DEF Boot, OwnTypes
  <2>2. Configured'
    BY <1>4, <1>b, <2>1 DEF Boot, Configured, Booted, Panics, OwnTypes
  <2> QED
    BY <1>1, <1>2, <1>4, <2>2 DEF Boot, OwnTypes, requestVars
<1>5. CASE InitTracing
  <2>1. booted = 3
    BY <1>5, Turn DEF InitTracing
  <2>2. tracing' \in {"off", "ready"} /\ (tracing' = "ready" => file.trace.enabled)
    BY <1>5 DEF InitTracing, Traceable, TraceConfig
  <2>3. Configured'
    BY <1>5, <2>1, <2>2 DEF InitTracing, Configured, Booted
  <2> QED
    BY <1>1, <1>2, <1>5, <2>2, <2>3 DEF InitTracing, OwnTypes, requestVars
<1>6. CASE DialRedis
  <2>1. booted = 4
    BY <1>6, Turn DEF DialRedis
  <2>2. SelectInstance(file.redis) \in Instances
    BY <1>6, <1>f, OneChosen DEF DialRedis
  <2>3. redis' = [instance |-> SelectInstance(file.redis), up |-> FALSE]
    BY <1>6 DEF DialRedis
  <2>4. redis' \in Backend /\ redis'.instance = SelectInstance(file.redis)
    BY <2>2, <2>3 DEF Backend
  <2>5. Configured'
    BY <1>6, <2>1, <2>4 DEF DialRedis, Configured
  <2> QED
    BY <1>1, <1>2, <1>6, <2>4, <2>5 DEF DialRedis, OwnTypes, requestVars
<1>7. CASE PingRedis
  <2>1. booted = 4 /\ redis # NoBackend
    BY <1>7, Turn DEF PingRedis
  <2>2. Chosen(file.redis) /\ redis.instance = SelectInstance(file.redis)
    BY <2>1 DEF Configured
  <2>3. CASE redis' = [redis EXCEPT !.up = TRUE] /\ Booted /\ UNCHANGED pings
    <3>1. redis' \in Backend /\ redis'.up /\ redis'.instance = redis.instance
      BY <2>3 DEF OwnTypes, Backend
    <3>2. AsConfigured(redis', file.redis)
      BY <3>1, <2>2, <1>f, OneChosen DEF AsConfigured, Chosen
    <3>3. Configured'
      BY <1>7, <2>1, <2>3, <1>b, <3>2 DEF PingRedis, Configured, Booted
    <3> QED
      BY <1>1, <1>2, <1>7, <2>3, <3>1, <3>3 DEF PingRedis, OwnTypes, requestVars
  <2>4. CASE UNCHANGED redis /\ (UNCHANGED <<main, booted>> \/ Panics)
    <3>1. Configured'
      BY <1>7, <2>1, <2>4, <1>b DEF PingRedis, Configured, Panics
    <3>2. pings' \in 0 .. RedisRetries
      BY <1>7, RetriesAssumption DEF PingRedis, OwnTypes
    <3> QED
      BY <1>1, <1>2, <1>7, <2>4, <3>1, <3>2 DEF PingRedis, OwnTypes, requestVars
  <2> QED
    BY <1>7, <2>3, <2>4 DEF PingRedis
<1>8. CASE InitMySQL
  <2>1. booted = 5 /\ Chosen(file.mysql.instances)
    BY <1>8, Turn DEF InitMySQL
  <2>2. CASE PublishMySQL
    <3>1. SelectInstance(file.mysql.instances) \in Instances
      BY <2>1, <1>f, OneChosen
    <3>2. mysql' \in Backend /\ mysql'.up /\ mysql'.instance = SelectInstance(file.mysql.instances)
      BY <2>2, <3>1 DEF PublishMySQL, Backend
    <3>3. AsConfigured(mysql', file.mysql.instances)
      BY <2>1, <3>2, <1>f, OneChosen DEF AsConfigured, Chosen
    <3>4. Configured'
      BY <1>8, <2>1, <3>3, <1>b DEF InitMySQL, Configured, Booted, Panics
    <3> QED
      BY <1>1, <1>2, <1>8, <3>2, <3>4 DEF InitMySQL, OwnTypes, requestVars
  <2>3. CASE UNCHANGED mysql /\ Panics
    <3>1. Configured'
      BY <1>8, <2>1, <2>3, <1>b DEF InitMySQL, Configured, Panics
    <3> QED
      BY <1>1, <1>2, <1>8, <2>3, <3>1 DEF InitMySQL, OwnTypes, requestVars
  <2> QED
    BY <1>8, <2>2, <2>3 DEF InitMySQL
<1>9. CASE SkipBackend("redis", file.redis)
  <2>1. booted = 4
    BY <1>9, Turn DEF SkipBackend
  <2>2. DOMAIN file.redis = {} => redis = NoBackend
    BY <2>1 DEF Configured, Chosen
  <2>3. Configured'
    BY <1>9, <1>b, <2>1, <2>2 DEF SkipBackend, Configured, Booted, Panics, Refused, AsConfigured
  <2> QED
    BY <1>1, <1>2, <1>9, <2>3 DEF SkipBackend, OwnTypes, requestVars
<1>10. CASE SkipBackend("mysql", file.mysql.instances)
  <2>1. booted = 5 /\ mysql = NoBackend
    BY <1>10, <1>b, Turn DEF SkipBackend, Configured
  <2>2. Configured'
    BY <1>10, <1>b, <2>1 DEF SkipBackend, Configured, Booted, Panics, Refused, AsConfigured
  <2> QED
    BY <1>1, <1>2, <1>10, <2>2 DEF SkipBackend, OwnTypes, requestVars
<1> QED
  BY <1>3, <1>4, <1>5, <1>6, <1>7, <1>8, <1>9, <1>10 DEF BootStep

LEMMA BootInvStep == BootInv /\ [Next]_vars => BootInv'
<1> SUFFICES ASSUME BootInv, [Next]_vars PROVE BootInv'
  OBVIOUS
<1> USE DEF BootInv, requestVars, bootVars
<1>a. Len(Modules) = 10 /\ Last = 10
  BY Lengths DEF Last
<1>1. CASE BootStep
  BY <1>1, BootSteps
<1>2. CASE Serve
  BY <1>2, <1>a DEF Serve, OwnTypes, Order, Cleared, Configured
<1>3. CASE BeginShutdown
  BY <1>3, <1>a DEF BeginShutdown, OwnTypes, Order, Cleared, Configured
<1>4. CASE Drained
  BY <1>4, <1>a DEF Drained, NothingToWaitFor, WaitsFor, OwnTypes, Order, Cleared, Configured
<1>5. CASE TimeOut
  BY <1>5, <1>a DEF TimeOut, OwnTypes, Order, Cleared, Configured
<1>6. CASE Stopped
  BY <1>6, <1>a DEF Stopped, OwnTypes, Order, Cleared, Configured
<1>7. CASE Unwind
  BY <1>7, <1>a DEF Unwind, OwnTypes, Order, Cleared, Configured
<1>8. CASE Listen
  BY <1>8, <1>a DEF Listen, OwnTypes, Order, Cleared, Configured
<1>9. CASE StopPprof \/ Background \/ Exited \/ UNCHANGED vars
  BY <1>9 DEF StopPprof, Background, Exited, vars, OwnTypes, Order, Cleared, Configured
<1>14. CASE CancelContext
  <2>1. ctxDone' \in BOOLEAN
    BY <1>14 DEF CancelContext
  <2> QED
    BY <1>14, <2>1 DEF CancelContext, OwnTypes, Order, Cleared, Configured
<1>10. ASSUME NEW c \in Clients, HandlePprof(c) PROVE BootInv'
  BY <1>10 DEF HandlePprof, OwnTypes, Order, Cleared, Configured
<1>11. ASSUME NEW c \in Clients, Connect(c) PROVE BootInv'
  BY <1>11 DEF Connect, Goto, OwnTypes, Order, Cleared, Configured
<1>12. ASSUME NEW c \in Clients, Request(c) PROVE BootInv'
  BY <1>12 DEF Request, Goto, OwnTypes, Order, Cleared, Configured
<1>13. ASSUME NEW c \in Clients, Answer(c) PROVE BootInv'
  BY <1>13 DEF Answer, Goto, OwnTypes, Order, Cleared, Configured
<1> QED
  BY <1>1, <1>2, <1>3, <1>4, <1>5, <1>6, <1>7, <1>8, <1>9, <1>10, <1>11, <1>12, <1>13, <1>14
  DEF Next, RunStep

LEMMA BootInvariance == Spec => []BootInv
BY InitBootInv, BootInvStep, PTL DEF Spec

-----------------------------------------------------------------------------
\* Who is inside the manager: a client while its request is being served, and
\* Run while it stops, once.
Calling ==
    /\ \A c \in Clients : pc[c] # "idle" => req[c] = "serving"
    /\ pc[Main] \in {"idle"} \cup PP!StopPcs
    /\ pc[Main] # "idle" => main = "stopping"
    /\ main \in {"boot", "waiting", "draining"} => calls[Main] = 0
    /\ main \in {"unwinding", "returned"} /\ booted = Last /\ HasManager(file) => calls[Main] = 1
    /\ calls[Main] = 0 => ~reply[Main].changed
    /\ ~HasManager(file) => /\ state = "stopped" /\ calls[Main] = 0
                            /\ \A c \in Callers : pc[c] = "idle"

\* When no request is left that could call the manager, the Stop of Run
\* leaves it stopped.
Over == main \in {"stopping", "unwinding", "returned"} /\ booted = Last /\ Graceful
Halting ==
    Over /\ calls[Main] = 1 =>
        IF pc[Main] = "idle" THEN state = "stopped" /\ (reply[Main].changed => session = NoSession)
        ELSE state = "dumping"

StopInv == BootInv /\ PprofInv /\ Calling /\ Halting

\* Then every caller but Run is idle.
LEMMA OnlyRunCalls ==
    ASSUME BootInv, Calling, Over
    PROVE  \A c \in Clients : req[c] # "serving" /\ pc[c] = "idle"
<1>1. \A c \in Clients : req[c] # "serving"
  BY DEF BootInv, Cleared, Over, Graceful
<1> QED
  BY <1>1 DEF Calling

LEMMA PprofTypes ==
    ASSUME PprofInv
    PROVE  /\ calls \in [Callers -> 0 .. 1]
           /\ pc \in [Callers -> {"idle"} \cup PP!StartPcs \cup PP!StopPcs]
           /\ reply \in [Callers -> PP!Replies]
           /\ Main \in Callers /\ Clients \subseteq Callers
BY DEF PprofInv, PP!IInv, PP!TypeOK, Callers

LEMMA InitStopInv == Init => StopInv
<1> SUFFICES ASSUME Init PROVE StopInv
  OBVIOUS
<1>1. PP!Init
  BY InitPprof DEF Init
<1>2. Calling
  BY <1>1 DEF Init, Calling, PP!Init, PP!Fresh, Callers
<1>3. Halting
  BY DEF Init, Halting, Over
<1> QED
  BY <1>2, <1>3, InitBootInv, InitPprofInv DEF StopInv

LEMMA ElsewhereStep == StopInv /\ Elsewhere => Calling' /\ Halting'
<1> SUFFICES ASSUME StopInv, Elsewhere PROVE Calling' /\ Halting'
  OBVIOUS
<1> USE DEF StopInv, requestVars, bootVars
<1>a. Len(Modules) = 10 /\ Last = 10
  BY Lengths DEF Last
<1>b. UNCHANGED pprofVars
  BY ElsewhereUnchanged
<1>c. UNCHANGED <<state, session, pc, calls, reply>>
  BY <1>b DEF pprofVars
<1>1. CASE BootStep
  <2>1. main = "boot" /\ booted < 10
    BY <1>1, <1>a
    DEF BootStep, LoadConfig, Boot, InitTracing, DialRedis, PingRedis, InitMySQL, SkipBackend, Booting
  <2>2. (Booted \/ Panics \/ UNCHANGED <<main, booted>>) /\ UNCHANGED <<file, requestVars>>
    BY <1>1
    DEF BootStep, LoadConfig, Boot, InitTracing, DialRedis, PingRedis, InitMySQL, SkipBackend, Refused
  <2> QED
    BY <1>a, <1>c, <2>1, <2>2 DEF Booted, Panics, Calling, Halting, Over
<1>2. CASE Serve
  BY <1>2, <1>a, <1>c DEF Serve, Calling, Halting, Over
<1>3. CASE BeginShutdown
  BY <1>3, <1>a, <1>c DEF BeginShutdown, Calling, Halting, Over
<1>4. CASE Drained \/ TimeOut
  BY <1>4, <1>a, <1>c DEF Drained, TimeOut, Calling, Halting, Over
<1>5. CASE Stopped
  <2>1. /\ main = "stopping" /\ main' = "unwinding" /\ UNCHANGED <<booted, file, timedOut, conn, req>>
        /\ HasManager(file) => calls[Main] = 1 /\ pc[Main] = "idle"
    BY <1>5 DEF Stopped, HasStopFn
  <2>2. Calling'
    BY <1>c, <2>1, PprofTypes DEF Calling
  <2>3. Over' => Over
    BY <2>1 DEF Over, Graceful
  <2> QED
    BY <1>c, <2>2, <2>3 DEF Halting
<1>6. CASE Unwind
  BY <1>6, <1>a, <1>c DEF Unwind, Calling, Halting, Over, Graceful
<1>7. CASE Listen \/ CancelContext \/ Exited
  BY <1>7, <1>a, <1>c DEF Listen, CancelContext, Exited, vars, Calling, Halting, Over, Graceful
<1>8. ASSUME NEW c \in Clients, Connect(c) \/ Request(c) \/ Answer(c) PROVE Calling' /\ Halting'
  <2>0. req \in [Clients -> {"none", "open", "serving", "answered"}]
    BY DEF BootInv, OwnTypes
  <2>1. UNCHANGED <<main, booted, file, timedOut, conn>>
    BY <1>8 DEF Connect, Request, Answer, Goto
  <2>2. Calling'
    BY <1>8, <1>c, <2>0, <2>1 DEF Connect, Request, Answer, Goto, Calling
  <2>3. Over' => Over
    <3>1. \A d \in Clients : req[d] \in {"serving", "answered"} => req'[d] \in {"serving", "answered"}
      BY <1>8, <2>0 DEF Connect, Request, Answer, Goto
    <3> QED
      BY <2>1, <3>1 DEF Over, Graceful
  <2>4. Halting'
    BY <1>c, <2>3 DEF Halting
  <2> QED
    BY <2>2, <2>4
<1> QED
  BY <1>1, <1>2, <1>3, <1>4, <1>5, <1>6, <1>7, <1>8 DEF Elsewhere, RunStep

LEMMA ClientStep ==
    ASSUME StopInv, NEW c \in Clients, HandlePprof(c)
    PROVE  Calling' /\ Halting'
<1> USE DEF StopInv
<1>1. UNCHANGED <<main, booted, file, timedOut, conn, req>> /\ req[c] = "serving" /\ HasManager(file)
  BY DEF HandlePprof, bootVars, requestVars
<1>2. ~Over
  BY <1>1, OnlyRunCalls
<1>3. c # Main /\ c \in Callers /\ Main \in Callers
  BY MainAssumption DEF Callers
<1>4. PP!Start(c) \/ PP!Stop(c)
  BY <1>3, StartIsPprof, StopIsPprof DEF HandlePprof
<1>5. \A d \in Callers : d # c => pc'[d] = pc[d] /\ calls'[d] = calls[d] /\ reply'[d] = reply[d]
  <2> USE PprofTypes DEF PP!Goto, PP!Called
  <2>1. CASE PP!Start(c)
    BY <2>1 DEF PP!Start, PP!StartAdmitted, PP!StartRefused, PP!StartLock, PP!StartCreate,
                PP!StartProfile, PP!StartListen, PP!Published, PP!FailStart
  <2>2. CASE PP!Stop(c)
    BY <2>2 DEF PP!Stop, PP!StopAdmitted, PP!StopRefused, PP!StopTake, PP!StopShutdown, PP!StopCpu,
                PP!StopDump, PP!Renamed, PP!CpuDumpFailed
  <2> QED
    BY <1>4, <2>1, <2>2
<1>6. Halting'
  BY <1>1, <1>2 DEF Halting, Over, Graceful
<1>7. Calling'
  BY <1>1, <1>3, <1>5, MainAssumption DEF Calling, Callers
<1> QED
  BY <1>6, <1>7

LEMMA MainStep == StopInv /\ StopPprof => Calling' /\ Halting'
<1> SUFFICES ASSUME StopInv, StopPprof PROVE Calling' /\ Halting'
  OBVIOUS
<1> USE DEF StopInv
<1>1. UNCHANGED <<main, booted, file, timedOut, conn, req>> /\ main = "stopping" /\ HasManager(file)
  BY DEF StopPprof, bootVars, requestVars, HasStopFn
<1>2. /\ calls \in [Callers -> 0 .. 1] /\ Main \in Callers /\ Clients \subseteq Callers
      /\ pc \in [Callers -> {"idle"} \cup PP!StartPcs \cup PP!StopPcs]
      /\ reply \in [Callers -> PP!Replies]
  BY PprofTypes
<1>3. PP!Stop(Main)
  BY <1>2, StopIsPprof DEF StopPprof
<1>4. Over => /\ \A d \in Callers : d # Main => pc[d] = "idle"
              /\ state = "dumping" => pc[Main] \in PP!StopPcs
  <2>1. Over => \A d \in Callers : d # Main => pc[d] = "idle"
    BY OnlyRunCalls DEF Callers
  <2> QED
    BY <2>1 DEF PprofInv, PP!Dumping, PP!StopPcs
<1>5. Over' = Over
  BY <1>1 DEF Over, Graceful
<1>6. pc[Main] # "idle" => calls[Main] = 1
  BY <1>2 DEF PprofInv, PP!IInv, PP!Identified
<1> DEFINE Did == /\ \A d \in Callers : d # Main => pc'[d] = pc[d]
                  /\ pc'[Main] \in {"idle"} \cup PP!StopPcs
                  /\ calls'[Main] = 1
<1>7. CASE PP!StopAdmitted(Main)
  <2>1. Did /\ pc'[Main] = "stop_lock" /\ state' = "dumping"
    BY <1>2, <1>7 DEF PP!StopAdmitted, PP!Called, PP!Goto, PP!StopPcs
  <2> QED
    BY <1>1, <1>2, <2>1, MainAssumption DEF Calling, Halting, Callers
<1>8. CASE PP!StopRefused(Main)
  <2>1. Did /\ pc'[Main] = "idle" /\ ~reply'[Main].changed /\ state' = state /\ state # "running"
    BY <1>2, <1>8 DEF PP!StopRefused, PP!Called, PP!Fresh
  <2>2. pc[Main] = "idle" /\ state \in {"stopped", "running", "dumping"}
    BY <1>8 DEF PP!StopRefused, PP!Called, PprofInv, PP!IInv, PP!TypeOK
  <2>3. Over => state = "stopped"
    BY <1>4, <2>1, <2>2 DEF PP!StopPcs
  <2> QED
    BY <1>1, <1>2, <1>5, <2>1, <2>3, MainAssumption DEF Calling, Halting, Callers
<1>9. CASE PP!StopTake(Main) \/ PP!StopShutdown(Main) \/ PP!StopCpu(Main)
  <2>1. Did /\ pc'[Main] # "idle" /\ state' = state /\ pc[Main] # "idle"
    BY <1>2, <1>6, <1>9 DEF PP!StopTake, PP!StopShutdown, PP!StopCpu, PP!Goto, PP!StopPcs
  <2> QED
    BY <1>1, <1>2, <1>5, <1>6, <2>1, MainAssumption DEF Calling, Halting, Callers
<1>10. CASE PP!StopDump(Main)
  <2>1. Did /\ pc'[Main] = "idle" /\ state' = "stopped" /\ session' = session /\ pc[Main] = "stop_dump"
    BY <1>2, <1>6, <1>10 DEF PP!StopDump, PP!Goto
  <2>2. session = NoSession
    <3>1. mu = Main /\ mu # NoCaller
      BY <1>2, <2>1, PprofAssumption
      DEF PprofInv, PP!IInv, PP!Mutex, PP!Critical, PP!StopPcs, PP!StartPcs, Callers
    <3> QED
      BY <2>1, <3>1 DEF PprofInv, PP!IInv, PP!ProfilerOwner
  <2> QED
    BY <1>1, <1>2, <2>1, <2>2, MainAssumption DEF Calling, Halting, Callers
<1> QED
  BY <1>3, <1>7, <1>8, <1>9, <1>10 DEF PP!Stop

LEMMA StopInvStep == StopInv /\ [Next]_vars => StopInv'
<1> SUFFICES ASSUME StopInv, [Next]_vars PROVE StopInv'
  OBVIOUS
<1>1. BootInv' /\ PprofInv'
  BY BootInvStep, PprofInvStep DEF StopInv
<1>2. CASE Background
  <2>1. UNCHANGED <<main, booted, file, timedOut, conn, req>>
    BY <1>2 DEF Background, bootVars, requestVars
  <2>2. UNCHANGED <<state, session, pc, calls, reply>>
    BY <1>2, BackgroundIsPprof DEF PP!Tick, PP!Serve, PP!ServeDown, PP!callerVars
  <2>3. Calling' /\ Halting'
    BY <2>1, <2>2 DEF StopInv, Calling, Halting, Over, Graceful
  <2> QED
    BY <1>1, <2>3 DEF StopInv
<1>3. CASE UNCHANGED vars
  BY <1>1, <1>3
  DEF StopInv, vars, bootVars, requestVars, pprofVars, Calling, Halting, Over, Graceful
<1> QED
  BY <1>1, <1>2, <1>3, NextCases, ElsewhereStep, ClientStep, MainStep DEF StopInv

LEMMA StopInvariance == Spec => []StopInv
BY InitStopInv, StopInvStep, PTL DEF Spec

-----------------------------------------------------------------------------
\* A Stop that comes, or has come, away from the manager without a session.
Hollow(c) ==
    \/ pc[c] = "stop_dump" /\ taken[c] = NoSession
    \/ pc[c] = "idle" /\ FoundNoSession(c)

Unused == \A c \in Callers : calls[c] = 0 => ~reply[c].changed

\* As long as there is none, Starts come one at a time, and neither a Start
\* nor a session is behind a manager that says "stopped".
InOrder ==
    /\ \A c, d \in Callers : pc[c] \in PP!StartPcs /\ pc[d] \in PP!StartPcs => c = d
    /\ \A c \in Callers : pc[c] \in PP!StartPcs => state # "stopped" /\ session = NoSession
    /\ session # NoSession => state # "stopped"
    /\ \A c \in Callers : pc[c] \in {"stop_shutdown", "stop_cpu", "stop_dump"} =>
          state # "stopped" /\ \A d \in Callers : pc[d] \notin PP!StartPcs

OrderInv == PprofInv /\ Unused /\ (InOrder \/ \E c \in Callers : Hollow(c))

\* The steps of one caller leave the others where they are.
LEMMA OneAtATime ==
    ASSUME PprofInv, NEW c \in Callers, PP!Start(c) \/ PP!Stop(c)
    PROVE  \A d \in Callers : d # c =>
              pc'[d] = pc[d] /\ calls'[d] = calls[d] /\ reply'[d] = reply[d] /\ taken'[d] = taken[d]
<1> USE PprofTypes DEF PP!Goto, PP!Called
<1>1. CASE PP!Start(c)
  BY <1>1 DEF PP!Start, PP!StartAdmitted, PP!StartRefused, PP!StartLock, PP!StartCreate,
              PP!StartProfile, PP!StartListen, PP!Published, PP!FailStart
<1>2. CASE PP!Stop(c)
  <2>1. taken \in [Callers -> PP!Sessions \cup {NoSession}]
    BY DEF PprofInv, PP!IInv, PP!TypeOK
  <2> QED
    BY <1>2, <2>1 DEF PP!Stop, PP!StopAdmitted, PP!StopRefused, PP!StopTake, PP!StopShutdown, PP!StopCpu,
                PP!StopDump, PP!Renamed, PP!CpuDumpFailed
<1> QED
  BY <1>1, <1>2

\* Nothing but a Stop that finds a session, or a Start that opens one, says
\* that it has changed anything, and every call is the caller's only one.
LEMMA UnusedStep == PprofInv /\ Unused /\ [Next]_vars => Unused'
<1> SUFFICES ASSUME PprofInv, Unused, [Next]_vars PROVE Unused'
  OBVIOUS
<1>1. ASSUME NEW c \in Callers, PP!Start(c) \/ PP!Stop(c) PROVE Unused'
  <2>1. calls'[c] # 0
    <3>1. calls[c] # 0 \/ pc[c] = "idle"
      BY DEF PprofInv, PP!IInv, PP!Identified
    <3>2. calls[c] \in 0 .. 1
      BY PprofTypes
    <3> QED
      BY <1>1, <3>1, <3>2, PprofTypes
      DEF PP!Start, PP!StartAdmitted, PP!StartRefused, PP!StartLock, PP!StartCreate,
          PP!StartProfile, PP!StartListen, PP!Stop, PP!StopAdmitted, PP!StopRefused, PP!StopTake,
          PP!StopShutdown, PP!StopCpu, PP!StopDump, PP!Called
  <2> QED
    BY <1>1, <2>1, OneAtATime DEF Unused
<1>2. CASE UNCHANGED <<calls, reply>>
  BY <1>2 DEF Unused
<1> QED
  BY <1>1, <1>2, PprofStep
  DEF PP!Next, PP!Quiet, PP!Serve, PP!ServeDown, PP!Tick, PP!callerVars, PP!vars

LEMMA HollowStays ==
    ASSUME PprofInv, Unused, NEW c \in Callers, PP!Start(c) \/ PP!Stop(c),
           NEW d \in Callers, Hollow(d)
    PROVE  Hollow(d)'
<1>1. CASE d # c
  BY <1>1, OneAtATime DEF Hollow, FoundNoSession
<1>2. CASE d = c /\ pc[c] = "idle"
  <2>1. reply[c].changed /\ calls[c] = 1
    BY <1>2, PprofTypes DEF Hollow, FoundNoSession, Unused
  <2> QED
    BY <1>2, <2>1
    DEF PP!Start, PP!StartAdmitted, PP!StartRefused, PP!StartLock, PP!StartCreate,
        PP!StartProfile, PP!StartListen, PP!Stop, PP!StopAdmitted, PP!StopRefused, PP!StopTake,
        PP!StopShutdown, PP!StopCpu, PP!StopDump, PP!Called
<1>3. CASE d = c /\ pc[c] = "stop_dump" /\ taken[c] = NoSession
  <2>1. PP!StopDump(c)
    BY <1>3
    DEF PP!Start, PP!StartAdmitted, PP!StartRefused, PP!StartLock, PP!StartCreate,
        PP!StartProfile, PP!StartListen, PP!Stop, PP!StopAdmitted, PP!StopRefused, PP!StopTake,
        PP!StopShutdown, PP!StopCpu, PP!Called
  <2>2. pc'[c] = "idle" /\ taken'[c] = NoSession
    BY <1>3, <2>1, PprofTypes DEF PP!StopDump, PP!Goto
  <2>3. PICK written \in SUBSET PP!Memory :
          reply' = [reply EXCEPT ![c] = [changed |-> TRUE,
                        err   |-> @.err \/ written # PP!Memory,
                        files |-> @.files \cup written]]
    BY <2>1 DEF PP!StopDump
  <2>4. /\ reply'[c].changed
        /\ reply'[c].err = (reply[c].err \/ written # PP!Memory)
        /\ reply'[c].files = reply[c].files \cup written
    BY <2>3, PprofTypes
  <2>5. reply'[c].err \/ reply'[c].files # {}
    BY <2>4 DEF PP!Memory
  <2> QED
    BY <1>3, <2>2, <2>4, <2>5 DEF Hollow, FoundNoSession
<1> QED
  BY <1>1, <1>2, <1>3 DEF Hollow

LEMMA InOrderStep ==
    ASSUME PprofInv, InOrder, NEW c \in Callers, PP!Start(c) \/ PP!Stop(c), ~Hollow(c)'
    PROVE  InOrder'
<1>a. /\ pc \in [Callers -> {"idle"} \cup PP!StartPcs \cup PP!StopPcs]
      /\ \A d \in Callers : pc[d] \in PP!Critical => mu = d
      /\ taken \in [Callers -> PP!Sessions \cup {NoSession}] /\ NoCaller \notin Callers
  BY PprofAssumption DEF PprofInv, PP!IInv, PP!TypeOK, PP!Mutex, Callers
<1> USE <1>a DEF InOrder, PP!Goto, PP!StartPcs, PP!StopPcs, PP!Critical
<1>1. CASE PP!StartAdmitted(c)
  BY <1>1 DEF PP!StartAdmitted, PP!Called
<1>2. CASE PP!StartRefused(c) \/ PP!StopRefused(c)
  BY <1>2 DEF PP!StartRefused, PP!StopRefused
<1>3. CASE PP!StartLock(c)
  BY <1>3 DEF PP!StartLock
<1>4. CASE PP!StartCreate(c)
  BY <1>4 DEF PP!StartCreate, PP!FailStart
<1>5. CASE PP!StartProfile(c)
  BY <1>5 DEF PP!StartProfile, PP!FailStart
<1>6. CASE PP!StartListen(c)
  BY <1>6 DEF PP!StartListen, PP!Published, PP!FailStart
<1>7. CASE PP!StopAdmitted(c)
  BY <1>7 DEF PP!StopAdmitted, PP!Called
<1>8. CASE PP!StopTake(c)
  <2>1. CASE session = NoSession
    BY <1>8, <2>1 DEF PP!StopTake, Hollow
  <2>2. CASE session # NoSession
    BY <1>8, <2>2 DEF PP!StopTake
  <2> QED
    BY <2>1, <2>2
<1>9. CASE PP!StopShutdown(c)
  BY <1>9 DEF PP!StopShutdown
<1>10. CASE PP!StopCpu(c)
  BY <1>10 DEF PP!StopCpu
<1>11. CASE PP!StopDump(c)
  <2>1. mu = c /\ session = NoSession
    BY <1>11 DEF PP!StopDump, PprofInv, PP!IInv, PP!ProfilerOwner
  <2> QED
    BY <1>11, <2>1 DEF PP!StopDump
<1> QED
  BY <1>1, <1>2, <1>3, <1>4, <1>5, <1>6, <1>7, <1>8, <1>9, <1>10, <1>11 DEF PP!Start, PP!Stop

LEMMA OrderInvariance == Spec => []OrderInv
<1>1. Init => OrderInv
  <2> SUFFICES ASSUME Init PROVE OrderInv
    OBVIOUS
  <2>1. PP!Init
    BY InitPprof DEF Init
  <2> QED
    BY <2>1, InitPprofInv DEF OrderInv, Unused, InOrder, PP!Init, PP!Fresh, PP!StartPcs
<1>2. OrderInv /\ [Next]_vars => OrderInv'
  <2> SUFFICES ASSUME OrderInv, [Next]_vars PROVE OrderInv'
    OBVIOUS
  <2>1. PprofInv' /\ Unused'
    BY PprofInvStep, UnusedStep DEF OrderInv
  <2>2. ASSUME NEW c \in Callers, PP!Start(c) \/ PP!Stop(c) PROVE OrderInv'
    BY <2>1, <2>2, HollowStays, InOrderStep DEF OrderInv
  <2>3. CASE UNCHANGED <<state, session, pc, reply, taken>>
    <3>1. InOrder' = InOrder
      BY <2>3 DEF InOrder
    <3>2. \A c \in Callers : Hollow(c)' = Hollow(c)
      BY <2>3 DEF Hollow, FoundNoSession
    <3> QED
      BY <2>1, <3>1, <3>2 DEF OrderInv
  <2> QED
    BY <2>2, <2>3, PprofStep
    DEF PP!Next, PP!Quiet, PP!Serve, PP!ServeDown, PP!Tick, PP!callerVars, PP!vars
<1> QED
  BY <1>1, <1>2, PTL DEF Spec

-----------------------------------------------------------------------------
(***************************************************************************)
(* Every variable keeps its type, whatever the connections and the files.  *)
(***************************************************************************)
THEOREM TypeCorrect == Spec => []TypeOK
<1>1. StopInv => TypeOK
  BY Lengths DEF StopInv, PprofInv, BootInv, OwnTypes, TypeOK, PP!IInv, PP!TypeOK, Pprof!TypeOK,
      Callers, Pprof!Sessions, PP!Sessions, Pprof!Files, PP!Files, Pprof!Dumped, PP!Dumped,
      Pprof!ZeroTime, PP!ZeroTime, Pprof!StartPcs, PP!StartPcs, Pprof!StopPcs, PP!StopPcs,
      Pprof!Replies, PP!Replies
<1> QED
  BY <1>1, StopInvariance, PTL

(***************************************************************************)
(* However the requests and the shutdown interleave, a Run that was not    *)
(* hurried ends with no HTTP/1 request being served.                       *)
(***************************************************************************)
THEOREM NoneCut == Spec => []NoRequestCut
<1>1. BootInv => NoRequestCut
  BY DEF BootInv, Cleared, NoRequestCut
<1> QED
  BY <1>1, BootInvariance, PTL

(***************************************************************************)
(* Whatever the files, a server that is there has the backends, the        *)
(* sampling and the pprof of its file.                                     *)
(***************************************************************************)
THEOREM ConfiguredIsServed == Spec => []ServesWhatIsConfigured
<1>1. BootInv => ServesWhatIsConfigured
  <2> SUFFICES ASSUME BootInv, server # "none" PROVE ServesWhatIsConfigured
    BY DEF ServesWhatIsConfigured
  <2>1. booted = 10
    BY DEF BootInv, Order, Last
  <2>2. Accepted(file) /\ file.trace.rate \in Int
    <3>1. file \in ConfigFiles
      BY DEF BootInv, OwnTypes
    <3>2. booted >= 1 => Accepted(file)
      BY DEF BootInv, Configured
    <3> QED
      BY <2>1, <3>1, <3>2, FilesAssumption
  <2>3. /\ "rate" \notin AppProblems(file) /\ "mode" \notin AppProblems(file)
    BY <2>2 DEF Accepted
  <2>4. ~(file.trace.rate < 10 \/ file.trace.rate > 10000)
    BY <2>3 DEF AppProblems
  <2>5. file.pprof.mode \in {"server", "dynamic"}
    BY <2>3 DEF AppProblems
  <2>6. SamplerRate(TraceConfig(file)) = file.trace.rate
    BY <2>2, <2>4 DEF SamplerRate, TraceConfig
  <2> QED
    BY <2>1, <2>5, <2>6 DEF BootInv, Configured, ServesWhatIsConfigured, HasManager
<1> QED
  BY <1>1, BootInvariance, PTL

(***************************************************************************)
(* However many requests have called the manager, and however they have    *)
(* interleaved, a graceful shutdown leaves it stopped with nobody inside,  *)
(* and with its profiler and its server off unless a Stop that found no    *)
(* session, having overtaken its Start, was among them.                    *)
(***************************************************************************)
THEOREM NothingOutlivesRun == Spec => []ShutdownStopsPprof
<1>1. StopInv /\ OrderInv => ShutdownStopsPprof
  <2> SUFFICES ASSUME StopInv, OrderInv, main = "returned", Graceful PROVE ShutdownStopsPprof
    BY DEF ShutdownStopsPprof
  <2>1. Over
    BY DEF StopInv, BootInv, Order, Over
  <2>2. \A d \in Callers : pc[d] = "idle"
    BY <2>1, OnlyRunCalls DEF StopInv, Calling, Callers
  <2>3. mu = NoCaller
    BY <2>2
    DEF StopInv, PprofInv, PP!IInv, PP!TypeOK, PP!Mutex, PP!Critical, PP!StartPcs, PP!StopPcs
  <2>4. state = "stopped" /\ (reply[Main].changed => session = NoSession)
    BY <2>1, <2>2 DEF StopInv, Calling, Halting, Over, Callers
  <2>5. (\A c \in Clients : ~FoundNoSession(c)) => session = NoSession
    <3> SUFFICES ASSUME \A c \in Clients : ~FoundNoSession(c), ~reply[Main].changed
                 PROVE  session = NoSession
      BY <2>4
    <3>1. \A c \in Callers : ~Hollow(c)
      BY <2>2 DEF Hollow, Callers, FoundNoSession
    <3> QED
      BY <2>4, <3>1 DEF OrderInv, InOrder
  <2>6. cpu = session /\ \A s \in PP!Sessions : sock[s] \in {"bound", "serving"} => s = session
    BY <2>3
    DEF StopInv, PprofInv, PP!IInv, PP!ProfilerOwner, PP!Arming, PP!Stopping, PP!ListenerKnown
  <2>7. NoSession \notin Pprof!Sessions /\ Pprof!Sessions = PP!Sessions
    BY PprofAssumption DEF Pprof!Sessions, PP!Sessions, Callers
  <2> QED
    BY <2>3, <2>4, <2>5, <2>6, <2>7 DEF ShutdownStopsPprof
<1> QED
  BY <1>1, StopInvariance, OrderInvariance, PTL
=============================================================================
