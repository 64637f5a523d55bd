---------------------------- MODULE DynamicPprof ----------------------------
(***************************************************************************)
(* The dynamic pprof manager of infra/pprof.go: Start and Stop called      *)
(* concurrently (HTTP handlers /pprof/start and /pprof/stop, and the       *)
(* shutdown path of service/setup.go) on one DynamicPprof.                 *)
(*                                                                         *)
(* Both methods first compare-and-swap the atomic state and only then      *)
(* take the mutex, so another caller may run between the two.  One action  *)
(* below is the code between two points where another goroutine can be     *)
(* seen: the CAS, the Lock, and each call that leaves the package.  The    *)
(* final "store the state; return; deferred Unlock" is one action, since   *)
(* nothing can be observed between the store and the release that cannot   *)
(* be observed just after it.                                              *)
(***************************************************************************)
EXTENDS Naturals, FiniteSets

CONSTANTS
    Callers,               \* goroutines that call Start or Stop
    MaxCalls,              \* bound: calls one caller makes
    MaxTime,               \* bound: the clock, in seconds, stops here
    NoCaller,              \* the mutex is free
    NoSession,             \* nil server, nil cpuFile, profiler off
    Absent,                \* no file of that name
    StopMayOvertakeStart   \* FALSE: callers issue no Stop while a Start is
                           \* between its CAS and its Unlock

ASSUME CallersAssumption == NoCaller \notin Callers
ASSUME BoundsAssumption  == MaxCalls \in Nat /\ MaxTime \in Nat \ {0}

\* A profiling session is named by the Start call that creates it.
Sessions == Callers \X (1 .. MaxCalls)
ASSUME SessionAssumption ==
    NoSession \notin Sessions /\ Absent \notin Sessions /\ NoSession # Absent
ASSUME OvertakeAssumption == StopMayOvertakeStart \in BOOLEAN

ZeroTime == 0                               \* time.Time{}
Dumped   == {"cpu", "heap", "goroutine"}    \* the kinds of .prof files
\* A file name is the second the session began at and the kind of file.
Files    == (ZeroTime .. MaxTime) \X (Dumped \cup {"tmp"})

VARIABLES
    state,        \* m.state: "stopped", "running" or "dumping"
    mu,           \* holder of m.mu
    session,      \* m.server, m.startedAt, m.cpuFile, m.cpuTmp: set together
    cpu,          \* session the runtime CPU profiler writes to
    sock,         \* listening socket and Serve goroutine of every session
    began,        \* startedAt of every session
    disk,         \* the dump directory: the session whose whole profile a file
                  \* holds, NoSession when it holds that of no session
    dumpFailures, \* lunaship_pprof_dump_failures_total
    now,          \* the clock
    pc, calls,    \* where a caller is, and how many calls it has made
    taken,        \* the session a Stop took out of the fields
    reply         \* what the caller's last call returns

callerVars == <<pc, calls, taken, reply>>
vars == <<state, mu, session, cpu, sock, began, disk, dumpFailures, now, callerVars>>

StartPcs == {"start_lock", "start_create", "start_profile", "start_listen"}
StopPcs  == {"stop_lock", "stop_shutdown", "stop_cpu", "stop_dump"}
\* The steps taken with m.mu held.
Critical == (StartPcs \cup StopPcs) \ {"start_lock", "stop_lock"}

Replies == [changed : BOOLEAN, err : BOOLEAN, files : SUBSET Dumped]
Fresh   == [changed |-> FALSE, err |-> FALSE, files |-> {}]

TypeOK ==
    /\ state \in {"stopped", "running", "dumping"}
    /\ mu \in Callers \cup {NoCaller}
    /\ session \in Sessions \cup {NoSession}
    /\ cpu \in Sessions \cup {NoSession}
    /\ sock \in [Sessions -> {"none", "bound", "serving", "shut", "closed"}]
    /\ began \in [Sessions -> ZeroTime .. MaxTime]
    /\ disk \in [Files -> Sessions \cup {NoSession, Absent}]
    /\ dumpFailures \in [Dumped -> Nat]
    /\ now \in 1 .. MaxTime
    /\ pc \in [Callers -> {"idle"} \cup StartPcs \cup StopPcs]
    /\ calls \in [Callers -> 0 .. MaxCalls]
    /\ taken \in [Callers -> Sessions \cup {NoSession}]
    /\ reply \in [Callers -> Replies]

\* NewDynamicPprof: a stopped manager with nil fields.
Init ==
    /\ state = "stopped"
    /\ mu = NoCaller
    /\ session = NoSession
    /\ cpu = NoSession
    /\ sock = [s \in Sessions |-> "none"]
    /\ began = [s \in Sessions |-> ZeroTime]
    /\ disk = [f \in Files |-> Absent]
    /\ dumpFailures = [k \in Dumped |-> 0]
    /\ now = 1
    /\ pc = [c \in Callers |-> "idle"]
    /\ calls = [c \in Callers |-> 0]
    /\ taken = [c \in Callers |-> NoSession]
    /\ reply = [c \in Callers |-> Fresh]

-----------------------------------------------------------------------------
Me(c)      == <<c, calls[c]>>
Goto(c, l) == pc' = [pc EXCEPT ![c] = l]
Holds(s)   == sock[s] \in {"bound", "serving", "shut"}  \* s keeps the port bound

\* The next call of caller c is accepted by the environment.
Called(c) ==
    /\ pc[c] = "idle"
    /\ calls[c] < MaxCalls
    /\ calls' = [calls EXCEPT ![c] = @ + 1]
    /\ reply' = [reply EXCEPT ![c] = Fresh]

FailStartRunning(c) ==  \* mutant: an early return without the state store
    /\ UNCHANGED state
    /\ mu' = NoCaller
    /\ Goto(c, "idle")
    /\ reply' = [reply EXCEPT ![c].err = TRUE]

FailStartLocked(c) ==  \* mutant: an early return without the Unlock
    /\ state' = "stopped"
    /\ UNCHANGED mu
    /\ Goto(c, "idle")
    /\ reply' = [reply EXCEPT ![c].err = TRUE]
\* A Start that failed: state back to stopped, return the error.
FailStart(c) ==
    /\ state' = "stopped"
    /\ mu' = NoCaller
    /\ Goto(c, "idle")
    /\ reply' = [reply EXCEPT ![c].err = TRUE]

\* ... after closing and removing its temporary CPU profile.  The error of the
\* removal is ignored: the file then stays, with the profile of no session, or,
\* when a live session of the same second writes to the file this Start has
\* truncated, with that session's, whole if it had written nothing yet.
UndoCreate(c) ==
    LET tmp == <<began[Me(c)], "tmp">> IN
    \/ disk' = [disk EXCEPT ![tmp] = Absent]
    \/ disk' = [disk EXCEPT ![tmp] = NoSession]
    \/ /\ session # NoSession /\ began[session] = began[Me(c)]
       /\ disk' = [disk EXCEPT ![tmp] = session]

StartAdmitted(c) ==
    /\ Called(c)
    /\ state = "stopped"
    /\ state' = "running"
    /\ Goto(c, "start_lock")
    /\ UNCHANGED <<mu, session, cpu, sock, began, disk, dumpFailures, now, taken>>

StartRefused(c) ==
    /\ Called(c)
    /\ state # "stopped"
    /\ UNCHANGED <<state, mu, session, cpu, sock, began, disk, dumpFailures, now, pc, taken>>

StartLock(c) ==
    /\ pc[c] = "start_lock"
    /\ mu = NoCaller
    /\ mu' = c
    /\ Goto(c, "start_create")
    /\ UNCHANGED <<state, session, cpu, sock, began, disk, dumpFailures, now, calls, taken, reply>>

\* MkdirAll, then Create of the temporary CPU profile, which truncates a file
\* of the same name; either may fail.
StartCreate(c) ==
    /\ pc[c] = "start_create"
    /\ \/ /\ began' = [began EXCEPT ![Me(c)] = now]
          /\ disk' = [disk EXCEPT ![<<now, "tmp">>] = Me(c)]
          /\ Goto(c, "start_profile")
          /\ UNCHANGED <<state, mu, reply>>
       \/ /\ FailStart(c)
          /\ UNCHANGED <<began, disk>>
    /\ UNCHANGED <<session, cpu, sock, dumpFailures, now, calls, taken>>

\* StartCPUProfile fails when the process is already being profiled, by a
\* session of the manager or by a /debug/pprof/profile request to another server.
ProfilerFree == cpu = NoSession
StopCPUProfileSkipped == UNCHANGED cpu  \* mutant
StopCPUProfile == cpu' = NoSession

StartProfile(c) ==
    /\ pc[c] = "start_profile"
    /\ \/ /\ ProfilerFree
          /\ cpu' = Me(c)
          /\ Goto(c, "start_listen")
          /\ UNCHANGED <<state, mu, reply, disk>>
       \/ /\ UndoCreate(c)
          /\ FailStart(c)
          /\ UNCHANGED cpu
    /\ UNCHANGED <<session, sock, began, dumpFailures, now, calls, taken>>

\* net.Listen; then the fields are set, the Serve goroutine is spawned, and
\* the deferred Unlock runs.  The address may also be taken by a stranger.
Published(c) ==
    /\ \A s \in Sessions : ~Holds(s)
    /\ sock' = [sock EXCEPT ![Me(c)] = "bound"]
    /\ session' = Me(c)
    /\ mu' = NoCaller
    /\ Goto(c, "idle")
    /\ reply' = [reply EXCEPT ![c].changed = TRUE]
    /\ UNCHANGED <<state, cpu, disk>>

StartListen(c) ==
    /\ pc[c] = "start_listen"
    /\ \/ Published(c)
       \/ /\ StopCPUProfile
          /\ UndoCreate(c)
          /\ FailStart(c)
          /\ UNCHANGED <<session, sock>>
    /\ UNCHANGED <<began, dumpFailures, now, calls, taken>>

-----------------------------------------------------------------------------
Starting == {c \in Callers : pc[c] \in StartPcs}

StopAdmitted(c) ==
    /\ StopMayOvertakeStart \/ Starting = {}
    /\ Called(c)
    /\ state = "running"
    /\ state' = "dumping"
    /\ Goto(c, "stop_lock")
    /\ UNCHANGED <<mu, session, cpu, sock, began, disk, dumpFailures, now, taken>>

StopRefused(c) ==
    /\ StopMayOvertakeStart \/ Starting = {}
    /\ Called(c)
    /\ state # "running"
    /\ UNCHANGED <<state, mu, session, cpu, sock, began, disk, dumpFailures, now, pc, taken>>

\* Lock, copy the fields and clear them.  Without a server and a CPU profile
\* file Stop goes straight to the heap and goroutine dumps.
StopTake(c) ==
    /\ pc[c] = "stop_lock"
    /\ mu = NoCaller
    /\ mu' = c
    /\ taken' = [taken EXCEPT ![c] = session]
    /\ session' = NoSession
    /\ reply' = [reply EXCEPT ![c].changed = TRUE]
    /\ Goto(c, IF session = NoSession THEN "stop_dump" ELSE "stop_shutdown")
    /\ UNCHANGED <<state, cpu, sock, began, disk, dumpFailures, now, calls>>

\* server.Shutdown closes the listener if Serve has registered it; otherwise
\* Serve itself closes it when it runs.  A busy server times out after 5s,
\* with its listener closed.
ShutDownSkipped(s) == UNCHANGED sock  \* mutant
ShutDown(s) ==
    \/ sock[s] = "bound" /\ sock' = [sock EXCEPT ![s] = "shut"]
    \/ sock[s] = "serving" /\ sock' = [sock EXCEPT ![s] = "closed"]
    \/ sock[s] = "closed" /\ UNCHANGED sock

StopShutdown(c) ==
    /\ pc[c] = "stop_shutdown"
    /\ ShutDown(taken[c])
    /\ \E timeout \in {FALSE, sock[taken[c]] = "serving"} :
            reply' = [reply EXCEPT ![c].err = timeout]
    /\ Goto(c, "stop_cpu")
    /\ UNCHANGED <<state, mu, session, cpu, began, disk, dumpFailures, now, calls, taken>>

\* StopCPUProfile, Close and Rename of the temporary file.  A failure of
\* Close or Rename leaves that file, counts and is reported.
Renamed(c) ==
    LET tmp == <<began[taken[c]], "tmp">> IN
    /\ disk[tmp] # Absent
    /\ disk' = [disk EXCEPT ![<<began[taken[c]], "cpu">>] = disk[tmp], ![tmp] = Absent]
    /\ reply' = [reply EXCEPT ![c].files = @ \cup {"cpu"}]
    /\ UNCHANGED dumpFailures

CpuDumpSilent(c) ==  \* mutant: neither counted nor reported
    UNCHANGED <<disk, reply, dumpFailures>>
CpuDumpUncounted(c) ==  \* mutant: reported, not counted
    /\ reply' = [reply EXCEPT ![c].err = TRUE]
    /\ UNCHANGED <<disk, dumpFailures>>
CpuDumpListed(c) ==  \* mutant: the temporary file is listed all the same
    /\ dumpFailures' = [dumpFailures EXCEPT !["cpu"] = @ + 1]
    /\ reply' = [reply EXCEPT ![c].err = TRUE, ![c].files = {"tmp"}]
    /\ UNCHANGED disk
CpuDumpFailed(c) ==
    /\ dumpFailures' = [dumpFailures EXCEPT !["cpu"] = @ + 1]
    /\ reply' = [reply EXCEPT ![c].err = TRUE]
    /\ UNCHANGED disk

StopCpu(c) ==
    /\ pc[c] = "stop_cpu"
    /\ StopCPUProfile
    /\ Renamed(c) \/ CpuDumpFailed(c)
    /\ Goto(c, "stop_dump")
    /\ UNCHANGED <<state, mu, session, sock, began, now, calls, taken>>

StartedAt(s) == IF s = NoSession THEN ZeroTime ELSE began[s]

\* The heap and the goroutine dump, each of which may fail at Create (an
\* older file of that name stays) or at WriteTo (the file is removed, or stays
\* cut short when the removal, whose error is ignored, fails); then the state is
\* stored and the lock released.
Memory == {"heap", "goroutine"}
DiskAfter(s, written, removed, cut) ==
    [f \in Files |->
        CASE f[1] = StartedAt(s) /\ f[2] \in written -> s
          [] f[1] = StartedAt(s) /\ f[2] \in removed -> Absent
          [] f[1] = StartedAt(s) /\ f[2] \in cut     -> NoSession
          [] OTHER -> disk[f]]

StopDump(c) ==
    /\ pc[c] = "stop_dump"
    /\ \E written, removed, cut \in SUBSET Memory :
        /\ removed \cap written = {} /\ cut \cap (written \cup removed) = {}
        /\ disk' = DiskAfter(taken[c], written, removed, cut)
        /\ dumpFailures' = [k \in Dumped |->
                dumpFailures[k] + IF k \in Memory \ written THEN 1 ELSE 0]
        /\ reply' = [reply EXCEPT ![c] =
                [changed |-> TRUE,
                 err     |-> @.err \/ written # Memory,
                 files   |-> @.files \cup written]]
    /\ state' = "stopped"
    /\ mu' = NoCaller
    /\ Goto(c, "idle")
    /\ UNCHANGED <<session, cpu, sock, began, now, calls, taken>>

-----------------------------------------------------------------------------
\* The goroutine running server.Serve on the listener of session s: it
\* registers the listener, or finds the server shut down and closes it.  A
\* serving goroutine may also end on its own when Accept fails.
Serve(s) ==
    /\ \/ sock[s] = "bound" /\ sock' = [sock EXCEPT ![s] = "serving"]
       \/ sock[s] = "shut"  /\ sock' = [sock EXCEPT ![s] = "closed"]
    /\ UNCHANGED <<state, mu, session, cpu, began, disk, dumpFailures, now, callerVars>>

ServeDown(s) ==
    /\ sock[s] = "serving"
    /\ sock' = [sock EXCEPT ![s] = "closed"]
    /\ UNCHANGED <<state, mu, session, cpu, began, disk, dumpFailures, now, callerVars>>

Tick ==
    /\ now < MaxTime
    /\ now' = now + 1
    /\ UNCHANGED <<state, mu, session, cpu, sock, began, disk, dumpFailures, callerVars>>

Start(c) == \/ StartAdmitted(c) \/ StartRefused(c) \/ StartLock(c)
            \/ StartCreate(c) \/ StartProfile(c) \/ StartListen(c)
Stop(c)  == \/ StopAdmitted(c) \/ StopRefused(c) \/ StopTake(c)
            \/ StopShutdown(c) \/ StopCpu(c) \/ StopDump(c)

\* Every caller has used up its calls: the model, not the manager, stops.
Quiet ==
    /\ \A c \in Callers : pc[c] = "idle" /\ calls[c] = MaxCalls
    /\ UNCHANGED vars

Next ==
    \/ \E c \in Callers : Start(c) \/ Stop(c)
    \/ \E s \in Sessions : Serve(s) \/ ServeDown(s)
    \/ Tick
    \/ Quiet

\* A call in progress is never abandoned by the scheduler; sync.Mutex hands
\* itself to a waiter that has starved; Shutdown is bounded by its timeout.
\* Nobody has to call, and the clock need not move.
Fairness ==
    /\ \A c \in Callers :
        /\ SF_vars(StartLock(c)) /\ SF_vars(StopTake(c))
        /\ WF_vars(StartCreate(c) \/ StartProfile(c) \/ StartListen(c))
        /\ WF_vars(StopShutdown(c) \/ StopCpu(c) \/ StopDump(c))
    /\ \A s \in Sessions : WF_vars(Serve(s))

Spec == Init /\ [][Next]_vars
FairSpec == Spec /\ Fairness

-----------------------------------------------------------------------------
\* What the holder of the mutex has in its hands, outside the fields.
InHand(s) ==
    /\ mu # NoCaller
    /\ \/ pc[mu] = "start_listen" /\ s = Me(mu)
       \/ pc[mu] \in {"stop_shutdown", "stop_cpu"} /\ s = taken[mu]

(***************************************************************************)
(* Whoever runs between a CAS and its Lock, the process-wide CPU profiler  *)
(* and the listening socket never lose their owner: they belong to the     *)
(* session in the manager's fields or to the call holding the lock, and a  *)
(* session in the fields is the one being profiled: nothing is on that a   *)
(* Stop admitted later could not switch off (pprof.go:129-153, 187-221).   *)
(***************************************************************************)
CaptureOwned ==
    /\ cpu # NoSession => cpu = session \/ InHand(cpu)
    /\ session # NoSession => cpu = session

(* The same of the listening socket: no server goes on listening without   *)
(* the manager, or the call that is stopping it, knowing it.               *)
ListenerOwned ==
    \A s \in Sessions : sock[s] \in {"bound", "serving"} => s = session \/ InHand(s)

(***************************************************************************)
(* No session's CPU profile is lost in silence: one that nobody will       *)
(* rename any more, its session being over, is matched by a counted cpu    *)
(* failure, however many sessions share its second (pprof.go:207-219).     *)
(* Temporary files that hold no session's profile are not counted by       *)
(* anything: a Start that fails and cannot remove its own leaves one.      *)
(***************************************************************************)
LostProfiles ==
    {t \in 1 .. MaxTime :
        LET owner == disk[<<t, "tmp">>] IN
        /\ owner \in Sessions
        /\ owner # session
        /\ mu = NoCaller}
LostProfilesCounted == Cardinality(LostProfiles) <= dumpFailures["cpu"]

(***************************************************************************)
(* A Stop that took a session and reports no error lists three profiles,   *)
(* and whatever a Stop lists is on disk and is that very session's         *)
(* (pprof.go:207-256), with one exception the code cannot see: a later     *)
(* Start of the same second has truncated the CPU profile of the live      *)
(* session, failed, and failed to remove the file (pprof.go:123-133).      *)
(***************************************************************************)
Listed(s, k) == disk[<<began[s], k>>] = s \/ (k = "cpu" /\ disk[<<began[s], k>>] = NoSession)
StopReportsWhatItWrote ==
    [][\A c \in Callers :
         pc[c] = "stop_dump" /\ pc'[c] = "idle" /\ taken[c] # NoSession =>
            /\ ~reply'[c].err => reply'[c].files = Dumped
            /\ \A k \in reply'[c].files : Listed(taken[c], k)']_vars

(***************************************************************************)
(* "We expect no concurrent profiling. So use state & atomic to control    *)
(* the lifecycle of pprof" (dynamic pprof spec): once nobody is inside the *)
(* critical section, a stopped manager has no profiler and no server.      *)
(***************************************************************************)
StoppedMeansReleased ==
    state = "stopped" /\ mu = NoCaller =>
        /\ session = NoSession
        /\ cpu = NoSession
        /\ \A s \in Sessions : sock[s] \notin {"bound", "serving"}

(***************************************************************************)
(* The documented life cycle, PprofLifecycle, with the profiler "arming"   *)
(* while a Start has switched it on and can still fail to listen.          *)
(***************************************************************************)
Lifecycle == INSTANCE PprofLifecycle WITH
    phase <- state,
    capture <- IF cpu = NoSession THEN "off"
               ELSE IF mu # NoCaller /\ pc[mu] = "start_listen" THEN "arming"
               ELSE "on"

\* Every step of the code is a step of the documented state machine, and the
\* manager leaves neither a half-done start nor a dump unfinished.
ImplementsLifecycle == Lifecycle!Spec

\* Every Start and Stop returns: nobody waits for the mutex forever
\* (pprof.go:113-114, 179-180).
EveryCallReturns == \A c \in Callers : pc[c] # "idle" ~> pc[c] = "idle"
=============================================================================
