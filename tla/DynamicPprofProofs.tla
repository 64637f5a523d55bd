------------------------- MODULE DynamicPprofProofs -------------------------
(***************************************************************************)
(* Proofs about DynamicPprof, for any number of callers and calls and any  *)
(* clock.                                                                  *)
(***************************************************************************)
EXTENDS DynamicPprof, TLAPS

\* The mutex: the caller recorded as its holder is the only one inside.
Mutex == \A c \in Callers : pc[c] \in Critical <=> mu = c

\* A caller inside a call has made at least one, so Me(c) names a session;
\* a Stop past StopTake that goes on to Shutdown has taken one.
Identified ==
    \A c \in Callers :
        /\ pc[c] # "idle" => calls[c] # 0
        /\ pc[c] \in {"stop_shutdown", "stop_cpu"} => taken[c] # NoSession

\* Who the profiler belongs to, step by step of the holder of the mutex.
Arming   == mu # NoCaller /\ pc[mu] = "start_listen"
Stopping == mu # NoCaller /\ pc[mu] \in {"stop_shutdown", "stop_cpu"}
ProfilerOwner ==
    /\ Arming => cpu = Me(mu)
    /\ Stopping => cpu = taken[mu]
    /\ ~Arming /\ ~Stopping => cpu = session
    /\ Arming \/ Stopping => session = NoSession
    /\ mu # NoCaller /\ pc[mu] = "stop_dump" => session = NoSession

ListenerKnown ==
    \A s \in Sessions : sock[s] \in {"bound", "serving"} =>
        \/ s = session
        \/ mu # NoCaller /\ pc[mu] = "stop_shutdown" /\ s = taken[mu]

\* When no Stop overtakes a Start, at most one call is under way, and state
\* tells which.
InTurn ==
    /\ \A c, d \in Callers : pc[c] # "idle" /\ pc[d] # "idle" => c = d
    /\ state = "stopped" =>
        /\ session = NoSession
        /\ \A c \in Callers : pc[c] = "idle"
    /\ state = "running" =>
        /\ \A c \in Callers : pc[c] \in {"idle"} \cup StartPcs
        /\ session = NoSession <=> \E c \in Callers : pc[c] \in StartPcs
    /\ state = "dumping" =>
        /\ \A c \in Callers : pc[c] \in {"idle"} \cup StopPcs
        /\ \E c \in Callers : pc[c] \in StopPcs
        /\ \A c \in Callers : pc[c] = "stop_lock" => session # NoSession

IInv == TypeOK /\ Mutex /\ Identified /\ ProfilerOwner /\ ListenerKnown

-----------------------------------------------------------------------------
LEMMA SessionNames ==
    ASSUME IInv, NEW c \in Callers, pc[c] # "idle"
    PROVE  Me(c) \in Sessions /\ Me(c) # NoSession
<1>1. calls[c] \in 1 .. MaxCalls
  BY BoundsAssumption DEF IInv, TypeOK, Identified
<1> QED
  BY <1>1, SessionAssumption DEF Me, Sessions

LEMMA InitIInv == Init => IInv
<1> SUFFICES ASSUME Init PROVE IInv
  OBVIOUS
<1>1. TypeOK
  BY BoundsAssumption DEF Init, TypeOK, Replies, Fresh, Dumped, ZeroTime
<1>2. Mutex
  BY CallersAssumption DEF Init, Mutex, Critical, StartPcs, StopPcs
<1>3. Identified /\ ProfilerOwner /\ ListenerKnown
  BY DEF Init, Identified, ProfilerOwner, Arming, Stopping, ListenerKnown
<1> QED
  BY <1>1, <1>2, <1>3 DEF IInv

\* Replies are only ever updated field by field.
LEMMA ReplyFields ==
    ASSUME NEW r \in Replies, NEW F \in SUBSET Dumped, NEW b \in BOOLEAN
    PROVE  /\ Fresh \in Replies
           /\ [r EXCEPT !.err = b] \in Replies
           /\ [r EXCEPT !.changed = b] \in Replies
           /\ [r EXCEPT !.files = F] \in Replies
           /\ [changed |-> TRUE, err |-> b, files |-> r.files \cup F] \in Replies
<1>1. r.err \in BOOLEAN /\ r.changed \in BOOLEAN /\ r.files \in SUBSET Dumped
  BY DEF Replies
<1>2. r.files \cup F \in SUBSET Dumped
  BY <1>1
<1> QED
  BY <1>1, <1>2 DEF Replies, Fresh

LEMMA ReplyStep == IInv /\ [Next]_vars => reply' \in [Callers -> Replies]
<1> SUFFICES ASSUME IInv, [Next]_vars PROVE reply' \in [Callers -> Replies]
  OBVIOUS
<1>1. reply \in [Callers -> Replies]
  BY DEF IInv, TypeOK
<1>2. ASSUME NEW c \in Callers, Called(c) PROVE reply' \in [Callers -> Replies]
  <2>1. Fresh \in Replies
    BY DEF Fresh, Replies
  <2> QED
    BY <1>1, <1>2, <2>1 DEF Called
<1>3. ASSUME NEW c \in Callers, FailStart(c) PROVE reply' \in [Callers -> Replies]
  <2>1. [reply[c] EXCEPT !.err = TRUE] \in Replies
    BY <1>1, ReplyFields
  <2> QED
    BY <1>1, <1>3, <2>1 DEF FailStart
<1>4. ASSUME NEW c \in Callers, Published(c) \/ StopTake(c)
      PROVE  reply' \in [Callers -> Replies]
  <2>1. [reply[c] EXCEPT !.changed = TRUE] \in Replies
    BY <1>1, ReplyFields
  <2> QED
    BY <1>1, <1>4, <2>1 DEF Published, StopTake
<1>5. ASSUME NEW c \in Callers, StopShutdown(c) PROVE reply' \in [Callers -> Replies]
  <2>1. \A b \in BOOLEAN : [reply[c] EXCEPT !.err = b] \in Replies
    BY <1>1, ReplyFields
  <2>2. (sock[taken[c]] = "serving") \in BOOLEAN
    OBVIOUS
  <2>3. PICK timeout \in {FALSE, sock[taken[c]] = "serving"} :
          reply' = [reply EXCEPT ![c].err = timeout]
    BY <1>5 DEF StopShutdown
  <2>4. timeout \in BOOLEAN
    BY <2>2
  <2> HIDE <2>2
  <2>5. [reply[c] EXCEPT !.err = timeout] \in Replies
    BY <2>1, <2>4
  <2> QED
    BY <1>1, <2>3, <2>5
<1>6. ASSUME NEW c \in Callers, StopCpu(c) PROVE reply' \in [Callers -> Replies]
  <2>1. [reply[c] EXCEPT !.err = TRUE] \in Replies
    BY <1>1, ReplyFields
  <2>2. reply[c].files \cup {"cpu"} \in SUBSET Dumped
    BY <1>1 DEF Replies, Dumped
  <2>3. [reply[c] EXCEPT !.files = reply[c].files \cup {"cpu"}] \in Replies
    BY <1>1, <2>2, ReplyFields
  <2> QED
    BY <1>1, <1>6, <2>1, <2>3 DEF StopCpu, Renamed, CpuDumpFailed
<1>7. ASSUME NEW c \in Callers, StopDump(c) PROVE reply' \in [Callers -> Replies]
  <2>1. PICK written \in SUBSET Memory :
          reply' = [reply EXCEPT ![c] =
                [changed |-> TRUE,
                 err     |-> @.err \/ written # Memory,
                 files   |-> @.files \cup written]]
    BY <1>7 DEF StopDump
  <2>2. (reply[c].err \/ written # Memory) \in BOOLEAN /\ written \in SUBSET Dumped
    BY <2>1 DEF Memory, Dumped
  <2>3. [changed |-> TRUE, err |-> reply[c].err \/ written # Memory,
         files |-> reply[c].files \cup written] \in Replies
    BY <1>1, <2>2, ReplyFields
  <2> QED
    BY <1>1, <2>1, <2>3
<1>8. ASSUME UNCHANGED reply PROVE reply' \in [Callers -> Replies]
  BY <1>1, <1>8
<1>9. ASSUME NEW c \in Callers, Start(c) PROVE reply' \in [Callers -> Replies]
  BY <1>9, <1>2, <1>3, <1>4, <1>8
  DEF Start, StartAdmitted, StartRefused, StartLock, StartCreate, StartProfile, StartListen
<1>10. ASSUME NEW c \in Callers, Stop(c) PROVE reply' \in [Callers -> Replies]
  BY <1>10, <1>2, <1>4, <1>5, <1>6, <1>7 DEF Stop, StopAdmitted, StopRefused
<1> QED
  BY <1>8, <1>9, <1>10
  DEF Next, Serve, ServeDown, Tick, Quiet, vars, callerVars

\* Types first: every step keeps them, given the invariant.
LEMMA TypeStep == IInv /\ [Next]_vars => TypeOK'
<1> SUFFICES ASSUME IInv, [Next]_vars PROVE TypeOK'
  OBVIOUS
<1>0. reply' \in [Callers -> Replies]
  BY ReplyStep
<1>a. ASSUME NEW c \in Callers, Called(c)
       PROVE  calls' \in [Callers -> 0 .. MaxCalls]
  <2>1. calls[c] + 1 \in 0 .. MaxCalls
    BY <1>a, BoundsAssumption DEF Called, IInv, TypeOK
  <2> QED
    BY <1>a, <2>1 DEF Called, IInv, TypeOK
<1> USE <1>0 DEF IInv, TypeOK, Goto
<1>1. ASSUME NEW c \in Callers, StartAdmitted(c) PROVE TypeOK'
  BY <1>a, <1>1 DEF StartAdmitted, StartPcs
<1>2. ASSUME NEW c \in Callers, StartRefused(c) PROVE TypeOK'
  BY <1>a, <1>2 DEF StartRefused
<1>3. ASSUME NEW c \in Callers, StartLock(c) PROVE TypeOK'
  BY <1>3 DEF StartLock, StartPcs
<1>4. ASSUME NEW c \in Callers, StartCreate(c) PROVE TypeOK'
  <2>1. Me(c) \in Sessions
    BY <1>4, SessionNames DEF StartCreate
  <2>2. <<now, "tmp">> \in Files /\ now \in ZeroTime .. MaxTime
    BY BoundsAssumption DEF Files, ZeroTime
  <2> QED
    BY <1>4, <2>1, <2>2 DEF StartCreate, FailStart, StartPcs
<1>5. ASSUME NEW c \in Callers, StartProfile(c) PROVE TypeOK'
  <2>1. Me(c) \in Sessions
    BY <1>5, SessionNames DEF StartProfile
  <2> QED
    BY <1>5, <2>1 DEF StartProfile, FailStart, UndoCreate, StartPcs
<1>6. ASSUME NEW c \in Callers, StartListen(c) PROVE TypeOK'
  <2>1. Me(c) \in Sessions
    BY <1>6, SessionNames DEF StartListen
  <2> QED
    BY <1>6, <2>1 DEF StartListen, Published, FailStart, UndoCreate, StopCPUProfile
<1>7. ASSUME NEW c \in Callers, StopAdmitted(c) PROVE TypeOK'
  BY <1>a, <1>7 DEF StopAdmitted, StopPcs
<1>8. ASSUME NEW c \in Callers, StopRefused(c) PROVE TypeOK'
  BY <1>a, <1>8 DEF StopRefused
<1>9. ASSUME NEW c \in Callers, StopTake(c) PROVE TypeOK'
  BY <1>9 DEF StopTake, StopPcs
<1>10. ASSUME NEW c \in Callers, StopShutdown(c) PROVE TypeOK'
  BY <1>10 DEF StopShutdown, ShutDown, StopPcs
<1>11. ASSUME NEW c \in Callers, StopCpu(c) PROVE TypeOK'
  <2>1. taken[c] \in Sessions
    BY <1>11 DEF StopCpu, Identified
  <2>2. began[taken[c]] \in ZeroTime .. MaxTime
    BY <2>1
  <2>3. /\ <<began[taken[c]], "tmp">> \in Files
        /\ <<began[taken[c]], "cpu">> \in Files
    BY <2>2 DEF Files, Dumped
  <2>4. CASE Renamed(c)
    BY <1>11, <2>3, <2>4 DEF StopCpu, Renamed, StopCPUProfile, Dumped, StopPcs
  <2>5. CASE CpuDumpFailed(c)
    BY <1>11, <2>5 DEF StopCpu, CpuDumpFailed, StopCPUProfile, Dumped, StopPcs
  <2> QED
    BY <1>11, <2>4, <2>5 DEF StopCpu
<1>12. ASSUME NEW c \in Callers, StopDump(c) PROVE TypeOK'
  <2>1. PICK written \in SUBSET Memory, removed \in SUBSET Memory, cut \in SUBSET Memory :
          /\ disk' = DiskAfter(taken[c], written, removed, cut)
          /\ dumpFailures' = [k \in Dumped |->
                dumpFailures[k] + IF k \in Memory \ written THEN 1 ELSE 0]
    BY <1>12 DEF StopDump
  <2>2. disk' \in [Files -> Sessions \cup {NoSession, Absent}]
    <3>1. \A f \in Files : disk'[f] \in {taken[c], Absent, NoSession, disk[f]}
      BY <2>1 DEF DiskAfter
    <3>2. DOMAIN disk' = Files /\ disk' = [f \in Files |-> disk'[f]]
      BY <2>1 DEF DiskAfter
    <3> QED
      BY <3>1, <3>2
  <2>3. dumpFailures' \in [Dumped -> Nat]
    BY <2>1
  <2> QED
    BY <1>12, <2>2, <2>3 DEF StopDump
<1>13. ASSUME NEW s \in Sessions, Serve(s) \/ ServeDown(s) PROVE TypeOK'
  BY <1>13 DEF Serve, ServeDown, callerVars
<1>14. CASE Tick
  <2>1. now' \in 1 .. MaxTime
    BY <1>14, BoundsAssumption DEF Tick
  <2> QED
    BY <1>14, <2>1 DEF Tick, callerVars
<1>15. CASE UNCHANGED vars
  BY <1>15 DEF vars, callerVars
<1> QED
  BY <1>1, <1>2, <1>3, <1>4, <1>5, <1>6, <1>7, <1>8, <1>9, <1>10, <1>11, <1>12,
     <1>13, <1>14, <1>15 DEF Next, Start, Stop, Quiet

-----------------------------------------------------------------------------
\* The holder of the mutex is inside, so it is a caller, and nobody else is.
LEMMA Holder ==
    ASSUME IInv
    PROVE  /\ \A c \in Callers : pc[c] \in Critical => mu = c
           /\ mu # NoCaller => mu \in Callers /\ pc[mu] \in Critical
BY CallersAssumption DEF IInv, TypeOK, Mutex

LEMMA MutexStep == IInv /\ [Next]_vars => Mutex'
<1> SUFFICES ASSUME IInv, [Next]_vars PROVE Mutex'
  OBVIOUS
<1> USE DEF IInv, TypeOK, Goto, StartPcs, StopPcs, Mutex, Critical
<1>1. ASSUME NEW c \in Callers, StartAdmitted(c) PROVE Mutex'
  BY <1>1, Holder, CallersAssumption, SessionNames DEF StartAdmitted, Called
<1>2. ASSUME NEW c \in Callers, StartRefused(c) PROVE Mutex'
  BY <1>2, Holder, CallersAssumption, SessionNames DEF StartRefused, Called
<1>3. ASSUME NEW c \in Callers, StartLock(c) PROVE Mutex'
  BY <1>3, Holder, CallersAssumption, SessionNames DEF StartLock
<1>4. ASSUME NEW c \in Callers, StartCreate(c) PROVE Mutex'
  BY <1>4, Holder, CallersAssumption, SessionNames DEF StartCreate, FailStart
<1>5. ASSUME NEW c \in Callers, StartProfile(c) PROVE Mutex'
  BY <1>5, Holder, CallersAssumption, SessionNames DEF StartProfile, FailStart, ProfilerFree
<1>6. ASSUME NEW c \in Callers, StartListen(c) PROVE Mutex'
  BY <1>6, Holder, CallersAssumption, SessionNames DEF StartListen, Published, FailStart, StopCPUProfile, Holds
<1>7. ASSUME NEW c \in Callers, StopAdmitted(c) PROVE Mutex'
  BY <1>7, Holder, CallersAssumption, SessionNames DEF StopAdmitted, Called
<1>8. ASSUME NEW c \in Callers, StopRefused(c) PROVE Mutex'
  BY <1>8, Holder, CallersAssumption, SessionNames DEF StopRefused, Called
<1>9. ASSUME NEW c \in Callers, StopTake(c) PROVE Mutex'
  BY <1>9, Holder, CallersAssumption, SessionNames DEF StopTake
<1>10. ASSUME NEW c \in Callers, StopShutdown(c) PROVE Mutex'
  BY <1>10, Holder, CallersAssumption, SessionNames DEF StopShutdown, ShutDown
<1>11. ASSUME NEW c \in Callers, StopCpu(c) PROVE Mutex'
  BY <1>11, Holder, CallersAssumption, SessionNames DEF StopCpu, StopCPUProfile, Renamed, CpuDumpFailed
<1>12. ASSUME NEW c \in Callers, StopDump(c) PROVE Mutex'
  BY <1>12, Holder, CallersAssumption, SessionNames DEF StopDump
<1>13. ASSUME NEW s \in Sessions, Serve(s) \/ ServeDown(s) PROVE Mutex'
  BY <1>13, Holder DEF Serve, ServeDown, callerVars
<1>14. CASE Tick \/ UNCHANGED vars
  BY <1>14, Holder DEF Tick, vars, callerVars
<1> QED
  BY <1>1, <1>2, <1>3, <1>4, <1>5, <1>6, <1>7, <1>8, <1>9, <1>10, <1>11, <1>12, <1>13, <1>14 DEF Next, Start, Stop, Quiet

LEMMA IdentifiedStep == IInv /\ [Next]_vars => Identified'
<1> SUFFICES ASSUME IInv, [Next]_vars PROVE Identified'
  OBVIOUS
<1> USE DEF IInv, TypeOK, Goto, StartPcs, StopPcs, Identified
<1>1. ASSUME NEW c \in Callers, StartAdmitted(c) PROVE Identified'
  BY <1>1, Holder, CallersAssumption, SessionNames DEF StartAdmitted, Called
<1>2. ASSUME NEW c \in Callers, StartRefused(c) PROVE Identified'
  BY <1>2, Holder, CallersAssumption, SessionNames DEF StartRefused, Called
<1>3. ASSUME NEW c \in Callers, StartLock(c) PROVE Identified'
  BY <1>3, Holder, CallersAssumption, SessionNames DEF StartLock
<1>4. ASSUME NEW c \in Callers, StartCreate(c) PROVE Identified'
  BY <1>4, Holder, CallersAssumption, SessionNames DEF StartCreate, FailStart
<1>5. ASSUME NEW c \in Callers, StartProfile(c) PROVE Identified'
  BY <1>5, Holder, CallersAssumption, SessionNames DEF StartProfile, FailStart, ProfilerFree
<1>6. ASSUME NEW c \in Callers, StartListen(c) PROVE Identified'
  BY <1>6, Holder, CallersAssumption, SessionNames DEF StartListen, Published, FailStart, StopCPUProfile, Holds
<1>7. ASSUME NEW c \in Callers, StopAdmitted(c) PROVE Identified'
  BY <1>7, Holder, CallersAssumption, SessionNames DEF StopAdmitted, Called
<1>8. ASSUME NEW c \in Callers, StopRefused(c) PROVE Identified'
  BY <1>8, Holder, CallersAssumption, SessionNames DEF StopRefused, Called
<1>9. ASSUME NEW c \in Callers, StopTake(c) PROVE Identified'
  BY <1>9, Holder, CallersAssumption, SessionNames DEF StopTake
<1>10. ASSUME NEW c \in Callers, StopShutdown(c) PROVE Identified'
  BY <1>10, Holder, CallersAssumption, SessionNames DEF StopShutdown, ShutDown
<1>11. ASSUME NEW c \in Callers, StopCpu(c) PROVE Identified'
  BY <1>11, Holder, CallersAssumption, SessionNames DEF StopCpu, StopCPUProfile, Renamed, CpuDumpFailed
<1>12. ASSUME NEW c \in Callers, StopDump(c) PROVE Identified'
  BY <1>12, Holder, CallersAssumption, SessionNames DEF StopDump
<1>13. ASSUME NEW s \in Sessions, Serve(s) \/ ServeDown(s) PROVE Identified'
  BY <1>13, Holder DEF Serve, ServeDown, callerVars
<1>14. CASE Tick \/ UNCHANGED vars
  BY <1>14, Holder DEF Tick, vars, callerVars
<1> QED
  BY <1>1, <1>2, <1>3, <1>4, <1>5, <1>6, <1>7, <1>8, <1>9, <1>10, <1>11, <1>12, <1>13, <1>14 DEF Next, Start, Stop, Quiet

LEMMA ProfilerOwnerStep == IInv /\ [Next]_vars => ProfilerOwner'
<1> SUFFICES ASSUME IInv, [Next]_vars PROVE ProfilerOwner'
  OBVIOUS
<1> USE DEF IInv, TypeOK, Goto, StartPcs, StopPcs, ProfilerOwner, Arming, Stopping, Me, Critical
<1>1. ASSUME NEW c \in Callers, StartAdmitted(c) PROVE ProfilerOwner'
  BY <1>1, Holder, CallersAssumption, SessionNames DEF StartAdmitted, Called
<1>2. ASSUME NEW c \in Callers, StartRefused(c) PROVE ProfilerOwner'
  BY <1>2, Holder, CallersAssumption, SessionNames DEF StartRefused, Called
<1>3. ASSUME NEW c \in Callers, StartLock(c) PROVE ProfilerOwner'
  BY <1>3, Holder, CallersAssumption, SessionNames DEF StartLock
<1>4. ASSUME NEW c \in Callers, StartCreate(c) PROVE ProfilerOwner'
  BY <1>4, Holder, CallersAssumption, SessionNames DEF StartCreate, FailStart
<1>5. ASSUME NEW c \in Callers, StartProfile(c) PROVE ProfilerOwner'
  BY <1>5, Holder, CallersAssumption, SessionNames DEF StartProfile, FailStart, ProfilerFree
<1>6. ASSUME NEW c \in Callers, StartListen(c) PROVE ProfilerOwner'
  BY <1>6, Holder, CallersAssumption, SessionNames DEF StartListen, Published, FailStart, StopCPUProfile, Holds
<1>7. ASSUME NEW c \in Callers, StopAdmitted(c) PROVE ProfilerOwner'
  BY <1>7, Holder, CallersAssumption, SessionNames DEF StopAdmitted, Called
<1>8. ASSUME NEW c \in Callers, StopRefused(c) PROVE ProfilerOwner'
  BY <1>8, Holder, CallersAssumption, SessionNames DEF StopRefused, Called
<1>9. ASSUME NEW c \in Callers, StopTake(c) PROVE ProfilerOwner'
  BY <1>9, Holder, CallersAssumption, SessionNames DEF StopTake
<1>10. ASSUME NEW c \in Callers, StopShutdown(c) PROVE ProfilerOwner'
  BY <1>10, Holder, CallersAssumption, SessionNames DEF StopShutdown, ShutDown
<1>11. ASSUME NEW c \in Callers, StopCpu(c) PROVE ProfilerOwner'
  BY <1>11, Holder, CallersAssumption, SessionNames DEF StopCpu, StopCPUProfile, Renamed, CpuDumpFailed
<1>12. ASSUME NEW c \in Callers, StopDump(c) PROVE ProfilerOwner'
  BY <1>12, Holder, CallersAssumption, SessionNames DEF StopDump
<1>13. ASSUME NEW s \in Sessions, Serve(s) \/ ServeDown(s) PROVE ProfilerOwner'
  BY <1>13, Holder DEF Serve, ServeDown, callerVars
<1>14. CASE Tick \/ UNCHANGED vars
  BY <1>14, Holder DEF Tick, vars, callerVars
<1> QED
  BY <1>1, <1>2, <1>3, <1>4, <1>5, <1>6, <1>7, <1>8, <1>9, <1>10, <1>11, <1>12, <1>13, <1>14 DEF Next, Start, Stop, Quiet

LEMMA ListenerKnownStep == IInv /\ [Next]_vars => ListenerKnown'
<1> SUFFICES ASSUME IInv, [Next]_vars PROVE ListenerKnown'
  OBVIOUS
<1> USE DEF IInv, TypeOK, Goto, StartPcs, StopPcs, ListenerKnown, Critical, Me
<1>1. ASSUME NEW c \in Callers, StartAdmitted(c) PROVE ListenerKnown'
  BY <1>1, Holder, CallersAssumption, SessionNames DEF StartAdmitted, Called
<1>2. ASSUME NEW c \in Callers, StartRefused(c) PROVE ListenerKnown'
  BY <1>2, Holder, CallersAssumption, SessionNames DEF StartRefused, Called
<1>3. ASSUME NEW c \in Callers, StartLock(c) PROVE ListenerKnown'
  BY <1>3, Holder, CallersAssumption, SessionNames DEF StartLock
<1>4. ASSUME NEW c \in Callers, StartCreate(c) PROVE ListenerKnown'
  BY <1>4, Holder, CallersAssumption, SessionNames DEF StartCreate, FailStart
<1>5. ASSUME NEW c \in Callers, StartProfile(c) PROVE ListenerKnown'
  BY <1>5, Holder, CallersAssumption, SessionNames DEF StartProfile, FailStart, ProfilerFree
<1>6. ASSUME NEW c \in Callers, StartListen(c) PROVE ListenerKnown'
  BY <1>6, Holder, CallersAssumption, SessionNames DEF StartListen, Published, FailStart, StopCPUProfile, Holds
<1>7. ASSUME NEW c \in Callers, StopAdmitted(c) PROVE ListenerKnown'
  BY <1>7, Holder, CallersAssumption, SessionNames DEF StopAdmitted, Called
<1>8. ASSUME NEW c \in Callers, StopRefused(c) PROVE ListenerKnown'
  BY <1>8, Holder, CallersAssumption, SessionNames DEF StopRefused, Called
<1>9. ASSUME NEW c \in Callers, StopTake(c) PROVE ListenerKnown'
  BY <1>9, Holder, CallersAssumption, SessionNames DEF StopTake
<1>10. ASSUME NEW c \in Callers, StopShutdown(c) PROVE ListenerKnown'
  BY <1>10, Holder, CallersAssumption, SessionNames DEF StopShutdown, ShutDown
<1>11. ASSUME NEW c \in Callers, StopCpu(c) PROVE ListenerKnown'
  BY <1>11, Holder, CallersAssumption, SessionNames DEF StopCpu, StopCPUProfile, Renamed, CpuDumpFailed
<1>12. ASSUME NEW c \in Callers, StopDump(c) PROVE ListenerKnown'
  BY <1>12, Holder, CallersAssumption, SessionNames DEF StopDump
<1>13. ASSUME NEW s \in Sessions, Serve(s) \/ ServeDown(s) PROVE ListenerKnown'
  BY <1>13, Holder DEF Serve, ServeDown, callerVars
<1>14. CASE Tick \/ UNCHANGED vars
  BY <1>14, Holder DEF Tick, vars, callerVars
<1> QED
  BY <1>1, <1>2, <1>3, <1>4, <1>5, <1>6, <1>7, <1>8, <1>9, <1>10, <1>11, <1>12, <1>13, <1>14 DEF Next, Start, Stop, Quiet

LEMMA IInvStep == IInv /\ [Next]_vars => IInv'
BY TypeStep, MutexStep, IdentifiedStep, ProfilerOwnerStep, ListenerKnownStep DEF IInv

LEMMA Invariance == Spec => []IInv
BY InitIInv, IInvStep, PTL DEF Spec

-----------------------------------------------------------------------------
\* The state is "dumping" only while a Stop is under way.
Dumping == state = "dumping" => \E c \in Callers : pc[c] \in StopPcs

LEMMA InitDumping == Init => Dumping
BY DEF Init, Dumping

LEMMA DumpingStep == IInv /\ Dumping /\ [Next]_vars => Dumping'
<1> SUFFICES ASSUME IInv, Dumping, [Next]_vars PROVE Dumping'
  OBVIOUS
<1> USE DEF IInv, TypeOK, Goto, StartPcs, StopPcs, Dumping
<1>1. ASSUME NEW c \in Callers, Start(c) PROVE Dumping'
  BY <1>1 DEF Start, StartAdmitted, StartRefused, StartLock, StartCreate, StartProfile,
              StartListen, Published, FailStart, Called
<1>2. ASSUME NEW c \in Callers, Stop(c) PROVE Dumping'
  BY <1>2 DEF Stop, StopAdmitted, StopRefused, StopTake, StopShutdown, StopCpu, StopDump, Called
<1>3. ASSUME NEW s \in Sessions, Serve(s) \/ ServeDown(s) PROVE Dumping'
  BY <1>3 DEF Serve, ServeDown, callerVars
<1>4. CASE Tick \/ UNCHANGED vars
  BY <1>4 DEF Tick, vars, callerVars
<1> QED
  BY <1>1, <1>2, <1>3, <1>4 DEF Next, Quiet

-----------------------------------------------------------------------------
(***************************************************************************)
(* Every variable keeps its type, whatever callers, calls and clock.       *)
(***************************************************************************)
THEOREM TypeCorrect == Spec => []TypeOK
<1>1. IInv => TypeOK
  BY DEF IInv
<1> QED
  BY <1>1, Invariance, PTL

(***************************************************************************)
(* However many callers race between the compare-and-swap and the lock,    *)
(* the process-wide CPU profiler is never left on without an owner, and a  *)
(* session in the manager's fields is the one being profiled.              *)
(***************************************************************************)
THEOREM CaptureNeverOrphaned == Spec => []CaptureOwned
<1>1. IInv => CaptureOwned
  BY Holder DEF IInv, ProfilerOwner, Arming, Stopping, CaptureOwned, InHand, Critical, StartPcs, StopPcs
<1> QED
  BY <1>1, Invariance, PTL

(***************************************************************************)
(* Nor is a server left listening that the manager has forgotten.          *)
(***************************************************************************)
THEOREM ListenerNeverOrphaned == Spec => []ListenerOwned
<1>1. IInv => ListenerOwned
  BY DEF IInv, ListenerKnown, ListenerOwned, InHand
<1> QED
  BY <1>1, Invariance, PTL

-----------------------------------------------------------------------------
\* Callers that do not overtake each other.
LEMMA InitInTurn == Init => InTurn
BY DEF Init, InTurn

LEMMA InTurnStep ==
    ASSUME StopMayOvertakeStart = FALSE
    PROVE  IInv /\ InTurn /\ [Next]_vars => InTurn'
<1> SUFFICES ASSUME IInv, InTurn, [Next]_vars PROVE InTurn'
  OBVIOUS
<1> USE DEF IInv, TypeOK, Goto, StartPcs, StopPcs, InTurn
<1>1. ASSUME NEW c \in Callers, StartAdmitted(c) PROVE InTurn'
  BY <1>1, SessionNames DEF StartAdmitted, Called
<1>2. ASSUME NEW c \in Callers, StartRefused(c) PROVE InTurn'
  BY <1>2, SessionNames DEF StartRefused, Called
<1>3. ASSUME NEW c \in Callers, StartLock(c) PROVE InTurn'
  BY <1>3, SessionNames DEF StartLock
<1>4. ASSUME NEW c \in Callers, StartCreate(c) PROVE InTurn'
  BY <1>4, SessionNames DEF StartCreate, FailStart
<1>5. ASSUME NEW c \in Callers, StartProfile(c) PROVE InTurn'
  BY <1>5, SessionNames DEF StartProfile, FailStart, ProfilerFree
<1>6. ASSUME NEW c \in Callers, StartListen(c) PROVE InTurn'
  BY <1>6, SessionNames DEF StartListen, Published, FailStart, StopCPUProfile, Holds
<1>7. ASSUME NEW c \in Callers, StopAdmitted(c) PROVE InTurn'
  BY <1>7, SessionNames DEF StopAdmitted, Called, Starting
<1>8. ASSUME NEW c \in Callers, StopRefused(c) PROVE InTurn'
  BY <1>8, SessionNames DEF StopRefused, Called
<1>9. ASSUME NEW c \in Callers, StopTake(c) PROVE InTurn'
  BY <1>9, SessionNames DEF StopTake
<1>10. ASSUME NEW c \in Callers, StopShutdown(c) PROVE InTurn'
  BY <1>10, SessionNames DEF StopShutdown, ShutDown
<1>11. ASSUME NEW c \in Callers, StopCpu(c) PROVE InTurn'
  BY <1>11, SessionNames DEF StopCpu, StopCPUProfile, Renamed, CpuDumpFailed
<1>12. ASSUME NEW c \in Callers, StopDump(c) PROVE InTurn'
  <2>1. mu = c /\ session = NoSession
    BY <1>12, Holder, CallersAssumption DEF StopDump, ProfilerOwner, Critical
  <2> QED
    BY <1>12, <2>1 DEF StopDump
<1>13. ASSUME NEW s \in Sessions, Serve(s) \/ ServeDown(s) PROVE InTurn'
  BY <1>13 DEF Serve, ServeDown, callerVars
<1>14. CASE Tick \/ UNCHANGED vars
  BY <1>14 DEF Tick, vars, callerVars
<1> QED
  BY <1>1, <1>2, <1>3, <1>4, <1>5, <1>6, <1>7, <1>8, <1>9, <1>10, <1>11, <1>12, <1>13, <1>14 DEF Next, Start, Stop, Quiet

(***************************************************************************)
(* Without overtaking, a manager whose state says "stopped" has released   *)
(* the session, the profiler and every listener.  (With overtaking this is *)
(* false: run pprof_overtaken.)                                            *)
(***************************************************************************)
THEOREM StoppedIsReleased ==
    ASSUME StopMayOvertakeStart = FALSE
    PROVE  Spec => []StoppedMeansReleased
<1>1. IInv /\ InTurn => StoppedMeansReleased
  BY SessionAssumption
  DEF IInv, InTurn, ProfilerOwner, Arming, Stopping, ListenerKnown, StoppedMeansReleased
<1>2. IInv /\ InTurn /\ [Next]_vars => InTurn'
  BY InTurnStep
<1> QED
  BY <1>1, <1>2, InitInTurn, Invariance, PTL DEF Spec

\* Each step of the code against the actions of PprofLifecycle.
LEMMA LifecycleStep ==
    ASSUME StopMayOvertakeStart = FALSE
    PROVE  IInv /\ InTurn /\ IInv' /\ [Next]_vars
               => [Lifecycle!LifecycleNext]_Lifecycle!lifecycleVars
<1> SUFFICES ASSUME IInv, InTurn, IInv', [Next]_vars
             PROVE  [Lifecycle!LifecycleNext]_Lifecycle!lifecycleVars
  OBVIOUS
<1> USE DEF IInv, TypeOK, Goto, StartPcs, StopPcs, Critical, InTurn,
            ProfilerOwner, Arming, Stopping, Lifecycle!LifecycleNext, Lifecycle!lifecycleVars
<1>1. ASSUME NEW c \in Callers, StartAdmitted(c)
      PROVE  [Lifecycle!LifecycleNext]_Lifecycle!lifecycleVars
  BY <1>1, Holder, CallersAssumption, SessionNames
  DEF StartAdmitted, Called, Lifecycle!BeginStart
<1>2. ASSUME NEW c \in Callers, StartRefused(c)
      PROVE  [Lifecycle!LifecycleNext]_Lifecycle!lifecycleVars
  BY <1>2, Holder, CallersAssumption, SessionNames
  DEF StartRefused, Called
<1>3. ASSUME NEW c \in Callers, StartLock(c)
      PROVE  [Lifecycle!LifecycleNext]_Lifecycle!lifecycleVars
  BY <1>3, Holder, CallersAssumption, SessionNames
  DEF StartLock
<1>4. ASSUME NEW c \in Callers, StartCreate(c)
      PROVE  [Lifecycle!LifecycleNext]_Lifecycle!lifecycleVars
  BY <1>4, Holder, CallersAssumption, SessionNames
  DEF StartCreate, FailStart, Lifecycle!GiveUp
<1>5. ASSUME NEW c \in Callers, StartProfile(c)
      PROVE  [Lifecycle!LifecycleNext]_Lifecycle!lifecycleVars
  BY <1>5, Holder, CallersAssumption, SessionNames
  DEF StartProfile, FailStart, ProfilerFree, Lifecycle!Arm, Lifecycle!GiveUp
<1>6. ASSUME NEW c \in Callers, StartListen(c)
      PROVE  [Lifecycle!LifecycleNext]_Lifecycle!lifecycleVars
  BY <1>6, Holder, CallersAssumption, SessionNames
  DEF StartListen, Published, FailStart, StopCPUProfile, Holds, Lifecycle!Open, Lifecycle!GiveUp
<1>7. ASSUME NEW c \in Callers, StopAdmitted(c)
      PROVE  [Lifecycle!LifecycleNext]_Lifecycle!lifecycleVars
  <2>1. \A d \in Callers : pc[d] = "idle"
    BY <1>7 DEF StopAdmitted, Starting
  <2>2. mu = NoCaller /\ session # NoSession
    BY <1>7, <2>1, Holder DEF StopAdmitted
  <2> QED
    BY <1>7, <2>1, <2>2
    DEF StopAdmitted, Lifecycle!BeginStop
<1>8. ASSUME NEW c \in Callers, StopRefused(c)
      PROVE  [Lifecycle!LifecycleNext]_Lifecycle!lifecycleVars
  BY <1>8, Holder, CallersAssumption, SessionNames
  DEF StopRefused, Called
<1>9. ASSUME NEW c \in Callers, StopTake(c)
      PROVE  [Lifecycle!LifecycleNext]_Lifecycle!lifecycleVars
  BY <1>9, Holder, CallersAssumption, SessionNames
  DEF StopTake
<1>10. ASSUME NEW c \in Callers, StopShutdown(c)
      PROVE  [Lifecycle!LifecycleNext]_Lifecycle!lifecycleVars
  BY <1>10, Holder, CallersAssumption, SessionNames
  DEF StopShutdown, ShutDown
<1>11. ASSUME NEW c \in Callers, StopCpu(c)
      PROVE  [Lifecycle!LifecycleNext]_Lifecycle!lifecycleVars
  BY <1>11, Holder, CallersAssumption, SessionNames
  DEF StopCpu, StopCPUProfile, Lifecycle!Release
<1>12. ASSUME NEW c \in Callers, StopDump(c)
      PROVE  [Lifecycle!LifecycleNext]_Lifecycle!lifecycleVars
  BY <1>12, Holder, CallersAssumption, SessionNames
  DEF StopDump, Lifecycle!FinishStop
<1>13. ASSUME NEW s \in Sessions, Serve(s) \/ ServeDown(s)
       PROVE  [Lifecycle!LifecycleNext]_Lifecycle!lifecycleVars
  BY <1>13 DEF Serve, ServeDown, callerVars
<1>14. CASE Tick \/ UNCHANGED vars
  BY <1>14 DEF Tick, vars, callerVars
<1> QED
  BY <1>1, <1>2, <1>3, <1>4, <1>5, <1>6, <1>7, <1>8, <1>9, <1>10, <1>11, <1>12, <1>13, <1>14 DEF Next, Start, Stop, Quiet

(***************************************************************************)
(* Every step of the code is a step of the documented state machine, the   *)
(* safety half of ImplementsLifecycle: Start is admitted only in "stopped" *)
(* with nothing on, the profiler is switched on once per session, and Stop *)
(* releases it before it reports "stopped".                                *)
(***************************************************************************)
THEOREM LifecycleSafety ==
    ASSUME StopMayOvertakeStart = FALSE
    PROVE  Spec => Lifecycle!SafeSpec
<1>1. Init => Lifecycle!LifecycleInit
  BY DEF Init, Lifecycle!LifecycleInit
<1>2. IInv /\ InTurn /\ [Next]_vars => InTurn'
  BY InTurnStep
<1> QED
  <2>1. IInv /\ InTurn /\ IInv' /\ [Next]_vars
            => [Lifecycle!LifecycleNext]_Lifecycle!lifecycleVars
    BY LifecycleStep
  <2> QED
    BY <1>1, <1>2, <2>1, InitInTurn, Invariance, PTL DEF Spec, Lifecycle!SafeSpec
=============================================================================
