------------------------- MODULE PprofFilesProofs -------------------------
(***************************************************************************)
(* Proofs about the dump directory of DynamicPprof: which session the data *)
(* of a file belongs to, and which profiles are left in temporary files.   *)
(***************************************************************************)
EXTENDS DynamicPprofProofs, FiniteSetTheorems

Tmp(s) == <<began[s], "tmp">>
At(pcs) == mu # NoCaller /\ pc[mu] \in pcs

\* The name of a Start that has not created its file yet is not in use.
UsedNames ==
    {s \in Sessions : LET c == s[1] IN
        s[2] <= calls[c] /\ (pc[c] \in {"start_lock", "start_create"} => s # Me(c))}
NamesUsed ==
    /\ session \in UsedNames \cup {NoSession}
    /\ taken \in [Callers -> UsedNames \cup {NoSession}]

\* A file carries the second at which the session it belongs to began.
FilesNamed ==
    \A f \in Files : disk[f] \in Sessions => disk[f] \in UsedNames /\ began[disk[f]] = f[1]

\* The temporary profile of a live session is its own, or is lost: a later
\* Start within the same second has truncated it, failed, and removed it, or
\* not even that.
Own(s) == disk[Tmp(s)] \in {s, Absent, NoSession}
TmpKept ==
    /\ session # NoSession =>
        Own(session) \/ (At({"start_profile"}) /\ disk[Tmp(session)] = Me(mu))
    /\ At({"start_profile", "start_listen"}) => disk[Tmp(Me(mu))] = Me(mu)
    /\ At({"stop_shutdown", "stop_cpu"}) => Own(taken[mu])

\* What a Stop knows of its CPU profile when it comes to the other two.
CpuReported ==
    \A c \in Callers :
        /\ pc[c] \in {"stop_lock", "stop_shutdown", "stop_cpu"} => reply[c].files = {}
        /\ pc[c] = "stop_dump" /\ taken[c] # NoSession =>
            /\ reply[c].files \subseteq {"cpu"}
            /\ ~reply[c].err => reply[c].files = {"cpu"}
            /\ "cpu" \in reply[c].files => Listed(taken[c], "cpu")

\* Profiles in temporary files nobody will touch again.
Live(s) ==
    \/ s = session
    \/ At({"start_profile", "start_listen"}) /\ s = Me(mu)
    \/ At({"stop_shutdown", "stop_cpu"}) /\ s = taken[mu]
Left == {t \in 1 .. MaxTime : disk[<<t, "tmp">>] \in Sessions /\ ~Live(disk[<<t, "tmp">>])}
LeftCounted == Cardinality(Left) <= dumpFailures["cpu"]

FilesInv == IInv /\ NamesUsed /\ FilesNamed /\ TmpKept /\ CpuReported /\ LeftCounted

-----------------------------------------------------------------------------
LEMMA Names ==
    ASSUME NEW s \in Sessions
    PROVE  s[1] \in Callers /\ s[2] \in 1 .. MaxCalls /\ s = <<s[1], s[2]>> /\ s # NoSession /\ s # Absent
BY SessionAssumption DEF Sessions

LEMMA InitFilesInv == Init => FilesInv
<1> SUFFICES ASSUME Init PROVE FilesInv
  OBVIOUS
<1>1. NamesUsed /\ FilesNamed /\ TmpKept /\ CpuReported
  BY SessionAssumption
  DEF Init, Files, ZeroTime, NamesUsed, FilesNamed, TmpKept, At, CpuReported
<1>2. LeftCounted
  <2>1. Left = {}
    BY SessionAssumption DEF Init, Left, Files, ZeroTime
  <2>2. dumpFailures["cpu"] = 0
    BY DEF Init, Dumped
  <2> QED
    BY <2>1, <2>2, FS_EmptySet DEF LeftCounted
<1> QED
  BY <1>1, <1>2, InitIInv DEF FilesInv

\* The steps of the calls; no other step touches the manager but its socket.
LEMMA Calls ==
    [Next]_vars =>
        \/ \E c \in Callers : StartAdmitted(c) \/ StartRefused(c) \/ StartLock(c) \/ StartCreate(c)
                              \/ StartProfile(c) \/ StartListen(c)
        \/ \E c \in Callers : StopAdmitted(c) \/ StopRefused(c) \/ StopTake(c) \/ StopShutdown(c)
                              \/ StopCpu(c) \/ StopDump(c)
        \/ UNCHANGED <<state, mu, session, cpu, began, disk, dumpFailures, callerVars>>
BY DEF Next, Start, Stop, Quiet, Serve, ServeDown, Tick, vars

LEMMA UsedStep == IInv /\ [Next]_vars => UsedNames \subseteq UsedNames'
<1> SUFFICES ASSUME IInv, [Next]_vars, NEW s \in Sessions, s \in UsedNames PROVE s \in UsedNames'
  BY DEF UsedNames
<1> USE DEF IInv, TypeOK, Goto, UsedNames, Me, Called, StartPcs, StopPcs
<1>0. s[1] \in Callers /\ s[2] \in 1 .. MaxCalls /\ s = <<s[1], s[2]>> /\ MaxCalls \in Nat
  BY Names, BoundsAssumption
<1>1. ASSUME NEW c \in Callers, StartAdmitted(c) PROVE s \in UsedNames'
  BY <1>0, <1>1 DEF StartAdmitted
<1>2. ASSUME NEW c \in Callers, StartRefused(c) \/ StopAdmitted(c) \/ StopRefused(c)
      PROVE  s \in UsedNames'
  BY <1>0, <1>2 DEF StartRefused, StopAdmitted, StopRefused
<1>3. ASSUME NEW c \in Callers, StartLock(c) \/ StartCreate(c) \/ StartProfile(c) \/ StartListen(c)
      PROVE s \in UsedNames'
  BY <1>0, <1>3 DEF StartLock, StartCreate, StartProfile, StartListen, Published, FailStart
<1>4. ASSUME NEW c \in Callers, StopTake(c) \/ StopShutdown(c) \/ StopCpu(c) \/ StopDump(c)
      PROVE  s \in UsedNames'
  BY <1>0, <1>4 DEF StopTake, StopShutdown, StopCpu, StopDump
<1>5. CASE UNCHANGED callerVars
  BY <1>5 DEF callerVars
<1> QED
  BY <1>1, <1>2, <1>3, <1>4, <1>5, Calls

LEMMA NamesUsedStep == IInv /\ NamesUsed /\ [Next]_vars => NamesUsed'
<1> SUFFICES ASSUME IInv, NamesUsed, [Next]_vars PROVE NamesUsed'
  OBVIOUS
<1>1. ASSUME NEW c \in Callers, pc[c] = "start_listen", Published(c), UNCHANGED calls
      PROVE  session' \in UsedNames'
  <2>1. Me(c) \in Sessions /\ session' = Me(c)
    BY <1>1, SessionNames DEF Published
  <2> QED
    BY <1>1, <2>1 DEF IInv, TypeOK, Published, UsedNames, Me, Goto
<1>2. session' \in {session, NoSession} \cup UsedNames'
  BY <1>1, Calls
  DEF StartAdmitted, StartRefused, StartLock, StartCreate, StartProfile, StartListen, StopAdmitted,
      StopRefused, StopTake, StopShutdown, StopCpu, StopDump
<1>3. UNCHANGED taken \/ \E c \in Callers : taken' = [taken EXCEPT ![c] = session]
  BY Calls
  DEF StartAdmitted, StartRefused, StartLock, StartCreate, StartProfile, StartListen, StopAdmitted,
      StopRefused, StopTake, StopShutdown, StopCpu, StopDump, callerVars
<1> QED
  BY <1>2, <1>3, UsedStep DEF NamesUsed

\* Only these steps touch the directory, with the mutex held.
LEMMA DirectorySteps ==
    [Next]_vars =>
        \/ UNCHANGED <<disk, began>>
        \/ \E c \in Callers : StartCreate(c) \/ StartProfile(c) \/ StartListen(c) \/ StopCpu(c) \/ StopDump(c)
BY Calls
DEF StartAdmitted, StartRefused, StartLock, StopAdmitted, StopRefused, StopTake, StopShutdown

LEMMA FileNames ==
    ASSUME TypeOK
    PROVE  /\ <<now, "tmp">> \in Files
           /\ \A s \in Sessions : Tmp(s) \in Files /\ <<began[s], "cpu">> \in Files
           /\ \A f \in Files : disk[f] \in Sessions \cup {NoSession, Absent}
BY BoundsAssumption DEF TypeOK, Files, Tmp, Dumped, ZeroTime

LEMMA FilesNamedStep == IInv /\ NamesUsed /\ FilesNamed /\ [Next]_vars => FilesNamed'
<1> SUFFICES ASSUME IInv, NamesUsed, FilesNamed, [Next]_vars,
                    NEW f \in Files, disk'[f] \in Sessions
             PROVE  disk'[f] \in UsedNames' /\ began'[disk'[f]] = f[1]
  BY DEF FilesNamed
<1>0. /\ disk \in [Files -> Sessions \cup {NoSession, Absent}] /\ began \in [Sessions -> ZeroTime .. MaxTime]
      /\ pc \in [Callers -> {"idle"} \cup StartPcs \cup StopPcs] /\ TypeOK
      /\ UsedNames \subseteq UsedNames' /\ UsedNames \subseteq Sessions
      /\ NoSession \notin Sessions /\ Absent \notin Sessions
  BY UsedStep, SessionAssumption DEF IInv, TypeOK, UsedNames
<1>a. disk[f] \in Sessions => disk[f] \in UsedNames /\ began[disk[f]] = f[1]
  BY DEF FilesNamed
<1>1. CASE UNCHANGED <<disk, began>>
  BY <1>0, <1>1, <1>a
<1>2. ASSUME NEW c \in Callers, StartCreate(c)
      PROVE  disk'[f] \in UsedNames' /\ began'[disk'[f]] = f[1]
  <2>1. Me(c) \in Sessions /\ Me(c) \notin UsedNames
    BY <1>2, SessionNames DEF StartCreate, UsedNames, Me
  <2>2. CASE /\ began' = [began EXCEPT ![Me(c)] = now]
             /\ disk' = [disk EXCEPT ![<<now, "tmp">>] = Me(c)]
             /\ Goto(c, "start_profile")
    <3>1. Me(c) \in UsedNames'
      BY <1>0, <1>2, <2>1, <2>2, BoundsAssumption DEF StartCreate, UsedNames, Me, Goto, IInv, TypeOK
    <3>2. CASE f = <<now, "tmp">>
      BY <1>0, <2>1, <2>2, <3>1, <3>2
    <3>3. CASE f # <<now, "tmp">>
      BY <1>0, <1>a, <2>1, <2>2, <3>3
    <3> QED
      BY <3>2, <3>3
  <2>3. CASE UNCHANGED <<began, disk>>
    BY <1>1, <2>3
  <2> QED
    BY <1>2, <2>2, <2>3 DEF StartCreate
<1>3. ASSUME NEW c \in Callers, StartProfile(c) \/ StartListen(c)
      PROVE  disk'[f] \in UsedNames' /\ began'[disk'[f]] = f[1]
  <2>1. began' = began /\ (disk' = disk \/ UndoCreate(c))
    BY <1>3 DEF StartProfile, StartListen, Published
  <2>2. session \in UsedNames \cup {NoSession} /\ Me(c) \in Sessions
    BY <1>3, SessionNames DEF NamesUsed, StartProfile, StartListen
  <2>3. disk'[f] \in {disk[f], Absent, NoSession} \/ (disk'[f] = session /\ began[session] = f[1] /\ session # NoSession)
    BY <1>0, <2>1 DEF UndoCreate
  <2> QED
    BY <1>0, <1>a, <2>1, <2>2, <2>3
<1>4. ASSUME NEW c \in Callers, StopCpu(c) PROVE disk'[f] \in UsedNames' /\ began'[disk'[f]] = f[1]
  <2>1. CASE Renamed(c)
    <3>1. taken[c] \in Sessions /\ Tmp(taken[c]) \in Files
      BY <1>0, <1>4, FileNames DEF StopCpu, IInv, Identified, TypeOK
    <3>2. disk' = [disk EXCEPT ![<<began[taken[c]], "cpu">>] = disk[Tmp(taken[c])], ![Tmp(taken[c])] = Absent]
      BY <2>1 DEF Renamed, Tmp
    <3>3. CASE f = <<began[taken[c]], "cpu">>
      <4>1. disk'[f] = disk[Tmp(taken[c])] /\ f[1] = began[taken[c]]
        BY <1>0, <3>1, <3>2, <3>3 DEF Tmp
      <4>2. disk'[f] \in UsedNames /\ began[disk'[f]] = Tmp(taken[c])[1]
        BY <3>1, <4>1 DEF FilesNamed
      <4> QED
        BY <1>0, <1>4, <4>1, <4>2 DEF StopCpu, Tmp
    <3>4. CASE f # <<began[taken[c]], "cpu">>
      <4>1. disk'[f] \in {disk[f], Absent}
        BY <1>0, <3>1, <3>2, <3>4
      <4> QED
        BY <1>0, <1>4, <1>a, <4>1 DEF StopCpu
    <3> QED
      BY <3>3, <3>4
  <2>2. CASE CpuDumpFailed(c)
    BY <1>1, <1>4, <2>2 DEF StopCpu, CpuDumpFailed
  <2> QED
    BY <1>4, <2>1, <2>2 DEF StopCpu
<1>5. ASSUME NEW c \in Callers, StopDump(c) PROVE disk'[f] \in UsedNames' /\ began'[disk'[f]] = f[1]
  <2>1. \/ disk'[f] \in {disk[f], Absent, NoSession}
        \/ disk'[f] = taken[c] /\ f[1] = StartedAt(taken[c])
    BY <1>5 DEF StopDump, DiskAfter
  <2>2. taken[c] \in UsedNames \cup {NoSession}
    BY DEF NamesUsed
  <2> QED
    BY <1>0, <1>5, <1>a, <2>1, <2>2 DEF StopDump, StartedAt
<1> QED
  BY <1>1, <1>2, <1>3, <1>4, <1>5, DirectorySteps

-----------------------------------------------------------------------------
\* Steps that neither touch the directory nor take the session out.
Aside(c) ==
    StartAdmitted(c) \/ StartRefused(c) \/ StartLock(c) \/ StopAdmitted(c) \/ StopRefused(c) \/ StopShutdown(c)

LEMMA Steps ==
    [Next]_vars =>
        \/ \E c \in Callers : \/ Aside(c) \/ StartCreate(c) \/ StartProfile(c) \/ StartListen(c)
                              \/ StopTake(c) \/ StopCpu(c) \/ StopDump(c)
        \/ UNCHANGED <<state, mu, session, cpu, began, disk, dumpFailures, callerVars>>
BY Calls DEF Aside

LEMMA AsideFrame ==
    ASSUME IInv, NEW c \in Callers, Aside(c)
    PROVE  /\ UNCHANGED <<session, began, disk, dumpFailures, taken>>
           /\ \A d \in Callers : d # c => pc'[d] = pc[d] /\ calls'[d] = calls[d] /\ reply'[d] = reply[d]
           /\ \/ pc[c] \notin Critical /\ UNCHANGED mu /\ mu # c /\ pc'[c] \notin Critical
              \/ mu = NoCaller /\ mu' = c /\ pc'[c] = "start_create" /\ calls'[c] = calls[c]
              \/ mu = c /\ mu' = c /\ pc[c] = "stop_shutdown" /\ pc'[c] = "stop_cpu" /\ calls'[c] = calls[c]
           /\ reply'[c].files \in {{}, reply[c].files}
           /\ pc'[c] = "stop_lock" => reply'[c].files = {}
<1> USE DEF IInv, TypeOK, Goto, Called, StartPcs, StopPcs, Critical
<1>0. ASSUME Called(c)
      PROVE  /\ reply'[c].files = {} /\ \A d \in Callers : d # c => reply'[d] = reply[d] /\ calls'[d] = calls[d]
             /\ pc[c] = "idle" /\ mu # c
  <2>1. reply' = [reply EXCEPT ![c] = Fresh] /\ Fresh.files = {}
    BY <1>0 DEF Fresh
  <2> QED
    BY <1>0, <2>1, Holder, CallersAssumption
<1>1. CASE StartAdmitted(c) \/ StopAdmitted(c)
  BY <1>0, <1>1 DEF StartAdmitted, StopAdmitted
<1>2. CASE StartRefused(c) \/ StopRefused(c)
  BY <1>0, <1>2 DEF StartRefused, StopRefused
<1>3. CASE StartLock(c)
  BY <1>3, Holder DEF StartLock
<1>4. CASE StopShutdown(c)
  <2>1. \E b \in BOOLEAN : reply' = [reply EXCEPT ![c].err = b]
    BY <1>4 DEF StopShutdown
  <2>2. reply'[c].files = reply[c].files /\ \A d \in Callers : d # c => reply'[d] = reply[d]
    BY <2>1 DEF Replies
  <2> QED
    BY <1>4, <2>2, Holder DEF StopShutdown
<1> QED
  BY <1>1, <1>2, <1>3, <1>4 DEF Aside

LEMMA MutexTypes ==
    ASSUME IInv
    PROVE  /\ mu \in Callers \cup {NoCaller} /\ NoCaller \notin Callers
           /\ pc \in [Callers -> {"idle"} \cup StartPcs \cup StopPcs]
           /\ session \in Sessions \cup {NoSession} /\ NoSession \notin Sessions
           /\ taken \in [Callers -> Sessions \cup {NoSession}]
BY CallersAssumption, SessionAssumption DEF IInv, TypeOK

LEMMA TmpKeptStep == IInv /\ NamesUsed /\ FilesNamed /\ TmpKept /\ [Next]_vars => TmpKept'
<1> SUFFICES ASSUME IInv, NamesUsed, FilesNamed, TmpKept, [Next]_vars PROVE TmpKept'
  OBVIOUS
<1> USE MutexTypes DEF TmpKept, At, Own, Tmp, Critical, StartPcs, StopPcs
<1>1. ASSUME NEW c \in Callers, Aside(c) PROVE TmpKept'
  <2>1. CASE pc[c] \notin Critical /\ UNCHANGED mu /\ mu # c /\ pc'[c] \notin Critical
    BY <1>1, <2>1, AsideFrame DEF Me
  <2>2. CASE mu = NoCaller /\ mu' = c /\ pc'[c] = "start_create"
    BY <1>1, <2>2, AsideFrame DEF Me
  <2>3. CASE mu = c /\ mu' = c /\ pc[c] = "stop_shutdown" /\ pc'[c] = "stop_cpu"
    BY <1>1, <2>3, AsideFrame DEF Me
  <2> QED
    BY <1>1, <2>1, <2>2, <2>3, AsideFrame
<1>2. ASSUME NEW c \in Callers, StartCreate(c) PROVE TmpKept'
  <2>1. pc[c] = "start_create" /\ mu = c /\ UNCHANGED <<session, taken, calls>>
    BY <1>2, Holder DEF StartCreate
  <2>2. Me(c) \in Sessions /\ Me(c) # session
    BY <2>1, SessionNames DEF UsedNames, NamesUsed, Me
  <2>3. CASE /\ began' = [began EXCEPT ![Me(c)] = now]
             /\ disk' = [disk EXCEPT ![<<now, "tmp">>] = Me(c)]
             /\ Goto(c, "start_profile") /\ UNCHANGED mu
    <3>1. pc'[mu'] = "start_profile" /\ mu' = c /\ Me(c)' = Me(c)
      BY <2>1, <2>3 DEF Goto, Me
    <3>2. began'[Me(c)] = now /\ disk'[<<now, "tmp">>] = Me(c)
      BY <2>2, <2>3, FileNames DEF IInv, TypeOK
    <3>3. session # NoSession => began'[session] = began[session] /\ <<began[session], "tmp">> \in Files
      BY <2>2, <2>3, FileNames DEF IInv, TypeOK
    <3>4. \A f \in Files : f # <<now, "tmp">> => disk'[f] = disk[f]
      BY <2>3 DEF IInv, TypeOK
    <3> QED
      BY <2>1, <3>1, <3>2, <3>3, <3>4
  <2>4. CASE UNCHANGED <<disk, began>> /\ mu' = NoCaller
    BY <2>1, <2>4
  <2> QED
    BY <1>2, <2>3, <2>4 DEF StartCreate, FailStart
<1>3. ASSUME NEW c \in Callers, StartProfile(c) PROVE TmpKept'
  <2>1. pc[c] = "start_profile" /\ mu = c /\ UNCHANGED <<session, taken, calls, began>> /\ Me(c)' = Me(c)
    BY <1>3, Holder DEF StartProfile, Me
  <2>2. Me(c) \in Sessions
    BY <2>1, SessionNames
  <2>3. CASE ProfilerFree /\ Goto(c, "start_listen") /\ UNCHANGED <<mu, disk>>
    <3>1. session = NoSession
      BY <2>1, <2>3 DEF ProfilerFree, IInv, ProfilerOwner, Arming, Stopping
    <3> QED
      BY <2>1, <2>3, <3>1 DEF Goto
  <2>4. CASE UndoCreate(c) /\ mu' = NoCaller
    <3>1. /\ \A f \in Files : f # <<began[Me(c)], "tmp">> => disk'[f] = disk[f]
          /\ disk'[Tmp(Me(c))] \in {Absent, NoSession, session}
      <4>1. Tmp(Me(c)) \in Files
        BY <2>2, FileNames DEF IInv
      <4> QED
        BY <2>4, <4>1 DEF UndoCreate, IInv, TypeOK
    <3>2. session # NoSession => <<began[session], "tmp">> \in Files
      BY FileNames DEF IInv
    <3>3. session # NoSession /\ disk[<<began[session], "tmp">>] = Me(c) => began[Me(c)] = began[session]
      BY <2>2, <3>2 DEF FilesNamed
    <3> QED
      BY <2>1, <2>4, <3>1, <3>2, <3>3
  <2> QED
    BY <1>3, <2>3, <2>4 DEF StartProfile, FailStart
<1>4. ASSUME NEW c \in Callers, StartListen(c) PROVE TmpKept'
  <2>1. pc[c] = "start_listen" /\ mu = c /\ mu' = NoCaller /\ UNCHANGED <<taken, calls, began>>
    BY <1>4, Holder DEF StartListen, Published, FailStart
  <2>2. session = NoSession
    BY <2>1 DEF IInv, ProfilerOwner, Arming
  <2> QED
    BY <1>4, <2>1, <2>2 DEF StartListen, Published
<1>5. ASSUME NEW c \in Callers, StopTake(c) PROVE TmpKept'
  BY <1>5 DEF StopTake, Goto
<1>6. ASSUME NEW c \in Callers, StopCpu(c) \/ StopDump(c) PROVE TmpKept'
  <2>1. pc[c] \in {"stop_cpu", "stop_dump"} /\ mu = c /\ UNCHANGED session
    BY <1>6, Holder DEF StopCpu, StopDump
  <2>2. session = NoSession
    BY <2>1 DEF IInv, ProfilerOwner, Stopping
  <2>3. mu' = NoCaller \/ (mu' = c /\ pc'[c] = "stop_dump")
    BY <1>6, <2>1 DEF StopCpu, StopDump, Goto
  <2> QED
    BY <2>1, <2>2, <2>3
<1>7. CASE UNCHANGED <<state, mu, session, cpu, began, disk, dumpFailures, callerVars>>
  BY <1>7 DEF callerVars, Me
<1> QED
  BY <1>1, <1>2, <1>3, <1>4, <1>5, <1>6, <1>7, Steps

LEMMA ReplyTypes ==
    ASSUME IInv, NEW c \in Callers
    PROVE  /\ reply[c] \in Replies /\ reply[c].files \subseteq Dumped /\ reply[c].err \in BOOLEAN
           /\ \A r \in [Callers -> Replies], x \in Replies : [r EXCEPT ![c] = x][c] = x
BY DEF IInv, TypeOK, Replies

\* Nobody else is at stop_dump while c holds the mutex.
LEMMA Alone ==
    ASSUME IInv, NEW c \in Callers, pc[c] \in Critical, NEW d \in Callers, d # c
    PROVE  pc[d] \notin Critical
BY Holder DEF IInv, TypeOK

LEMMA CpuReportedStep == IInv /\ TmpKept /\ CpuReported /\ [Next]_vars => CpuReported'
<1> SUFFICES ASSUME IInv, TmpKept, CpuReported, [Next]_vars PROVE CpuReported'
  OBVIOUS
<1> USE MutexTypes DEF CpuReported, Listed, Critical, StartPcs, StopPcs
<1>1. ASSUME NEW c \in Callers, Aside(c) PROVE CpuReported'
  BY <1>1, AsideFrame
<1>2. ASSUME NEW c \in Callers, StartCreate(c) \/ StartProfile(c) \/ StartListen(c)
      PROVE  CpuReported'
  <2>1. pc[c] \in Critical /\ pc'[c] \in {"idle"} \cup StartPcs /\ UNCHANGED taken
    BY <1>2 DEF StartCreate, StartProfile, StartListen, Published, FailStart, Goto
  <2>2. \A d \in Callers : d # c => pc'[d] = pc[d] /\ reply'[d] = reply[d]
    BY <1>2 DEF StartCreate, StartProfile, StartListen, Published, FailStart, Goto, IInv, TypeOK
  <2>3. \A d \in Callers : d # c => pc[d] \notin Critical
    BY <2>1, Alone
  <2> QED
    BY <2>1, <2>2, <2>3
<1>3. ASSUME NEW c \in Callers, StopTake(c) PROVE CpuReported'
  <2>1. reply'[c].files = reply[c].files /\ \A d \in Callers : d # c => reply'[d] = reply[d]
    BY <1>3, ReplyTypes DEF StopTake, IInv, TypeOK, Replies
  <2>2. pc[c] = "stop_lock" /\ UNCHANGED <<disk, began>>
    BY <1>3 DEF StopTake
  <2>3. /\ \A d \in Callers : d # c => pc'[d] = pc[d] /\ taken'[d] = taken[d]
        /\ taken'[c] = session /\ pc'[c] = IF session = NoSession THEN "stop_dump" ELSE "stop_shutdown"
    BY <1>3 DEF StopTake, Goto
  <2>4. reply[c].files = {}
    BY <2>2
  <2>5. /\ pc'[c] \in {"stop_lock", "stop_shutdown", "stop_cpu"} => reply'[c].files = {}
        /\ ~(pc'[c] = "stop_dump" /\ taken'[c] # NoSession)
    BY <2>1, <2>3, <2>4
  <2> QED
    BY <2>1, <2>2, <2>3, <2>5
<1>4. ASSUME NEW c \in Callers, StopCpu(c) PROVE CpuReported'
  <2>1. pc[c] = "stop_cpu" /\ mu = c /\ UNCHANGED <<taken, began>> /\ taken[c] \in Sessions
    BY <1>4, Holder DEF StopCpu, IInv, Identified
  <2>2. /\ \A d \in Callers : d # c => pc'[d] = pc[d] /\ pc[d] \notin Critical
        /\ pc'[c] = "stop_dump"
    BY <1>4, <2>1, Alone DEF StopCpu, Goto
  <2>3. reply[c].files = {} /\ reply \in [Callers -> Replies]
    BY <2>1 DEF IInv, TypeOK
  <2>4. CASE Renamed(c)
    <3>1. disk[<<began[taken[c]], "tmp">>] \in {taken[c], NoSession}
      BY <2>1, <2>4 DEF Renamed, TmpKept, At, Own, Tmp
    <3>2. disk'[<<began[taken[c]], "cpu">>] \in {taken[c], NoSession}
      <4>1. disk \in [Files -> Sessions \cup {NoSession, Absent}]
        BY DEF IInv, TypeOK
      <4>2. <<began[taken[c]], "cpu">> \in Files
        BY <2>1, FileNames DEF IInv
      <4>3. disk' = [disk EXCEPT ![<<began[taken[c]], "cpu">>] = disk[<<began[taken[c]], "tmp">>],
                                ![<<began[taken[c]], "tmp">>] = Absent]
        BY <2>4 DEF Renamed
      <4>4. disk'[<<began[taken[c]], "cpu">>] = disk[<<began[taken[c]], "tmp">>]
        BY <4>1, <4>2, <4>3
      <4> QED
        BY <3>1, <4>4
    <3>3. /\ reply'[c].files = {"cpu"} /\ reply'[c].err = reply[c].err
          /\ \A d \in Callers : d # c => reply'[d] = reply[d]
      BY <2>3, <2>4 DEF Renamed, Replies
    <3> QED
      BY <2>1, <2>2, <3>2, <3>3 DEF Listed
  <2>5. CASE CpuDumpFailed(c)
    <3>1. /\ reply'[c].files = {} /\ reply'[c].err /\ \A d \in Callers : d # c => reply'[d] = reply[d]
      BY <2>3, <2>5 DEF CpuDumpFailed, Replies
    <3> QED
      BY <2>1, <2>2, <3>1
  <2> QED
    BY <1>4, <2>4, <2>5 DEF StopCpu
<1>5. ASSUME NEW c \in Callers, StopDump(c) PROVE CpuReported'
  <2>1. pc[c] \in Critical /\ pc'[c] = "idle" /\ UNCHANGED taken
    BY <1>5 DEF StopDump, Goto
  <2>2. \A d \in Callers : d # c => pc'[d] = pc[d] /\ reply'[d] = reply[d]
    BY <1>5 DEF StopDump, Goto, IInv, TypeOK
  <2>3. \A d \in Callers : d # c => pc[d] \notin Critical
    BY <2>1, Alone
  <2> QED
    BY <2>1, <2>2, <2>3
<1>6. CASE UNCHANGED <<state, mu, session, cpu, began, disk, dumpFailures, callerVars>>
  BY <1>6 DEF callerVars
<1> HIDE DEF CpuReported
<1> QED
  BY <1>1, <1>2, <1>3, <1>4, <1>5, <1>6, Steps

-----------------------------------------------------------------------------
LEMMA LeftFinite == IsFiniteSet(Left) /\ Cardinality(Left) \in Nat
<1>1. IsFiniteSet(1 .. MaxTime)
  BY BoundsAssumption, FS_Interval
<1>2. IsFiniteSet(Left)
  BY <1>1, FS_Subset DEF Left
<1> QED
  BY <1>2, FS_CardinalityType

\* No step but a failed Rename leaves a temporary profile behind.
LEMMA LeftStep ==
    IInv /\ FilesNamed /\ TmpKept /\ [Next]_vars =>
        \/ Left' \subseteq Left
        \/ \E c \in Callers :
                StopCpu(c) /\ CpuDumpFailed(c) /\ Left' \subseteq Left \cup {began[taken[c]]}
<1> DEFINE Goal ==
        \/ Left' \subseteq Left
        \/ \E c \in Callers :
                StopCpu(c) /\ CpuDumpFailed(c) /\ Left' \subseteq Left \cup {began[taken[c]]}
<1> SUFFICES ASSUME IInv, FilesNamed, TmpKept, [Next]_vars PROVE Goal
  OBVIOUS
<1> USE MutexTypes DEF Live, At, Critical, StartPcs, StopPcs
<1>a. /\ disk \in [Files -> Sessions \cup {NoSession, Absent}]
      /\ \A t \in 1 .. MaxTime : <<t, "tmp">> \in Files
      /\ \A s \in Sessions : s # NoSession /\ s # Absent
      /\ Absent \notin Sessions
  BY SessionAssumption DEF IInv, TypeOK, Files, ZeroTime
<1>b. ASSUME UNCHANGED disk, \A s \in Sessions : Live(s) => Live(s)'
      PROVE  Left' \subseteq Left
  BY <1>b DEF Left
<1>c. \A t \in 1 .. MaxTime : \A s \in Sessions : disk[<<t, "tmp">>] = s => t = began[s]
  BY <1>a DEF FilesNamed
<1>1. ASSUME NEW c \in Callers, Aside(c) PROVE Left' \subseteq Left
  <2>1. \A s \in Sessions : Live(s) => Live(s)'
    BY <1>1, AsideFrame DEF Me
  <2> QED
    BY <1>1, <1>b, <2>1, AsideFrame
<1>2. ASSUME NEW c \in Callers, StartCreate(c) PROVE Left' \subseteq Left
  <2>1. pc[c] = "start_create" /\ mu = c /\ UNCHANGED <<session, taken, calls>> /\ Me(c) \in Sessions
    BY <1>2, Holder, SessionNames DEF StartCreate
  <2>2. CASE disk' = [disk EXCEPT ![<<now, "tmp">>] = Me(c)] /\ Goto(c, "start_profile") /\ UNCHANGED mu
    <3>1. \A s \in Sessions : Live(s) => Live(s)'
      BY <2>1, <2>2 DEF Goto, Me
    <3>2. Live(Me(c))'
      BY <2>1, <2>2 DEF Goto, Me
    <3>3. \A t \in 1 .. MaxTime : disk'[<<t, "tmp">>] \in {disk[<<t, "tmp">>], Me(c)}
      BY <1>a, <2>2
    <3>4. Me(c)' = Me(c)
      BY <2>1 DEF Me
    <3> QED
      BY <3>1, <3>2, <3>3, <3>4 DEF Left
  <2>3. CASE UNCHANGED disk /\ mu' = NoCaller
    BY <1>b, <2>1, <2>3
  <2> QED
    BY <1>2, <2>2, <2>3 DEF StartCreate, FailStart
<1>3. ASSUME NEW c \in Callers, StartProfile(c) \/ StartListen(c) PROVE Left' \subseteq Left
  <2>1. /\ pc[c] \in {"start_profile", "start_listen"} /\ mu = c /\ UNCHANGED <<taken, calls, began>>
        /\ Me(c) \in Sessions /\ Me(c)' = Me(c)
    BY <1>3, Holder, SessionNames DEF StartProfile, StartListen, Me
  <2>2. CASE UNCHANGED <<session, mu, disk>> /\ Goto(c, "start_listen")
    BY <1>b, <2>1, <2>2 DEF Goto
  <2>3. CASE Published(c) /\ pc[c] = "start_listen"
    <3>1. session = NoSession
      BY <2>1, <2>3 DEF IInv, ProfilerOwner, Arming
    <3> QED
      BY <1>a, <1>b, <2>1, <2>3, <3>1 DEF Published
  <2>4. CASE UndoCreate(c) /\ mu' = NoCaller /\ UNCHANGED session
    <3>1. \A t \in 1 .. MaxTime :
            \/ disk'[<<t, "tmp">>] \in {Absent, NoSession, session}
            \/ t # began[Me(c)] /\ disk'[<<t, "tmp">>] = disk[<<t, "tmp">>]
      BY <1>a, <2>4 DEF UndoCreate
    <3>2. \A s \in Sessions : Live(s) => Live(s)' \/ s = Me(c)
      BY <2>1, <2>4
    <3>3. session # NoSession => Live(session)'
      BY <2>4
    <3> SUFFICES ASSUME NEW t \in 1 .. MaxTime, disk'[<<t, "tmp">>] \in Sessions, ~Live(disk[<<t, "tmp">>])'
                 PROVE  t \in Left
      BY DEF Left
    <3>4. disk'[<<t, "tmp">>] # session
      BY <1>a, <2>4, <3>3
    <3>5. t # began[Me(c)] /\ disk'[<<t, "tmp">>] = disk[<<t, "tmp">>]
      BY <1>a, <3>1, <3>4
    <3>6. disk[<<t, "tmp">>] # Me(c)
      BY <1>c, <2>1, <3>5
    <3> QED
      BY <3>2, <3>5, <3>6 DEF Left
  <2> QED
    BY <1>3, <2>2, <2>3, <2>4 DEF StartProfile, StartListen, FailStart
<1>4. ASSUME NEW c \in Callers, StopTake(c) PROVE Left' \subseteq Left
  <2>1. \A s \in Sessions : Live(s) => Live(s)'
    BY <1>4, <1>a DEF StopTake, Goto
  <2> QED
    BY <1>4, <1>b, <2>1 DEF StopTake
<1>5. ASSUME NEW c \in Callers, StopCpu(c) PROVE Goal
  <2>1. /\ pc[c] = "stop_cpu" /\ mu = c /\ mu' = c /\ pc'[c] = "stop_dump"
        /\ UNCHANGED <<session, taken, calls, began>> /\ taken[c] \in Sessions
    BY <1>5, Holder DEF StopCpu, Goto, IInv, Identified
  <2>2. \A s \in Sessions : Live(s) => Live(s)' \/ s = taken[c]
    BY <2>1
  <2>3. CASE Renamed(c)
    <3>1. \A t \in 1 .. MaxTime :
            disk'[<<t, "tmp">>] = IF t = began[taken[c]] THEN Absent ELSE disk[<<t, "tmp">>]
      BY <1>a, <2>1, <2>3 DEF Renamed
    <3>2. Left' \subseteq Left
      BY <1>a, <1>c, <2>1, <2>2, <3>1 DEF Left
    <3> QED
      BY <3>2
  <2>4. CASE CpuDumpFailed(c)
    <3>1. Left' \subseteq Left \cup {began[taken[c]]}
      BY <1>a, <1>c, <2>1, <2>2, <2>4 DEF Left, CpuDumpFailed
    <3> QED
      BY <1>5, <2>4, <3>1
  <2> QED
    BY <1>5, <2>3, <2>4 DEF StopCpu
<1>6. ASSUME NEW c \in Callers, StopDump(c) PROVE Left' \subseteq Left
  <2>1. pc[c] = "stop_dump" /\ mu = c /\ mu' = NoCaller /\ UNCHANGED session
    BY <1>6, Holder DEF StopDump
  <2>2. PICK written \in SUBSET Memory, removed \in SUBSET Memory, cut \in SUBSET Memory :
            disk' = DiskAfter(taken[c], written, removed, cut)
    BY <1>6 DEF StopDump
  <2>3. \A t \in 1 .. MaxTime : disk'[<<t, "tmp">>] = disk[<<t, "tmp">>]
    <3> SUFFICES ASSUME NEW t \in 1 .. MaxTime PROVE disk'[<<t, "tmp">>] = disk[<<t, "tmp">>]
      OBVIOUS
    <3> DEFINE f == <<t, "tmp">>
    <3>1. f \in Files /\ f[2] = "tmp"
      BY <1>a
    <3>2. \A W \in SUBSET Memory : f[2] \notin W
      BY <3>1 DEF Memory
    <3> QED
      BY <2>2, <3>1, <3>2 DEF DiskAfter
  <2>4. \A s \in Sessions : Live(s) => Live(s)'
    BY <2>1
  <2> QED
    BY <2>3, <2>4 DEF Left
<1>7. CASE UNCHANGED <<state, mu, session, cpu, began, disk, dumpFailures, callerVars>>
  BY <1>7 DEF Left, callerVars, Me
<1> HIDE DEF Goal
<1>8. Left' \subseteq Left => Goal
  BY DEF Goal
<1> QED
  BY <1>1, <1>2, <1>3, <1>4, <1>5, <1>6, <1>7, <1>8, Steps

LEMMA LeftCountedStep == FilesInv /\ [Next]_vars => LeftCounted'
<1> SUFFICES ASSUME FilesInv, [Next]_vars PROVE LeftCounted'
  OBVIOUS
<1>1. dumpFailures["cpu"] \in Nat /\ dumpFailures \in [Dumped -> Nat] /\ "cpu" \in Dumped
  BY DEF FilesInv, IInv, TypeOK, Dumped
<1>2. IsFiniteSet(Left) /\ Cardinality(Left) \in Nat /\ IsFiniteSet(Left') /\ Cardinality(Left') \in Nat
  <2>1. IsFiniteSet(Left) /\ Cardinality(Left) \in Nat
    BY LeftFinite
  <2>2. IsFiniteSet(1 .. MaxTime)
    BY BoundsAssumption, FS_Interval
  <2>3. IsFiniteSet(Left')
    BY <2>2, FS_Subset DEF Left
  <2> QED
    BY <2>1, <2>3, FS_CardinalityType
<1>3. dumpFailures'["cpu"] \in Nat /\ dumpFailures'["cpu"] >= dumpFailures["cpu"]
  <2>1. ASSUME NEW c \in Callers, StopCpu(c)
        PROVE  dumpFailures'["cpu"] \in {dumpFailures["cpu"], dumpFailures["cpu"] + 1}
    BY <1>1, <2>1 DEF StopCpu, Renamed, CpuDumpFailed
  <2>2. ASSUME NEW c \in Callers, StopDump(c) PROVE dumpFailures'["cpu"] = dumpFailures["cpu"]
    <3>1. PICK written \in SUBSET Memory :
            dumpFailures' = [k \in Dumped |-> dumpFailures[k] + IF k \in Memory \ written THEN 1 ELSE 0]
      BY <2>2 DEF StopDump
    <3> QED
      BY <1>1, <3>1 DEF Memory
  <2>3. UNCHANGED dumpFailures \/ \E c \in Callers : StopCpu(c) \/ StopDump(c)
    BY Steps
    DEF Aside, StartAdmitted, StartRefused, StartLock, StartCreate, StartProfile, StartListen, StopAdmitted,
        StopRefused, StopTake, StopShutdown
  <2> QED
    BY <1>1, <2>1, <2>2, <2>3
<1>4. CASE Left' \subseteq Left
  <2>1. Cardinality(Left') <= Cardinality(Left)
    BY <1>2, <1>4, FS_Subset
  <2> QED
    BY <1>1, <1>2, <1>3, <2>1 DEF FilesInv, LeftCounted
<1>5. ASSUME NEW c \in Callers, StopCpu(c), CpuDumpFailed(c), Left' \subseteq Left \cup {began[taken[c]]}
      PROVE  LeftCounted'
  <2>1. dumpFailures'["cpu"] = dumpFailures["cpu"] + 1
    BY <1>1, <1>5 DEF CpuDumpFailed
  <2>2. /\ IsFiniteSet(Left \cup {began[taken[c]]})
        /\ Cardinality(Left \cup {began[taken[c]]}) <= Cardinality(Left) + 1
    <3>1. /\ IsFiniteSet(Left \cup {began[taken[c]]})
          /\ \/ Cardinality(Left \cup {began[taken[c]]}) = Cardinality(Left)
             \/ Cardinality(Left \cup {began[taken[c]]}) = Cardinality(Left) + 1
      BY <1>2, FS_AddElement, Zenon
    <3> QED
      BY <1>2, <3>1
  <2>3. Cardinality(Left \cup {began[taken[c]]}) \in Nat
    BY <2>2, FS_CardinalityType
  <2>4. Cardinality(Left') <= Cardinality(Left \cup {began[taken[c]]})
    BY <1>5, <2>2, FS_Subset
  <2> QED
    BY <1>1, <1>2, <2>1, <2>2, <2>3, <2>4 DEF FilesInv, LeftCounted
<1> QED
  BY <1>4, <1>5, LeftStep DEF FilesInv

LEMMA FilesInvariance == Spec => []FilesInv
<1>1. FilesInv /\ [Next]_vars => FilesInv'
  BY IInvStep, NamesUsedStep, FilesNamedStep, TmpKeptStep, CpuReportedStep, LeftCountedStep
  DEF FilesInv
<1> QED
  BY <1>1, InitFilesInv, PTL DEF Spec

-----------------------------------------------------------------------------
(***************************************************************************)
(* However many sessions there are, and however many begin within one      *)
(* second, the CPU profiles that stay in temporary files nobody will       *)
(* rename are no more than the failed dumps counted.                       *)
(***************************************************************************)
THEOREM LossCounted == Spec => []LostProfilesCounted
<1>1. FilesInv => LostProfilesCounted
  <2> SUFFICES ASSUME FilesInv PROVE LostProfilesCounted
    OBVIOUS
  <2>1. LostProfiles \subseteq Left
    BY DEF LostProfiles, Left, Live, At
  <2>2. Cardinality(LostProfiles) <= Cardinality(Left) /\ Cardinality(LostProfiles) \in Nat
    BY <2>1, LeftFinite, FS_Subset, FS_CardinalityType
  <2>3. dumpFailures["cpu"] \in Nat
    BY DEF FilesInv, IInv, TypeOK, Dumped
  <2> QED
    BY <2>2, <2>3, LeftFinite DEF FilesInv, LeftCounted, LostProfilesCounted
<1> QED
  BY <1>1, FilesInvariance, PTL

(***************************************************************************)
(* A Stop of any caller, at any time, that reports no error lists the      *)
(* three profiles, and never lists a file that is not there, or that is    *)
(* another session's.                                                      *)
(***************************************************************************)
THEOREM StopTellsTheTruth == Spec => StopReportsWhatItWrote
<1>1. FilesInv /\ [Next]_vars =>
        [\A c \in Callers :
            pc[c] = "stop_dump" /\ pc'[c] = "idle" /\ taken[c] # NoSession =>
                /\ ~reply'[c].err => reply'[c].files = Dumped
                /\ \A k \in reply'[c].files : Listed(taken[c], k)']_vars
  <2> SUFFICES ASSUME FilesInv, [Next]_vars,
                      NEW c \in Callers, pc[c] = "stop_dump", pc'[c] = "idle", taken[c] # NoSession
               PROVE  /\ ~reply'[c].err => reply'[c].files = Dumped
                      /\ \A k \in reply'[c].files : Listed(taken[c], k)'
    OBVIOUS
  <2> USE DEF FilesInv
  <2>1. StopDump(c)
    <3>1. \A d \in Callers : d # c => pc[d] \notin Critical
      BY Alone DEF Critical, StopPcs, StartPcs
    <3> QED
      BY Calls, <3>1
      DEF StartAdmitted, StartRefused, StartLock, StartCreate, StartProfile, StartListen, Published, FailStart,
          StopAdmitted, StopRefused, StopTake, StopShutdown, StopCpu, StopDump, Called, Goto, callerVars,
          IInv, TypeOK
  <2>2. PICK written \in SUBSET Memory, removed \in SUBSET Memory, cut \in SUBSET Memory :
            /\ removed \cap written = {} /\ cut \cap (written \cup removed) = {}
            /\ disk' = DiskAfter(taken[c], written, removed, cut)
            /\ reply' = [reply EXCEPT ![c] = [changed |-> TRUE,
                             err     |-> @.err \/ written # Memory,
                             files   |-> @.files \cup written]]
    BY <2>1 DEF StopDump
  <2>3. /\ reply'[c].err = (reply[c].err \/ written # Memory)
        /\ reply'[c].files = reply[c].files \cup written
    BY <2>2 DEF IInv, TypeOK
  <2>4. /\ reply[c].files \subseteq {"cpu"} /\ (~reply[c].err => reply[c].files = {"cpu"})
        /\ "cpu" \in reply[c].files => Listed(taken[c], "cpu")
    BY DEF CpuReported
  <2>5. ~reply'[c].err => reply'[c].files = Dumped
    BY <2>3, <2>4 DEF Memory, Dumped
  <2>6. taken[c] \in Sessions /\ began[taken[c]] \in ZeroTime .. MaxTime
    BY DEF IInv, TypeOK
  <2>a. UNCHANGED <<taken, began>>
    BY <2>1 DEF StopDump
  <2>7. ASSUME NEW k \in reply'[c].files PROVE Listed(taken[c], k)'
    <3>1. <<began[taken[c]], k>> \in Files /\ (k \in written \/ (k = "cpu" /\ "cpu" \in reply[c].files))
      BY <2>3, <2>4, <2>6 DEF Files, Dumped, Memory
    <3>2. CASE k \in written
      <4>1. disk'[<<began[taken[c]], k>>] = taken[c]
        BY <2>2, <2>6, <3>1, <3>2 DEF DiskAfter, StartedAt
      <4> QED
        BY <2>a, <4>1 DEF Listed
    <3>3. CASE k = "cpu" /\ "cpu" \in reply[c].files
      <4>1. "cpu" \notin Memory
        BY DEF Memory
      <4> QED
        BY <2>2, <2>4, <2>a, <3>1, <3>3, <4>1 DEF DiskAfter, Listed
    <3> QED
      BY <3>1, <3>2, <3>3
  <2> QED
    BY <2>5, <2>7
<1> QED
  BY <1>1, FilesInvariance, PTL DEF Spec, StopReportsWhatItWrote
===========================================================================
