---------------------------- MODULE LuaExecutor ----------------------------
(***************************************************************************)
(* redis/lua.go: one LuaExecutor shared by concurrent UpdateOneEvent calls.*)
(* A call tries EVALSHA with the remembered sha under a read lock (fast    *)
(* path); on any error it runs the whole script with EVAL (slow path).     *)
(* NOSCRIPT clears the sha, and a goroutine spawned by the slow path loads *)
(* the script again.                                                       *)
(*                                                                         *)
(* A Redis command is one action: the server runs it and the answer is     *)
(* received, or the answer (or the command itself) is lost.  Only the      *)
(* executor's own steps and the command's effect on the server can be seen *)
(* by others, so nothing is hidden by taking them together.                *)
(***************************************************************************)
EXTENDS Naturals, FiniteSets

CONSTANTS
    Requests,       \* requests; each makes one UpdateOneEvent call
    Nobody,         \* no repair goroutine holds the write lock
    RespFns,        \* whether respFn is set, the values to consider
    ClientTries,    \* times the Redis client sends one command
    MaxFlushes      \* bound: times the server loses its script cache

ASSUME RequestsAssumption == Nobody \notin Requests
ASSUME RespFnsAssumption  == RespFns \subseteq BOOLEAN
ASSUME BoundsAssumption   == ClientTries \in Nat \ {0} /\ MaxFlushes \in Nat

VARIABLES
    respFn,     \* l.respFn # nil; fixed when the executor is built
    loaded,     \* l.LuaScriptSha # ""
    readers,    \* l.mx: requests holding the read lock
    pending,    \* l.mx: the request whose call or repair is inside Lock and
                \*       holds off new readers until the present ones are gone
    writer,     \* l.mx: the request whose repair goroutine holds it
    cached,     \* the server has the script in its cache
    flushes,    \* times it has lost it
    pc,         \* where a call is
    tries,      \* times the current command of a call was sent in vain
    repair,     \* the repair goroutine of a request
    canceled,   \* the request's context has been canceled
    outcome,    \* what UpdateOneEvent returned
    executed,   \* times the script ran for a request
    excused     \* times a run was not followed by a usable answer

lockVars    == <<readers, pending, writer>>
serverVars  == <<cached, flushes>>
requestVars == <<pc, tries, outcome, executed, excused>>
vars == <<respFn, loaded, lockVars, serverVars, repair, canceled, requestVars>>

TypeOK ==
    /\ respFn \in BOOLEAN
    /\ loaded \in BOOLEAN
    /\ readers \subseteq Requests
    /\ pending \in Requests \cup {Nobody}
    /\ writer \in Requests \cup {Nobody}
    /\ cached \in BOOLEAN
    /\ flushes \in 0 .. MaxFlushes
    /\ pc \in [Requests -> {"new", "evalsha", "noscript", "eval", "returned"}]
    /\ tries \in [Requests -> 0 .. ClientTries - 1]
    /\ repair \in [Requests -> {"none", "waiting", "loading", "done", "failed"}]
    /\ canceled \in [Requests -> BOOLEAN]
    /\ outcome \in [Requests -> {"none", "ok", "error", "panic"}]
    /\ executed \in [Requests -> Nat]
    /\ excused \in [Requests -> Nat]

\* PrepareLuaScript at start-up has loaded the script, or has failed or was
\* never called; an older process may have left the script cached.
Init ==
    /\ respFn \in RespFns
    /\ loaded \in BOOLEAN
    /\ cached \in BOOLEAN
    /\ loaded => cached
    /\ readers = {}
    /\ pending = Nobody
    /\ writer = Nobody
    /\ flushes = 0
    /\ pc = [r \in Requests |-> "new"]
    /\ tries = [r \in Requests |-> 0]
    /\ repair = [r \in Requests |-> "none"]
    /\ canceled = [r \in Requests |-> FALSE]
    /\ outcome = [r \in Requests |-> "none"]
    /\ executed = [r \in Requests |-> 0]
    /\ excused = [r \in Requests |-> 0]

-----------------------------------------------------------------------------
Goto(r, l) == pc' = [pc EXCEPT ![r] = l]
RUnlock(r) == readers' = readers \ {r}

Return(r, result) ==
    /\ Goto(r, "returned")
    /\ outcome' = [outcome EXCEPT ![r] = result]

\* The script ran for r; "usable" unless its answer was lost or refused.
Ran(r, usable) ==
    /\ executed' = [executed EXCEPT ![r] = @ + 1]
    /\ excused' = [excused EXCEPT ![r] = IF usable THEN @ ELSE @ + 1]

\* The Redis client sends a command again after a network error.
MoreTriesByOne(r) == tries[r] < ClientTries  \* mutant
MoreTries(r) == tries[r] + 1 < ClientTries

\* RLock, held off by a writer that waits or works, then fastPath: an empty
\* sha is an error of its own.
FastPath(r) ==
    /\ pc[r] = "new"
    /\ pending = Nobody
    /\ writer = Nobody
    /\ \/ /\ loaded
          /\ readers' = readers \cup {r}
          /\ Goto(r, "evalsha")
       \/ /\ ~loaded
          /\ Goto(r, "eval")
          /\ UNCHANGED readers
    /\ UNCHANGED <<respFn, loaded, pending, writer, serverVars, repair, canceled,
                   tries, outcome, executed, excused>>

\* EVALSHA answered; respFn, when set, may refuse the answer.  It may also
\* panic: the RUnlock is not deferred, so the read lock stays taken although
\* the call is over (whoever serves the request recovers).
EvalShaAnswered(r) ==
    /\ pc[r] = "evalsha"
    /\ cached
    /\ \/ Ran(r, TRUE) /\ Return(r, "ok") /\ RUnlock(r)
       \/ respFn /\ Ran(r, FALSE) /\ Goto(r, "eval") /\ RUnlock(r) /\ UNCHANGED outcome
       \/ respFn /\ Ran(r, TRUE) /\ Return(r, "panic") /\ UNCHANGED readers
    /\ tries' = [tries EXCEPT ![r] = 0]
    /\ UNCHANGED <<respFn, loaded, pending, writer, serverVars, repair, canceled>>

EvalShaNoScriptLocked(r) ==  \* mutant: returning without the RUnlock
    /\ pc[r] = "evalsha"
    /\ ~cached
    /\ Goto(r, "noscript")
    /\ tries' = [tries EXCEPT ![r] = 0]
    /\ UNCHANGED <<respFn, loaded, lockVars, serverVars, repair, canceled,
                   outcome, executed, excused>>

EvalShaNoScript(r) ==
    /\ pc[r] = "evalsha"
    /\ ~cached
    /\ RUnlock(r)
    /\ Goto(r, "noscript")
    /\ tries' = [tries EXCEPT ![r] = 0]
    /\ UNCHANGED <<respFn, loaded, pending, writer, serverVars, repair, canceled,
                   outcome, executed, excused>>

\* The command or its answer was lost: the client sends it again while it has
\* tries left, or reports an error other than NOSCRIPT (tries used up, the
\* deadline of the context, an error of the script itself).
EvalShaLost(r) ==
    /\ pc[r] = "evalsha"
    /\ \/ cached /\ Ran(r, FALSE)
       \/ UNCHANGED <<executed, excused>>
    /\ \/ /\ MoreTries(r)
          /\ tries' = [tries EXCEPT ![r] = @ + 1]
          /\ UNCHANGED <<pc, readers>>
       \/ /\ tries' = [tries EXCEPT ![r] = 0]
          /\ RUnlock(r)
          /\ Goto(r, "eval")
    /\ UNCHANGED <<respFn, loaded, pending, writer, serverVars, repair, canceled, outcome>>

\* Lock, called after NOSCRIPT and by a repair: one writer at a time waits for
\* the readers to go.
Lock(r) ==
    /\ pc[r] = "noscript" \/ repair[r] = "waiting"
    /\ pending = Nobody
    /\ writer = Nobody
    /\ pending' = r
    /\ UNCHANGED <<respFn, loaded, readers, writer, serverVars, repair, canceled,
                   requestVars>>

\* After NOSCRIPT: with the lock, clear the sha, Unlock.
ClearSha(r) ==
    /\ pc[r] = "noscript"
    /\ pending = r
    /\ readers = {}
    /\ loaded' = FALSE
    /\ pending' = Nobody
    /\ Goto(r, "eval")
    /\ UNCHANGED <<respFn, readers, writer, serverVars, repair, canceled,
                   tries, outcome, executed, excused>>

-----------------------------------------------------------------------------
\* EVAL runs the script and leaves it in the server's cache.  Only without a
\* respFn does the slow path go on to spawn the repair goroutine.
SpawnRepairNever(r) == UNCHANGED repair  \* mutant
SpawnRepair(r) == repair' = [repair EXCEPT ![r] = "waiting"]

EvalAnsweredTwice(r) ==  \* mutant: the answered script is evaluated again
    /\ pc[r] = "eval"
    /\ executed' = [executed EXCEPT ![r] = @ + 2]
    /\ UNCHANGED excused
    /\ cached' = TRUE
    /\ \/ ~respFn /\ SpawnRepair(r) /\ Return(r, "ok")
       \/ respFn /\ UNCHANGED repair /\ \E res \in {"ok", "error", "panic"} : Return(r, res)
    /\ tries' = [tries EXCEPT ![r] = 0]
    /\ UNCHANGED <<respFn, loaded, lockVars, flushes, canceled>>

EvalAnswered(r) ==
    /\ pc[r] = "eval"
    /\ Ran(r, TRUE)
    /\ cached' = TRUE
    /\ \/ ~respFn /\ SpawnRepair(r) /\ Return(r, "ok")
       \/ respFn /\ UNCHANGED repair /\ \E res \in {"ok", "error", "panic"} : Return(r, res)
    /\ tries' = [tries EXCEPT ![r] = 0]
    /\ UNCHANGED <<respFn, loaded, lockVars, flushes, canceled>>

EvalGivenUp(r) == Return(r, "error")

EvalLost(r) ==
    /\ pc[r] = "eval"
    /\ \/ cached' = TRUE /\ Ran(r, FALSE)
       \/ UNCHANGED <<cached, executed, excused>>
    /\ \/ /\ MoreTries(r)
          /\ tries' = [tries EXCEPT ![r] = @ + 1]
          /\ UNCHANGED <<pc, outcome>>
       \/ /\ tries' = [tries EXCEPT ![r] = 0]
          /\ EvalGivenUp(r)
    /\ UNCHANGED <<respFn, loaded, lockVars, flushes, repair, canceled>>

-----------------------------------------------------------------------------
\* The repair goroutine, with the lock: nothing to do if the sha is back.
RepairNeeded == ~loaded
RepairLock(r) ==
    /\ repair[r] = "waiting"
    /\ pending = r
    /\ readers = {}
    /\ pending' = Nobody
    /\ \/ /\ RepairNeeded
          /\ writer' = r
          /\ repair' = [repair EXCEPT ![r] = "loading"]
       \/ /\ ~RepairNeeded
          /\ repair' = [repair EXCEPT ![r] = "done"]
          /\ UNCHANGED writer
    /\ UNCHANGED <<respFn, loaded, readers, serverVars, canceled, requestVars>>

\* PrepareLuaScript under the write lock, with the context of the request:
\* it fails when that is canceled or the client's tries are used up, and the
\* script may be cached all the same.
RepairLoad(r) ==
    /\ repair[r] = "loading"
    /\ \/ /\ ~canceled[r]
          /\ cached' = TRUE
          /\ loaded' = TRUE
          /\ repair' = [repair EXCEPT ![r] = "done"]
       \/ /\ cached' \in {cached, cached \/ ~canceled[r]}
          /\ repair' = [repair EXCEPT ![r] = "failed"]
          /\ UNCHANGED loaded
    /\ writer' = Nobody
    /\ UNCHANGED <<respFn, readers, pending, flushes, canceled, requestVars>>

\* The request ends after its call has returned, and its context with it.
EndRequest(r) ==
    /\ pc[r] = "returned"
    /\ ~canceled[r]
    /\ canceled' = [canceled EXCEPT ![r] = TRUE]
    /\ UNCHANGED <<respFn, loaded, lockVars, serverVars, repair, requestVars>>

\* SCRIPT FLUSH, eviction or a restart of the server.
Flush ==
    /\ cached
    /\ flushes < MaxFlushes
    /\ cached' = FALSE
    /\ flushes' = flushes + 1
    /\ UNCHANGED <<respFn, loaded, lockVars, repair, canceled, requestVars>>

Call(r) == \/ FastPath(r) \/ EvalShaAnswered(r) \/ EvalShaNoScript(r)
           \/ EvalShaLost(r) \/ ClearSha(r) \/ EvalAnswered(r) \/ EvalLost(r)
Repair(r) == RepairLock(r) \/ RepairLoad(r)

\* A respFn panicked under the read lock, which nobody will give back.
LockKept == \E r \in readers : outcome[r] = "panic"

\* All requests and repairs are over, or wait for a lock that is never given
\* back.
Over(r) == canceled[r] /\ repair[r] \in {"none", "done", "failed"}
Hung(r) == LockKept /\ (pc[r] \in {"new", "noscript"} \/ repair[r] = "waiting")
Quiet ==
    /\ \A r \in Requests : Over(r) \/ Hung(r)
    /\ UNCHANGED vars

Next ==
    \/ \E r \in Requests : Call(r) \/ Lock(r) \/ Repair(r) \/ EndRequest(r)
    \/ Flush
    \/ Quiet

\* Goroutines that can run do run.  A lock that is free stays free for a
\* waiter in the end: each request takes it only a few times.
Fairness ==
    \A r \in Requests : WF_vars(Call(r)) /\ WF_vars(Lock(r)) /\ WF_vars(Repair(r))

Spec == Init /\ [][Next]_vars
FairSpec == Spec /\ Fairness

-----------------------------------------------------------------------------
(***************************************************************************)
(* "final counter equals total successful increments (no lost updates)"    *)
(* (tests/redis_test.go): success means the script ran for the request,    *)
(* and every run beyond the first is explained by an answer that was lost  *)
(* or refused by respFn.  The NOSCRIPT fallback adds no run of its own,    *)
(* whatever the interleaving of calls, flushes and repairs.                *)
(***************************************************************************)
RunsExplained ==
    \A r \in Requests :
        /\ outcome[r] = "ok" => executed[r] >= 1
        /\ executed[r] <= 1 + excused[r]

\* The test's words taken literally: a successful call counts exactly once.
SuccessRunsOnce ==
    \A r \in Requests : outcome[r] = "ok" => executed[r] = 1

(***************************************************************************)
(* Repairs are neither repeated nor wasted: a load is under way only while *)
(* no reader uses the sha and the sha is empty, even when several requests *)
(* met NOSCRIPT together (lua.go:115-125).                                 *)
(***************************************************************************)
RepairAlone ==
    \A r \in Requests :
        repair[r] = "loading" => readers = {} /\ ~loaded /\ writer = r

(***************************************************************************)
(* A missing script is never forgotten: while the sha is empty although    *)
(* calls have been made, somebody is still to load the script, be it a call*)
(* on its way to EVAL or a repair, or something failed on the way: the call*)
(* itself or a load (lua.go:92-128).                                       *)
(***************************************************************************)
WillRepair(r) ==
    pc[r] \in {"noscript", "eval"} \/ repair[r] \in {"waiting", "loading"}
ScriptNotForgotten ==
    ~respFn /\ ~loaded /\ (\E r \in Requests : pc[r] # "new") =>
        \E r \in Requests :
            WillRepair(r) \/ repair[r] = "failed" \/ outcome[r] = "error"

(***************************************************************************)
(* Every call is let in and returns, though readers are held off by writers*)
(* that wait for readers, some in the middle of Redis's retries: the locks *)
(* are given back on each path (lua.go:115-128, 139-151) but one, a respFn *)
(* that panics in the fast path.  From then on nothing is promised: the    *)
(* next writer waits for good, and every later reader behind it.           *)
(***************************************************************************)
EveryCallReturns == \A r \in Requests : <>(pc[r] = "returned" \/ LockKept)

(***************************************************************************)
(* The comment on UpdateOneEvent: when the script is found missing, it is  *)
(* loaded again.  After a NOSCRIPT the sha comes back, unless the call or  *)
(* the load itself failed, or a panicking respFn kept the lock.            *)
(***************************************************************************)
ReloadedAfterNoScript ==
    \A r \in Requests :
        pc[r] = "noscript" ~> \/ loaded
                              \/ outcome[r] \in {"error", "panic"}
                              \/ repair[r] = "failed"
                              \/ LockKept

\* The same promise where the code keeps it: only without a respFn does the
\* slow path go on to spawn the repair goroutine (lua.go:108-128).
ReloadedWithoutRespFn == ~respFn => ReloadedAfterNoScript
=============================================================================
