-------------------------- MODULE LuaExecutorProofs --------------------------
(***************************************************************************)
(* Proofs about LuaExecutor, for any number of requests, tries and losses  *)
(* of the script cache.                                                    *)
(***************************************************************************)
EXTENDS LuaExecutor, TLAPS

\* The lock: readers are the calls in EVALSHA and those a respFn left by a
\* panic, the writer is the one repair that loads, and it excludes readers, a
\* waiting writer and a remembered sha.  A repair starts when its call returns,
\* so no call in progress has one.
LeftLocked(r) == respFn /\ pc[r] = "returned" /\ outcome[r] = "panic"
Locked ==
    /\ \A r \in Requests : pc[r] = "evalsha" => r \in readers
    /\ \A r \in readers : pc[r] = "evalsha" \/ LeftLocked(r)
    /\ \A r \in Requests : repair[r] = "loading" <=> writer = r
    /\ \A r \in Requests : pc[r] # "returned" => repair[r] = "none"
    /\ writer # Nobody => pending = Nobody /\ readers = {} /\ ~loaded

\* Runs are accounted for while the call is under way, not only at its end:
\* until it returns, each run of the script was in vain.
Accounted ==
    \A r \in Requests :
        /\ pc[r] # "returned" => outcome[r] = "none" /\ executed[r] = excused[r]
        /\ executed[r] <= 1 + excused[r]
        /\ outcome[r] = "ok" => executed[r] >= 1

LInv == TypeOK /\ Locked /\ Accounted

-----------------------------------------------------------------------------
LEMMA InitLInv == Init => LInv
<1> SUFFICES ASSUME Init PROVE LInv
  OBVIOUS
<1>1. TypeOK
  BY RespFnsAssumption, BoundsAssumption DEF Init, TypeOK
<1>2. Locked /\ Accounted
  BY RequestsAssumption DEF Init, Locked, Accounted
<1> QED
  BY <1>1, <1>2 DEF LInv

LEMMA TypeStep == LInv /\ [Next]_vars => TypeOK'
<1> SUFFICES ASSUME LInv, [Next]_vars PROVE TypeOK'
  OBVIOUS
<1> USE BoundsAssumption, RequestsAssumption DEF LInv, TypeOK, Goto
<1>1. ASSUME NEW r \in Requests, FastPath(r) PROVE TypeOK'
  BY <1>1 DEF FastPath, lockVars, serverVars, requestVars
<1>2. ASSUME NEW r \in Requests, EvalShaAnswered(r) PROVE TypeOK'
  BY <1>2 DEF EvalShaAnswered, Ran, Return, RUnlock, lockVars, serverVars, requestVars
<1>3. ASSUME NEW r \in Requests, EvalShaNoScript(r) PROVE TypeOK'
  BY <1>3 DEF EvalShaNoScript, RUnlock, lockVars, serverVars, requestVars
<1>4. ASSUME NEW r \in Requests, EvalShaLost(r) PROVE TypeOK'
  BY <1>4 DEF EvalShaLost, Ran, MoreTries, RUnlock, lockVars, serverVars, requestVars
<1>5. ASSUME NEW r \in Requests, ClearSha(r) PROVE TypeOK'
  BY <1>5 DEF ClearSha, lockVars, serverVars, requestVars
<1>6. ASSUME NEW r \in Requests, EvalAnswered(r) PROVE TypeOK'
  BY <1>6 DEF EvalAnswered, Ran, Return, SpawnRepair, lockVars, serverVars, requestVars
<1>7. ASSUME NEW r \in Requests, EvalLost(r) PROVE TypeOK'
  <2>1. cached' \in BOOLEAN
    BY <1>7 DEF EvalLost, Ran
  <2>2. tries' \in [Requests -> 0 .. ClientTries - 1]
    BY <1>7 DEF EvalLost, MoreTries
  <2>3. executed' \in [Requests -> Nat] /\ excused' \in [Requests -> Nat]
    BY <1>7 DEF EvalLost, Ran
  <2>4. /\ pc' \in [Requests -> {"new", "evalsha", "noscript", "eval", "returned"}]
        /\ outcome' \in [Requests -> {"none", "ok", "error", "panic"}]
    BY <1>7 DEF EvalLost, EvalGivenUp, Return
  <2> QED
    BY <1>7, <2>1, <2>2, <2>3, <2>4 DEF EvalLost, lockVars
<1>8. ASSUME NEW r \in Requests, RepairLock(r) PROVE TypeOK'
  BY <1>8 DEF RepairLock, RepairNeeded, lockVars, serverVars, requestVars
<1>9. ASSUME NEW r \in Requests, RepairLoad(r) PROVE TypeOK'
  BY <1>9 DEF RepairLoad, lockVars, serverVars, requestVars
<1>10. ASSUME NEW r \in Requests, EndRequest(r) PROVE TypeOK'
  BY <1>10 DEF EndRequest, lockVars, serverVars, requestVars
<1>11. ASSUME Flush PROVE TypeOK'
  <2>1. flushes' \in 0 .. MaxFlushes
    BY <1>11 DEF Flush
  <2>2. cached' \in BOOLEAN
    BY <1>11 DEF Flush
  <2> QED
    BY <1>11, <2>1, <2>2 DEF Flush, lockVars, requestVars
<1>12. ASSUME UNCHANGED vars PROVE TypeOK'
  BY <1>12 DEF vars, lockVars, serverVars, requestVars
<1>13. ASSUME NEW r \in Requests, Lock(r) PROVE TypeOK'
  BY <1>13 DEF Lock, lockVars, serverVars, requestVars
<1> QED
  BY <1>1, <1>2, <1>3, <1>4, <1>5, <1>6, <1>7, <1>8, <1>9, <1>10, <1>11, <1>12,
     <1>13
  DEF Next, Call, Repair, Quiet

LEMMA LockedStep == LInv /\ [Next]_vars => Locked'
<1> SUFFICES ASSUME LInv, [Next]_vars PROVE Locked'
  OBVIOUS
<1> USE BoundsAssumption, RequestsAssumption DEF LInv, TypeOK, Goto, Locked, LeftLocked
<1>1. ASSUME NEW r \in Requests, FastPath(r) PROVE Locked'
  BY <1>1 DEF FastPath, lockVars, serverVars, requestVars
<1>2. ASSUME NEW r \in Requests, EvalShaAnswered(r) PROVE Locked'
  BY <1>2 DEF EvalShaAnswered, Ran, Return, RUnlock, lockVars, serverVars, requestVars
<1>3. ASSUME NEW r \in Requests, EvalShaNoScript(r) PROVE Locked'
  BY <1>3 DEF EvalShaNoScript, RUnlock, lockVars, serverVars, requestVars
<1>4. ASSUME NEW r \in Requests, EvalShaLost(r) PROVE Locked'
  BY <1>4 DEF EvalShaLost, Ran, MoreTries, RUnlock, lockVars, serverVars, requestVars
<1>5. ASSUME NEW r \in Requests, ClearSha(r) PROVE Locked'
  BY <1>5 DEF ClearSha, lockVars, serverVars, requestVars
<1>6. ASSUME NEW r \in Requests, EvalAnswered(r) PROVE Locked'
  <2>1. /\ pc[r] = "eval" /\ pc' = [pc EXCEPT ![r] = "returned"]
        /\ UNCHANGED <<respFn, readers, pending, writer, loaded>>
        /\ \A q \in Requests \ {r} : outcome'[q] = outcome[q]
    BY <1>6 DEF EvalAnswered, Return, lockVars
  <2>2. repair[r] = "none" /\ writer # r
    BY <2>1
  <2>3. \/ repair' = repair
        \/ repair' = [repair EXCEPT ![r] = "waiting"]
    BY <1>6 DEF EvalAnswered, SpawnRepair
  <2>4. r \notin readers
    BY <2>1
  <2>5. \A q \in readers' : pc'[q] = "evalsha" \/ LeftLocked(q)'
    BY <2>1, <2>4
  <2> QED
    BY <2>1, <2>2, <2>3, <2>5
<1>7. ASSUME NEW r \in Requests, EvalLost(r) PROVE Locked'
  BY <1>7 DEF EvalLost, Ran, MoreTries, EvalGivenUp, Return, lockVars, serverVars, requestVars
<1>8. ASSUME NEW r \in Requests, RepairLock(r) PROVE Locked'
  BY <1>8 DEF RepairLock, RepairNeeded, lockVars, serverVars, requestVars
<1>9. ASSUME NEW r \in Requests, RepairLoad(r) PROVE Locked'
  BY <1>9 DEF RepairLoad, lockVars, serverVars, requestVars
<1>10. ASSUME NEW r \in Requests, EndRequest(r) PROVE Locked'
  BY <1>10 DEF EndRequest, lockVars, serverVars, requestVars
<1>11. ASSUME Flush PROVE Locked'
  BY <1>11 DEF Flush, lockVars, serverVars, requestVars
<1>12. ASSUME UNCHANGED vars PROVE Locked'
  BY <1>12 DEF vars, lockVars, serverVars, requestVars
<1>13. ASSUME NEW r \in Requests, Lock(r) PROVE Locked'
  BY <1>13 DEF Lock, lockVars, serverVars, requestVars
<1> QED
  BY <1>1, <1>2, <1>3, <1>4, <1>5, <1>6, <1>7, <1>8, <1>9, <1>10, <1>11, <1>12,
     <1>13
  DEF Next, Call, Repair, Quiet

LEMMA AccountedStep == LInv /\ [Next]_vars => Accounted'
<1> SUFFICES ASSUME LInv, [Next]_vars PROVE Accounted'
  OBVIOUS
<1> USE BoundsAssumption, RequestsAssumption DEF LInv, TypeOK, Goto, Accounted
<1>1. ASSUME NEW r \in Requests, FastPath(r) PROVE Accounted'
  BY <1>1 DEF FastPath, lockVars, serverVars, requestVars
<1>2. ASSUME NEW r \in Requests, EvalShaAnswered(r) PROVE Accounted'
  BY <1>2 DEF EvalShaAnswered, Ran, Return, RUnlock, lockVars, serverVars, requestVars
<1>3. ASSUME NEW r \in Requests, EvalShaNoScript(r) PROVE Accounted'
  BY <1>3 DEF EvalShaNoScript, RUnlock, lockVars, serverVars, requestVars
<1>4. ASSUME NEW r \in Requests, EvalShaLost(r) PROVE Accounted'
  BY <1>4 DEF EvalShaLost, Ran, MoreTries, RUnlock, lockVars, serverVars, requestVars
<1>5. ASSUME NEW r \in Requests, ClearSha(r) PROVE Accounted'
  BY <1>5 DEF ClearSha, lockVars, serverVars, requestVars
<1>6. ASSUME NEW r \in Requests, EvalAnswered(r) PROVE Accounted'
  BY <1>6 DEF EvalAnswered, Ran, Return, SpawnRepair, lockVars, serverVars, requestVars
<1>7. ASSUME NEW r \in Requests, EvalLost(r) PROVE Accounted'
  BY <1>7 DEF EvalLost, Ran, MoreTries, EvalGivenUp, Return, lockVars, serverVars, requestVars
<1>8. ASSUME NEW r \in Requests, RepairLock(r) PROVE Accounted'
  BY <1>8 DEF RepairLock, RepairNeeded, lockVars, serverVars, requestVars
<1>9. ASSUME NEW r \in Requests, RepairLoad(r) PROVE Accounted'
  BY <1>9 DEF RepairLoad, lockVars, serverVars, requestVars
<1>10. ASSUME NEW r \in Requests, EndRequest(r) PROVE Accounted'
  BY <1>10 DEF EndRequest, lockVars, serverVars, requestVars
<1>11. ASSUME Flush PROVE Accounted'
  BY <1>11 DEF Flush, lockVars, serverVars, requestVars
<1>12. ASSUME UNCHANGED vars PROVE Accounted'
  BY <1>12 DEF vars, lockVars, serverVars, requestVars
<1>13. ASSUME NEW r \in Requests, Lock(r) PROVE Accounted'
  BY <1>13 DEF Lock, lockVars, serverVars, requestVars
<1> QED
  BY <1>1, <1>2, <1>3, <1>4, <1>5, <1>6, <1>7, <1>8, <1>9, <1>10, <1>11, <1>12,
     <1>13
  DEF Next, Call, Repair, Quiet

LEMMA LInvariance == Spec => []LInv
<1>1. LInv /\ [Next]_vars => LInv'
  BY TypeStep, LockedStep, AccountedStep DEF LInv
<1> QED
  BY InitLInv, <1>1, PTL DEF Spec

(***************************************************************************)
(* Every variable keeps its type.                                          *)
(***************************************************************************)
THEOREM TypeCorrect == Spec => []TypeOK
<1>1. LInv => TypeOK
  BY DEF LInv
<1> QED
  BY <1>1, LInvariance, PTL

(***************************************************************************)
(* However many requests meet NOSCRIPT, lose answers and repair together,  *)
(* a call that reports success has run the script, and every run beyond    *)
(* the first is explained by an answer lost or refused.                    *)
(***************************************************************************)
THEOREM EveryRunExplained == Spec => []RunsExplained
<1>1. LInv => RunsExplained
  BY DEF LInv, Accounted, RunsExplained
<1> QED
  BY <1>1, LInvariance, PTL

(***************************************************************************)
(* A repair loads the script alone: no call is using the sha, the sha is   *)
(* empty, and no other repair is loading.                                  *)
(***************************************************************************)
THEOREM RepairsExclusive == Spec => []RepairAlone
<1>1. LInv => RepairAlone
  BY RequestsAssumption DEF LInv, Locked, RepairAlone
<1> QED
  BY <1>1, LInvariance, PTL

(***************************************************************************)
(* Without a respFn that panics no read lock outlives its call, whatever   *)
(* Redis answers: each reader is a call still in its fast path.            *)
(***************************************************************************)
THEOREM ReadLocksGivenBack ==
    Spec => [](\A r \in readers : pc[r] = "evalsha" \/ (respFn /\ outcome[r] = "panic"))
<1>1. LInv => \A r \in readers : pc[r] = "evalsha" \/ (respFn /\ outcome[r] = "panic")
  BY DEF LInv, Locked, LeftLocked
<1> QED
  BY <1>1, LInvariance, PTL

-----------------------------------------------------------------------------
\* Who was to load the script still is, is handed the task on, or has failed.
LEMMA ForgottenStep ==
    LInv /\ ScriptNotForgotten /\ [Next]_vars => ScriptNotForgotten'
<1> DEFINE Kept(r) == WillRepair(r) \/ repair[r] = "failed" \/ outcome[r] = "error"
<1> SUFFICES ASSUME LInv, ScriptNotForgotten, [Next]_vars, ~respFn', ~loaded',
                    NEW b \in Requests, pc'[b] # "new"
             PROVE  \E r \in Requests : Kept(r)'
  BY DEF ScriptNotForgotten
<1> USE DEF LInv, TypeOK, Goto, WillRepair
<1>1. ASSUME NEW r \in Requests, FastPath(r) PROVE \E q \in Requests : Kept(q)'
  <2>1. ~loaded /\ pc'[r] = "eval"
    BY <1>1 DEF FastPath
  <2> QED
    BY <2>1
<1>2. ASSUME NEW r \in Requests, ClearSha(r) PROVE \E q \in Requests : Kept(q)'
  <2>1. pc'[r] = "eval"
    BY <1>2 DEF ClearSha
  <2> QED
    BY <2>1
\* The other steps neither clear the sha nor begin a call, so that there was
\* somebody before the step.
<1>3. ASSUME UNCHANGED <<respFn, loaded>>, \A q \in Requests : pc[q] = "new" => pc'[q] = "new"
      PROVE  \E w \in Requests : Kept(w)
  BY <1>3 DEF ScriptNotForgotten
<1>4. ASSUME NEW r \in Requests, EvalShaAnswered(r) \/ EvalShaNoScript(r) \/ EvalShaLost(r)
      PROVE  \E q \in Requests : Kept(q)'
  <2>1. pc[r] = "evalsha" /\ UNCHANGED <<respFn, loaded, repair>>
    BY <1>4 DEF EvalShaAnswered, EvalShaNoScript, EvalShaLost
  <2>2. \A q \in Requests \ {r} : pc'[q] = pc[q] /\ outcome'[q] = outcome[q]
    BY <1>4 DEF EvalShaAnswered, EvalShaNoScript, EvalShaLost, Return
  <2>3. ~Kept(r)
    BY <2>1 DEF Locked, Accounted
  <2>4. PICK w \in Requests : Kept(w)
    BY <1>3, <2>1, <2>2
  <2> QED
    BY <2>1, <2>2, <2>3, <2>4
<1>5. ASSUME NEW r \in Requests, EvalAnswered(r) PROVE \E q \in Requests : Kept(q)'
  <2>1. ~respFn
    BY <1>5 DEF EvalAnswered
  <2>2. repair'[r] = "waiting"
    BY <1>5, <2>1 DEF EvalAnswered, SpawnRepair
  <2> QED
    BY <2>2
<1>6. ASSUME NEW r \in Requests, EvalLost(r) PROVE \E q \in Requests : Kept(q)'
  <2>1. pc'[r] = "eval" \/ outcome'[r] = "error"
    BY <1>6 DEF EvalLost, EvalGivenUp, Return
  <2> QED
    BY <2>1
<1>7. ASSUME NEW r \in Requests, RepairLock(r) \/ RepairLoad(r)
      PROVE  \E q \in Requests : Kept(q)'
  <2>1. ~loaded /\ UNCHANGED <<respFn, loaded, pc, outcome>>
    BY <1>7 DEF RepairLock, RepairLoad, requestVars
  <2>2. repair'[r] \in {"loading", "failed"}
    BY <1>7, <2>1 DEF RepairLock, RepairNeeded, RepairLoad
  <2> QED
    BY <2>2
<1>8. ASSUME UNCHANGED <<respFn, loaded, pc, outcome, repair>>
      PROVE  \E q \in Requests : Kept(q)'
  BY <1>3, <1>8
<1>9. ASSUME NEW r \in Requests, EndRequest(r) \/ Lock(r)
      PROVE  UNCHANGED <<respFn, loaded, pc, outcome, repair>>
  BY <1>9 DEF EndRequest, Lock, requestVars
<1>10. ASSUME Flush \/ Quiet \/ UNCHANGED vars
       PROVE  UNCHANGED <<respFn, loaded, pc, outcome, repair>>
  BY <1>10 DEF Flush, Quiet, vars, requestVars
<1> QED
  BY <1>1, <1>2, <1>4, <1>5, <1>6, <1>7, <1>8, <1>9, <1>10 DEF Next, Call, Repair

(***************************************************************************)
(* The sha is only cleared by a call that goes on to EVAL, and a repair    *)
(* ends without loading only where it finds the sha again or fails: with   *)
(* any number of requests a script found missing is on somebody's list     *)
(* until it is loaded, or something failed.                                *)
(***************************************************************************)
THEOREM NeverForgotten == Spec => []ScriptNotForgotten
<1>1. Init => ScriptNotForgotten
  BY DEF Init, ScriptNotForgotten
<1>2. LInv /\ ScriptNotForgotten /\ [Next]_vars => ScriptNotForgotten'
  BY ForgottenStep
<1> QED
  BY <1>1, <1>2, LInvariance, PTL DEF Spec

NoRepairs == respFn => \A r \in Requests : repair[r] = "none"

(***************************************************************************)
(* Why an executor with a respFn does not load the script again: a repair  *)
(* is never spawned, so a sha that is empty stays empty, whatever the calls*)
(* meet.  EVAL then runs the whole script for each of them.                *)
(***************************************************************************)
THEOREM RespFnNeverReloads == Spec => [][respFn /\ ~loaded => ~loaded']_vars
<1>1. Init => NoRepairs
  BY DEF Init, NoRepairs
<1>2. NoRepairs /\ [Next]_vars => NoRepairs' /\ [respFn /\ ~loaded => ~loaded']_vars
  <2> SUFFICES ASSUME NoRepairs, [Next]_vars
               PROVE  NoRepairs' /\ (respFn /\ ~loaded => ~loaded')
    OBVIOUS
  <2> DEFINE Left == UNCHANGED respFn /\ (respFn => UNCHANGED repair /\ (~loaded => ~loaded'))
  <2>1. ASSUME NEW r \in Requests, Repair(r) PROVE Left
    BY <2>1 DEF Repair, RepairLock, RepairLoad, NoRepairs
  <2>2. ASSUME NEW r \in Requests, Call(r) PROVE Left
    <3>1. CASE ClearSha(r)
      BY <3>1 DEF ClearSha
    <3>2. CASE EvalAnswered(r)
      BY <3>2 DEF EvalAnswered
    <3>3. CASE EvalLost(r)
      BY <3>3 DEF EvalLost
    <3>4. CASE \/ FastPath(r) \/ EvalShaAnswered(r)
               \/ EvalShaNoScript(r) \/ EvalShaLost(r)
      <4>1. UNCHANGED <<respFn, loaded, repair>>
        BY <3>4 DEF FastPath, EvalShaAnswered, EvalShaNoScript, EvalShaLost
      <4> QED
        BY <4>1
    <3> QED
      BY <2>2, <3>1, <3>2, <3>3, <3>4 DEF Call
  <2>3. ASSUME NEW r \in Requests, EndRequest(r) \/ Lock(r) PROVE Left
    BY <2>3 DEF EndRequest, Lock
  <2>4. ASSUME Flush \/ Quiet \/ UNCHANGED vars PROVE Left
    BY <2>4 DEF Flush, Quiet, vars
  <2>5. Left
    BY <2>1, <2>2, <2>3, <2>4 DEF Next
  <2> QED
    BY <2>5 DEF NoRepairs
<1> QED
  BY <1>1, <1>2, PTL DEF Spec
=============================================================================
