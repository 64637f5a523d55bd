------------------------- MODULE KafkaConsumerProofs -------------------------
(***************************************************************************)
(* Proofs about KafkaConsumer, for any partitions, number of messages,     *)
(* sessions and restarts.                                                  *)
(***************************************************************************)
EXTENDS KafkaConsumer, TLAPS

\* The channels are numbered in the order they are made, and the bound on
\* sessions is respected.
ReadyKnown ==
    /\ closed \subseteq 1 .. ready
    /\ starter = "new" => ready = 0 /\ loop = "none"
    /\ loop # "none" => ready # 0
    /\ loop = "session" /\ ending => Cancelled \/ ready < MaxSessions
    /\ loop = "consumed" => Cancelled \/ ready < MaxSessions

\* Claims run in a session only.
Claiming == loop # "session" => Assigned = {}

\* A claim has passed what it was given up to its offset, and no further than
\* the handler could mark.
Passed ==
    \A p \in Partitions :
        claim[p] # "none" =>
            /\ marked[p] <= next[p]
            /\ \A o \in Offsets : o < next[p] => o \in handled[p]
            /\ claim[p] = "handling" => next[p] < Messages

KInv == TypeOK /\ ReadyKnown /\ ReadyIsFresh /\ Claiming /\ Passed
          /\ NothingSkipped /\ NothingLeftRunning

-----------------------------------------------------------------------------
LEMMA InitKInv == Init => KInv
<1> SUFFICES ASSUME Init PROVE KInv
  OBVIOUS
<1>1. 0 \in Offsets /\ 0 \in 0 .. MaxSessions /\ 0 \in 0 .. MaxRestarts
  BY BoundsAssumption DEF Offsets
<1>2. TypeOK
  BY <1>1 DEF Init, TypeOK
<1>3. ReadyKnown /\ ReadyIsFresh /\ Claiming
  BY DEF Init, ReadyKnown, ReadyIsFresh, Claiming, Assigned
<1>4. Passed /\ NothingSkipped /\ NothingLeftRunning
  BY DEF Init, Passed, NothingSkipped, NothingLeftRunning, Offsets
<1> QED
  BY <1>2, <1>3, <1>4 DEF KInv

LEMMA TypeStep == KInv /\ [Next]_vars => TypeOK'
<1> SUFFICES ASSUME KInv, [Next]_vars PROVE TypeOK'
  OBVIOUS
<1> USE BoundsAssumption DEF KInv, TypeOK, Offsets, Stopped
<1>1. ASSUME Refuse PROVE TypeOK'
  BY <1>1 DEF Refuse, startVars, sessionVars, brokerVars, worldVars
<1>2. ASSUME Launch PROVE TypeOK'
  BY <1>2 DEF Launch, ReadyKnown, startVars, sessionVars, brokerVars, worldVars
<1>3. ASSUME ReadReady PROVE TypeOK'
  BY <1>3 DEF ReadReady, startVars, sessionVars, brokerVars, worldVars
<1>4. ASSUME Up PROVE TypeOK'
  BY <1>4 DEF Up, startVars, sessionVars, brokerVars, worldVars
<1>5. ASSUME Terminate PROVE TypeOK'
  BY <1>5 DEF Terminate, Cancel, startVars, sessionVars, brokerVars, worldVars
<1>6. ASSUME Close PROVE TypeOK'
  BY <1>6 DEF Close, Drained, startVars, sessionVars, brokerVars, worldVars
<1>7. ASSUME Setup PROVE TypeOK'
  <2>1. ready \in 1 .. MaxSessions
    BY <1>7 DEF Setup, ReadyKnown
  <2>2. claim' \in [Partitions -> {"none", "idle", "handling", "returned"}]
    BY <1>7 DEF Setup
  <2> QED
    BY <1>7, <2>1, <2>2 DEF Setup, brokerVars, worldVars
<1>8. ASSUME Panic PROVE TypeOK'
  BY <1>8 DEF Panic, startVars, sessionVars, brokerVars, worldVars
<1>9. ASSUME EndSession PROVE TypeOK'
  BY <1>9 DEF EndSession, Alive, startVars, sessionVars, brokerVars, worldVars
<1>10. ASSUME Commit PROVE TypeOK'
  BY <1>10 DEF Commit, CommitMarked, Alive, startVars, sessionVars, brokerVars, worldVars
<1>11. ASSUME EndConsume PROVE TypeOK'
  BY <1>11 DEF EndConsume, CommitMarked, Alive, startVars, sessionVars, brokerVars, worldVars
<1>12. ASSUME Consumed PROVE TypeOK'
  BY <1>12 DEF Consumed, ReadyKnown, Cancelled, Again, NewReady, Alive, startVars, sessionVars, brokerVars, worldVars
<1>13. ASSUME NEW p \in Partitions, Deliver(p) PROVE TypeOK'
  BY <1>13 DEF Deliver, NotMarked, HasMessage, Alive, startVars, sessionVars, brokerVars, worldVars
<1>14. ASSUME NEW p \in Partitions, Handle(p) PROVE TypeOK'
  <2>1. next[p] \in Offsets /\ next[p] + 1 \in Offsets
    BY <1>14 DEF Handle, Passed
  <2>2. handled[p] \cup {next[p]} \in SUBSET Offsets
    BY <2>1
  <2>3. handled' \in [Partitions -> SUBSET Offsets]
    BY <1>14, <2>2 DEF Handle
  <2>4. marked' \in [Partitions -> Offsets] /\ next' \in [Partitions -> Offsets]
    BY <1>14, <2>1 DEF Handle
  <2> QED
    BY <1>14, <2>3, <2>4 DEF Handle, startVars, worldVars
<1>15. ASSUME NEW p \in Partitions, ClaimReturns(p) PROVE TypeOK'
  BY <1>15 DEF ClaimReturns, Alive, startVars, sessionVars, brokerVars, worldVars
<1>16. ASSUME CancelContext PROVE TypeOK'
  BY <1>16 DEF CancelContext, Alive, startVars, sessionVars, brokerVars, worldVars
<1>17. ASSUME Signal PROVE TypeOK'
  BY <1>17 DEF Signal, startVars, sessionVars, brokerVars, worldVars
<1>18. ASSUME Crash PROVE TypeOK'
  BY <1>18 DEF Crash, startVars, sessionVars, brokerVars, worldVars
<1>19. ASSUME Restart PROVE TypeOK'
  <2>1. 0 \in Offsets /\ restarts + 1 \in 0 .. MaxRestarts
    BY <1>19 DEF Restart
  <2>2. /\ claim' \in [Partitions -> {"none", "idle", "handling", "returned"}]
        /\ next' \in [Partitions -> Offsets]
        /\ marked' \in [Partitions -> Offsets]
    BY <1>19, <2>1 DEF Restart
  <2>3. /\ ready' \in 0 .. MaxSessions /\ awaited' \in 0 .. MaxSessions
        /\ closed' \subseteq 1 .. MaxSessions /\ restarts' \in 0 .. MaxRestarts
    BY <1>19, <2>1 DEF Restart
  <2>4. /\ ctxDone' \in BOOLEAN /\ signaled' \in BOOLEAN
        /\ canceled' \in BOOLEAN /\ ending' \in BOOLEAN
    BY <1>19 DEF Restart
  <2>5. /\ committed' \in [Partitions -> Offsets]
        /\ handled' \in [Partitions -> SUBSET Offsets]
    BY <1>19 DEF Restart, brokerVars
  <2> QED
    BY <1>19, <2>2, <2>3, <2>4, <2>5 DEF Restart
<1>20. ASSUME UNCHANGED vars PROVE TypeOK'
  BY <1>20 DEF vars, startVars, sessionVars, brokerVars, worldVars
<1>21. ASSUME Join PROVE TypeOK'
  BY <1>21 DEF Join, Alive, startVars, sessionVars, brokerVars, worldVars
<1> QED
  BY <1>1, <1>2, <1>3, <1>4, <1>5, <1>6, <1>7, <1>8, <1>9, <1>10, <1>11, <1>12, <1>13, <1>14, <1>15, <1>16, <1>17, <1>18, <1>19, <1>20,
     <1>21
  DEF Next, StartStep, LoopStep, ClaimStep, Quiet

LEMMA ReadyStep == KInv /\ [Next]_vars => (ReadyKnown /\ ReadyIsFresh)'
<1> SUFFICES ASSUME KInv, [Next]_vars PROVE (ReadyKnown /\ ReadyIsFresh)'
  OBVIOUS
<1> USE BoundsAssumption DEF KInv, TypeOK, ReadyKnown, ReadyIsFresh, Cancelled, Stopped
<1>1. ASSUME Refuse PROVE (ReadyKnown /\ ReadyIsFresh)'
  BY <1>1 DEF Refuse, startVars, sessionVars, brokerVars, worldVars
<1>2. ASSUME Launch PROVE (ReadyKnown /\ ReadyIsFresh)'
  BY <1>2 DEF Launch, startVars, sessionVars, brokerVars, worldVars
<1>3. ASSUME ReadReady PROVE (ReadyKnown /\ ReadyIsFresh)'
  BY <1>3 DEF ReadReady, startVars, sessionVars, brokerVars, worldVars
<1>4. ASSUME Up PROVE (ReadyKnown /\ ReadyIsFresh)'
  BY <1>4 DEF Up, startVars, sessionVars, brokerVars, worldVars
<1>5. ASSUME Terminate PROVE (ReadyKnown /\ ReadyIsFresh)'
  BY <1>5 DEF Terminate, Cancel, startVars, sessionVars, brokerVars, worldVars
<1>6. ASSUME Close PROVE (ReadyKnown /\ ReadyIsFresh)'
  BY <1>6 DEF Close, Drained, startVars, sessionVars, brokerVars, worldVars
<1>7. ASSUME Setup PROVE (ReadyKnown /\ ReadyIsFresh)'
  BY <1>7 DEF Setup, Alive, startVars, sessionVars, brokerVars, worldVars
<1>8. ASSUME Panic PROVE (ReadyKnown /\ ReadyIsFresh)'
  BY <1>8 DEF Panic, startVars, sessionVars, brokerVars, worldVars
<1>9. ASSUME EndSession PROVE (ReadyKnown /\ ReadyIsFresh)'
  BY <1>9 DEF EndSession, Alive, startVars, sessionVars, brokerVars, worldVars
<1>10. ASSUME Commit PROVE (ReadyKnown /\ ReadyIsFresh)'
  BY <1>10 DEF Commit, CommitMarked, Alive, startVars, sessionVars, brokerVars, worldVars
<1>11. ASSUME EndConsume PROVE (ReadyKnown /\ ReadyIsFresh)'
  BY <1>11 DEF EndConsume, CommitMarked, Alive, startVars, sessionVars, brokerVars, worldVars
<1>12. ASSUME Consumed PROVE (ReadyKnown /\ ReadyIsFresh)'
  BY <1>12 DEF Consumed, Again, NewReady, Alive, startVars, sessionVars, brokerVars, worldVars
<1>13. ASSUME NEW p \in Partitions, Deliver(p) PROVE (ReadyKnown /\ ReadyIsFresh)'
  BY <1>13 DEF Deliver, NotMarked, HasMessage, Alive, startVars, sessionVars, brokerVars, worldVars
<1>14. ASSUME NEW p \in Partitions, Handle(p) PROVE (ReadyKnown /\ ReadyIsFresh)'
  BY <1>14 DEF Handle, Alive, startVars, sessionVars, brokerVars, worldVars
<1>15. ASSUME NEW p \in Partitions, ClaimReturns(p) PROVE (ReadyKnown /\ ReadyIsFresh)'
  BY <1>15 DEF ClaimReturns, Alive, startVars, sessionVars, brokerVars, worldVars
<1>16. ASSUME CancelContext PROVE (ReadyKnown /\ ReadyIsFresh)'
  BY <1>16 DEF CancelContext, Alive, startVars, sessionVars, brokerVars, worldVars
<1>17. ASSUME Signal PROVE (ReadyKnown /\ ReadyIsFresh)'
  BY <1>17 DEF Signal, startVars, sessionVars, brokerVars, worldVars
<1>18. ASSUME Crash PROVE (ReadyKnown /\ ReadyIsFresh)'
  BY <1>18 DEF Crash, startVars, sessionVars, brokerVars, worldVars
<1>19. ASSUME Restart PROVE (ReadyKnown /\ ReadyIsFresh)'
  BY <1>19 DEF Restart, startVars, sessionVars, brokerVars, worldVars
<1>20. ASSUME UNCHANGED vars PROVE (ReadyKnown /\ ReadyIsFresh)'
  BY <1>20 DEF vars, startVars, sessionVars, brokerVars, worldVars
<1>21. ASSUME Join PROVE (ReadyKnown /\ ReadyIsFresh)'
  BY <1>21 DEF Join, Alive, startVars, sessionVars, brokerVars, worldVars
<1> QED
  BY <1>1, <1>2, <1>3, <1>4, <1>5, <1>6, <1>7, <1>8, <1>9, <1>10, <1>11, <1>12, <1>13, <1>14, <1>15, <1>16, <1>17, <1>18, <1>19, <1>20,
     <1>21
  DEF Next, StartStep, LoopStep, ClaimStep, Quiet

LEMMA ClaimStepKeeps == KInv /\ [Next]_vars => (Claiming /\ NothingLeftRunning)'
<1> SUFFICES ASSUME KInv, [Next]_vars PROVE (Claiming /\ NothingLeftRunning)'
  OBVIOUS
<1> USE BoundsAssumption DEF KInv, TypeOK, Claiming, NothingLeftRunning, Assigned, Stopped
<1>1. ASSUME Refuse PROVE (Claiming /\ NothingLeftRunning)'
  BY <1>1 DEF Refuse, startVars, sessionVars, brokerVars, worldVars
<1>2. ASSUME Launch PROVE (Claiming /\ NothingLeftRunning)'
  BY <1>2 DEF Launch, ReadyKnown, startVars, sessionVars, brokerVars, worldVars
<1>3. ASSUME ReadReady PROVE (Claiming /\ NothingLeftRunning)'
  BY <1>3 DEF ReadReady, startVars, sessionVars, brokerVars, worldVars
<1>4. ASSUME Up PROVE (Claiming /\ NothingLeftRunning)'
  BY <1>4 DEF Up, startVars, sessionVars, brokerVars, worldVars
<1>5. ASSUME Terminate PROVE (Claiming /\ NothingLeftRunning)'
  BY <1>5 DEF Terminate, Cancel, startVars, sessionVars, brokerVars, worldVars
<1>6. ASSUME Close PROVE (Claiming /\ NothingLeftRunning)'
  BY <1>6 DEF Close, Drained, startVars, sessionVars, brokerVars, worldVars
<1>7. ASSUME Setup PROVE (Claiming /\ NothingLeftRunning)'
  BY <1>7 DEF Setup, Alive, startVars, sessionVars, brokerVars, worldVars
<1>8. ASSUME Panic PROVE (Claiming /\ NothingLeftRunning)'
  BY <1>8 DEF Panic, startVars, sessionVars, brokerVars, worldVars
<1>9. ASSUME EndSession PROVE (Claiming /\ NothingLeftRunning)'
  BY <1>9 DEF EndSession, Alive, startVars, sessionVars, brokerVars, worldVars
<1>10. ASSUME Commit PROVE (Claiming /\ NothingLeftRunning)'
  BY <1>10 DEF Commit, CommitMarked, Alive, startVars, sessionVars, brokerVars, worldVars
<1>11. ASSUME EndConsume PROVE (Claiming /\ NothingLeftRunning)'
  BY <1>11 DEF EndConsume, CommitMarked, Alive, startVars, sessionVars, brokerVars, worldVars
<1>12. ASSUME Consumed PROVE (Claiming /\ NothingLeftRunning)'
  BY <1>12 DEF Consumed, Again, NewReady, Alive, startVars, sessionVars, brokerVars, worldVars
<1>13. ASSUME NEW p \in Partitions, Deliver(p) PROVE (Claiming /\ NothingLeftRunning)'
  BY <1>13 DEF Deliver, NotMarked, HasMessage, Alive, startVars, sessionVars, brokerVars, worldVars
<1>14. ASSUME NEW p \in Partitions, Handle(p) PROVE (Claiming /\ NothingLeftRunning)'
  BY <1>14 DEF Handle, Alive, startVars, sessionVars, brokerVars, worldVars
<1>15. ASSUME NEW p \in Partitions, ClaimReturns(p) PROVE (Claiming /\ NothingLeftRunning)'
  BY <1>15 DEF ClaimReturns, Alive, startVars, sessionVars, brokerVars, worldVars
<1>16. ASSUME CancelContext PROVE (Claiming /\ NothingLeftRunning)'
  BY <1>16 DEF CancelContext, Alive, startVars, sessionVars, brokerVars, worldVars
<1>17. ASSUME Signal PROVE (Claiming /\ NothingLeftRunning)'
  BY <1>17 DEF Signal, startVars, sessionVars, brokerVars, worldVars
<1>18. ASSUME Crash PROVE (Claiming /\ NothingLeftRunning)'
  BY <1>18 DEF Crash, startVars, sessionVars, brokerVars, worldVars
<1>19. ASSUME Restart PROVE (Claiming /\ NothingLeftRunning)'
  BY <1>19 DEF Restart, startVars, sessionVars, brokerVars, worldVars
<1>20. ASSUME UNCHANGED vars PROVE (Claiming /\ NothingLeftRunning)'
  BY <1>20 DEF vars, startVars, sessionVars, brokerVars, worldVars
<1>21. ASSUME Join PROVE (Claiming /\ NothingLeftRunning)'
  BY <1>21 DEF Join, Alive, startVars, sessionVars, brokerVars, worldVars
<1> QED
  BY <1>1, <1>2, <1>3, <1>4, <1>5, <1>6, <1>7, <1>8, <1>9, <1>10, <1>11, <1>12, <1>13, <1>14, <1>15, <1>16, <1>17, <1>18, <1>19, <1>20,
     <1>21
  DEF Next, StartStep, LoopStep, ClaimStep, Quiet

LEMMA PassedStep == KInv /\ [Next]_vars => (Passed /\ NothingSkipped)'
<1> SUFFICES ASSUME KInv, [Next]_vars PROVE (Passed /\ NothingSkipped)'
  OBVIOUS
<1> USE BoundsAssumption DEF KInv, TypeOK, Passed, NothingSkipped, Claiming, Assigned, Offsets
<1>1. ASSUME Refuse PROVE (Passed /\ NothingSkipped)'
  BY <1>1 DEF Refuse, startVars, sessionVars, brokerVars, worldVars
<1>2. ASSUME Launch PROVE (Passed /\ NothingSkipped)'
  BY <1>2 DEF Launch, startVars, sessionVars, brokerVars, worldVars
<1>3. ASSUME ReadReady PROVE (Passed /\ NothingSkipped)'
  BY <1>3 DEF ReadReady, startVars, sessionVars, brokerVars, worldVars
<1>4. ASSUME Up PROVE (Passed /\ NothingSkipped)'
  BY <1>4 DEF Up, startVars, sessionVars, brokerVars, worldVars
<1>5. ASSUME Terminate PROVE (Passed /\ NothingSkipped)'
  BY <1>5 DEF Terminate, Cancel, startVars, sessionVars, brokerVars, worldVars
<1>6. ASSUME Close PROVE (Passed /\ NothingSkipped)'
  BY <1>6 DEF Close, Drained, startVars, sessionVars, brokerVars, worldVars
<1>7. ASSUME Setup PROVE (Passed /\ NothingSkipped)'
  BY <1>7 DEF Setup, Alive, startVars, sessionVars, brokerVars, worldVars
<1>8. ASSUME Panic PROVE (Passed /\ NothingSkipped)'
  BY <1>8 DEF Panic, startVars, sessionVars, brokerVars, worldVars
<1>9. ASSUME EndSession PROVE (Passed /\ NothingSkipped)'
  BY <1>9 DEF EndSession, Alive, startVars, sessionVars, brokerVars, worldVars
<1>10. ASSUME Commit PROVE (Passed /\ NothingSkipped)'
  BY <1>10 DEF Commit, CommitMarked, Alive, startVars, sessionVars, brokerVars, worldVars
<1>11. ASSUME EndConsume PROVE (Passed /\ NothingSkipped)'
  BY <1>11 DEF EndConsume, CommitMarked, Alive, startVars, sessionVars, brokerVars, worldVars
<1>12. ASSUME Consumed PROVE (Passed /\ NothingSkipped)'
  BY <1>12 DEF Consumed, Again, NewReady, Alive, startVars, sessionVars, brokerVars, worldVars
<1>13. ASSUME NEW p \in Partitions, Deliver(p) PROVE (Passed /\ NothingSkipped)'
  BY <1>13 DEF Deliver, NotMarked, HasMessage, Alive, startVars, sessionVars, brokerVars, worldVars
<1>14. ASSUME NEW p \in Partitions, Handle(p) PROVE (Passed /\ NothingSkipped)'
  <2>1. /\ next[p] \in Nat /\ next[p] < Messages /\ marked[p] \in Nat
        /\ marked[p] <= next[p]
    BY <1>14 DEF Handle
  <2>2. /\ next' = [next EXCEPT ![p] = next[p] + 1]
        /\ \A q \in Partitions : handled[q] \subseteq handled'[q]
        /\ next[p] \in handled'[p]
    BY <1>14 DEF Handle
  <2>3. ASSUME NEW q \in Partitions, claim'[q] # "none"
        PROVE  /\ marked'[q] <= next'[q]
               /\ \A o \in Offsets : o < next'[q] => o \in handled'[q]
               /\ claim'[q] = "handling" => next'[q] < Messages
    <3>1. CASE q = p
      <4>1. next'[q] = next[p] + 1 /\ claim'[q] = "idle"
        BY <1>14, <3>1 DEF Handle
      <4>2. marked'[q] <= next'[q]
        BY <1>14, <2>1, <3>1, <4>1 DEF Handle
      <4>3. \A o \in Offsets : o < next[p] + 1 => o < next[p] \/ o = next[p]
        BY <2>1
      <4> QED
        BY <1>14, <2>2, <3>1, <4>1, <4>2, <4>3 DEF Handle
    <3>2. CASE q # p
      <4>1. /\ next'[q] = next[q] /\ marked'[q] = marked[q] /\ claim'[q] = claim[q]
            /\ handled'[q] = handled[q]
        BY <1>14, <3>2 DEF Handle
      <4> QED
        BY <2>3, <4>1
    <3> QED
      BY <3>1, <3>2
  <2>4. NothingSkipped'
    BY <1>14, <2>2 DEF Handle
  <2> QED
    BY <2>3, <2>4
<1>15. ASSUME NEW p \in Partitions, ClaimReturns(p) PROVE (Passed /\ NothingSkipped)'
  BY <1>15 DEF ClaimReturns, Alive, startVars, sessionVars, brokerVars, worldVars
<1>16. ASSUME CancelContext PROVE (Passed /\ NothingSkipped)'
  BY <1>16 DEF CancelContext, Alive, startVars, sessionVars, brokerVars, worldVars
<1>17. ASSUME Signal PROVE (Passed /\ NothingSkipped)'
  BY <1>17 DEF Signal, startVars, sessionVars, brokerVars, worldVars
<1>18. ASSUME Crash PROVE (Passed /\ NothingSkipped)'
  BY <1>18 DEF Crash, startVars, sessionVars, brokerVars, worldVars
<1>19. ASSUME Restart PROVE (Passed /\ NothingSkipped)'
  BY <1>19 DEF Restart, startVars, sessionVars, brokerVars, worldVars
<1>20. ASSUME UNCHANGED vars PROVE (Passed /\ NothingSkipped)'
  BY <1>20 DEF vars, startVars, sessionVars, brokerVars, worldVars
<1>21. ASSUME Join PROVE (Passed /\ NothingSkipped)'
  BY <1>21 DEF Join, Alive, startVars, sessionVars, brokerVars, worldVars
<1> QED
  BY <1>1, <1>2, <1>3, <1>4, <1>5, <1>6, <1>7, <1>8, <1>9, <1>10, <1>11, <1>12, <1>13, <1>14, <1>15, <1>16, <1>17, <1>18, <1>19, <1>20,
     <1>21
  DEF Next, StartStep, LoopStep, ClaimStep, Quiet

LEMMA KInvariance == Spec => []KInv
<1>1. KInv /\ [Next]_vars => KInv'
  BY TypeStep, ReadyStep, ClaimStepKeeps, PassedStep DEF KInv
<1> QED
  BY InitKInv, <1>1, PTL DEF Spec

(***************************************************************************)
(* Every variable keeps its type; in particular no ready channel is made   *)
(* beyond the sessions there are.                                          *)
(***************************************************************************)
THEOREM TypeCorrect == Spec => []TypeOK
<1>1. KInv => TypeOK
  BY DEF KInv
<1> QED
  BY <1>1, KInvariance, PTL

(***************************************************************************)
(* Setup never closes a closed channel, however sessions, the starter's    *)
(* unsynchronised read and cancellation interleave.                        *)
(***************************************************************************)
THEOREM SetupNeverPanics == Spec => []ReadyIsFresh
<1>1. KInv => ReadyIsFresh
  BY DEF KInv
<1> QED
  BY <1>1, KInvariance, PTL

(***************************************************************************)
(* Whatever the rebalances, refused commits and crashes, and however many  *)
(* partitions and messages, the committed offset of a partition never      *)
(* passes a message that has not been through a handler.                   *)
(***************************************************************************)
THEOREM AtLeastOnce == Spec => []NothingSkipped
<1>1. KInv => NothingSkipped
  BY DEF KInv
<1> QED
  BY <1>1, KInvariance, PTL

(***************************************************************************)
(* Start returns only when its loop, its claims and its client are done.   *)
(***************************************************************************)
THEOREM ReturnsClean == Spec => []NothingLeftRunning
<1>1. KInv => NothingLeftRunning
  BY DEF KInv
<1> QED
  BY <1>1, KInvariance, PTL

-----------------------------------------------------------------------------
\* The consumer implements AtLeastOnceDelivery.
\* What a claim has marked is never behind what is committed: it starts there.
Ahead == \A p \in Partitions : claim[p] # "none" => committed[p] <= marked[p]

LEMMA AheadStep == KInv /\ Ahead /\ [Next]_vars => Ahead'
<1> SUFFICES ASSUME KInv, Ahead, [Next]_vars PROVE Ahead'
  OBVIOUS
<1> USE BoundsAssumption DEF KInv, TypeOK, Ahead, Offsets
<1>1. CASE Setup
  BY <1>1 DEF Setup, brokerVars
<1>2. CASE Commit
  BY <1>2 DEF Commit, CommitMarked, Assigned, sessionVars
<1>3. CASE EndConsume \/ Restart
  BY <1>3 DEF EndConsume, Restart
<1>4. ASSUME NEW p \in Partitions, Handle(p) PROVE Ahead'
  <2>1. /\ committed' = committed /\ marked[p] <= next[p]
        /\ claim[p] # "none" /\ marked[p] \in Nat /\ next[p] \in Nat /\ committed[p] \in Nat
    BY <1>4 DEF Handle, Passed
  <2>2. committed[p] <= marked[p] /\ marked'[p] \in {marked[p], next[p] + 1}
    BY <1>4, <2>1 DEF Handle
  <2>3. \A q \in Partitions \ {p} : claim'[q] = claim[q] /\ marked'[q] = marked[q]
    BY <1>4 DEF Handle
  <2> QED
    BY <2>1, <2>2, <2>3
<1>5. ASSUME NEW p \in Partitions, Deliver(p) \/ ClaimReturns(p) PROVE Ahead'
  <2>1. UNCHANGED <<committed, marked>> /\ claim[p] # "none"
    BY <1>5 DEF Deliver, NotMarked, ClaimReturns, brokerVars
  <2>2. \A q \in Partitions \ {p} : claim'[q] = claim[q]
    BY <1>5 DEF Deliver, ClaimReturns
  <2> QED
    BY <2>1, <2>2
<1>6. ASSUME UNCHANGED <<claim, marked, committed>> PROVE Ahead'
  BY <1>6
<1>7. ASSUME \/ Refuse \/ Launch \/ StartStep \/ Join \/ Consumed \/ Panic \/ EndSession
             \/ CancelContext \/ Signal \/ Crash \/ UNCHANGED vars
      PROVE  UNCHANGED <<claim, marked, committed>>
  BY <1>7 DEF Refuse, Launch, StartStep, ReadReady, Up, Terminate, Close, Join, Consumed, Panic,
              EndSession, CancelContext, Signal, Crash, vars, sessionVars, brokerVars
<1> QED
  BY <1>1, <1>2, <1>3, <1>4, <1>5, <1>6, <1>7 DEF Next, LoopStep, ClaimStep, Quiet

\* A commit moves the offsets forward, over what has been handled.
LEMMA CommitDelivers ==
    ASSUME KInv, Ahead, CommitMarked, UNCHANGED handled
    PROVE  Delivery!CommitOffsets
<1> USE BoundsAssumption DEF KInv, TypeOK, Offsets
<1>1. committed' \in [Partitions -> 0 .. Messages]
  BY DEF CommitMarked
<1>2. ASSUME NEW p \in Partitions
      PROVE  committed[p] <= committed'[p] /\ Delivery!HandledBelow(p, committed'[p])
  <2>1. CASE claim[p] # "none"
    <3>1. /\ committed'[p] = marked[p] /\ committed[p] <= marked[p] /\ marked[p] <= next[p]
          /\ marked[p] \in Nat /\ next[p] \in Nat
          /\ \A o \in 0 .. Messages : o < next[p] => o \in handled[p]
      BY <2>1 DEF CommitMarked, Assigned, Ahead, Passed
    <3> QED
      BY <3>1 DEF Delivery!HandledBelow
  <2>2. CASE claim[p] = "none"
    <3>1. committed'[p] = committed[p] /\ committed[p] \in Nat
      BY <2>2 DEF CommitMarked, Assigned
    <3> QED
      BY <3>1 DEF NothingSkipped, Delivery!HandledBelow
  <2> QED
    BY <2>1, <2>2
<1> QED
  BY <1>1, <1>2 DEF Delivery!CommitOffsets

\* A claim is at a message that is not committed, and has had those before it.
LEMMA HandleDelivers ==
    ASSUME KInv, Ahead, NEW p \in Partitions, Handle(p)
    PROVE  Delivery!Next
<1> USE BoundsAssumption DEF KInv, TypeOK, Offsets
<1>1. /\ claim[p] = "handling" /\ next[p] \in 0 .. Messages /\ next[p] < Messages
      /\ committed[p] <= marked[p] /\ marked[p] <= next[p]
      /\ marked[p] \in Nat /\ committed[p] \in Nat
  BY DEF Handle, Passed, Ahead
<1>2. Delivery!HandledBelow(p, next[p])
  BY <1>1 DEF Passed, Delivery!HandledBelow
<1>3. handled' = [handled EXCEPT ![p] = @ \cup {next[p]}] /\ UNCHANGED committed
  BY DEF Handle
<1>4. Delivery!HandleMessage(p, next[p])
  BY <1>1, <1>2, <1>3 DEF Delivery!HandleMessage
<1> QED
  BY <1>1, <1>4 DEF Delivery!Next

(***************************************************************************)
(* Whatever the sessions, refused commits, crashes and restarts, the       *)
(* consumer implements AtLeastOnceDelivery: the committed offsets only move*)
(* forward, over messages that have been handled in order, and a message   *)
(* that is committed is not handled again.                                 *)
(***************************************************************************)
THEOREM ImplementsDelivery == Spec => DeliversAtLeastOnce
<1>1. Init => Ahead /\ Delivery!Init
  BY DEF Init, Ahead, Delivery!Init
<1>2. KInv /\ Ahead /\ [Next]_vars => [Delivery!Next]_<<committed, handled>>
  <2> SUFFICES ASSUME KInv, Ahead, [Next]_vars
               PROVE  Delivery!Next \/ UNCHANGED <<committed, handled>>
    OBVIOUS
  <2>1. CASE Commit \/ EndConsume
    <3>1. CommitMarked \/ UNCHANGED committed
      BY <2>1 DEF Commit, EndConsume
    <3>2. UNCHANGED handled
      BY <2>1 DEF Commit, EndConsume
    <3> QED
      BY <3>1, <3>2, CommitDelivers DEF Delivery!Next
  <2>2. ASSUME NEW p \in Partitions, ClaimStep(p)
        PROVE  Delivery!Next \/ UNCHANGED <<committed, handled>>
    BY <2>2, HandleDelivers DEF ClaimStep, Deliver, ClaimReturns, brokerVars
  <2>3. ASSUME \/ Refuse \/ Launch \/ StartStep \/ Join \/ Setup \/ Consumed \/ Panic \/ EndSession
               \/ CancelContext \/ Signal \/ Crash \/ Restart \/ UNCHANGED vars
        PROVE  UNCHANGED <<committed, handled>>
    BY <2>3 DEF Refuse, Launch, StartStep, ReadReady, Up, Terminate, Close, Join, Setup,
                Consumed, Panic, EndSession, CancelContext, Signal, Crash, Restart, vars, brokerVars
  <2> QED
    BY <2>1, <2>2, <2>3 DEF Next, LoopStep, Quiet
<1> QED
  BY <1>1, <1>2, AheadStep, KInvariance, PTL DEF Spec, DeliversAtLeastOnce, Delivery!Spec
=============================================================================
