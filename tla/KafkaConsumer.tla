---------------------------- MODULE KafkaConsumer ----------------------------
(***************************************************************************)
(* kafka/consumer.go: KafkaConsumer.Start, the goroutine that calls        *)
(* Consume in a loop, and the ConsumerWrapper that the Kafka client calls  *)
(* back (Setup, ConsumeClaim, Cleanup), in a process that may die at any   *)
(* time and be started again.                                              *)
(*                                                                         *)
(* The client (sarama) and the broker are outside the repository: a session*)
(* is a call of Setup, a ConsumeClaim goroutine for each assigned          *)
(* partition, and at the end Cleanup and a commit of what the handler      *)
(* marked.  Offsets of a partition start at 0.                             *)
(***************************************************************************)
EXTENDS Naturals, FiniteSets

CONSTANTS
    Partitions,     \* partitions of the topic
    Messages,       \* bound: messages in each of them
    MaxSessions,    \* bound: sessions of one process
    MaxRestarts     \* bound: times the process is started again

ASSUME BoundsAssumption ==
    Messages \in Nat /\ MaxSessions \in Nat \ {0} /\ MaxRestarts \in Nat

VARIABLES
    starter,    \* where Start is
    loop,       \* where the goroutine calling Consume is
    group,      \* the consumer group client
    ready,      \* consumer.ready: channels are numbered as they are made
    closed,     \* the channels that have been closed
    awaited,    \* the channel Start waits on
    ctxDone,    \* the caller's context is done
    signaled,   \* SIGINT or SIGTERM was delivered to Start
    canceled,   \* Start has called cancel()
    ending,     \* the session's context is done
    claim,      \* the ConsumeClaim goroutine of each partition
    next,       \* offset each of them is at
    marked,     \* offsets the handler has marked, not yet committed
    committed,  \* the group's offsets, kept by the broker
    handled,    \* offsets some handler call has returned for, by partition
    restarts

startVars   == <<starter, ready, closed, awaited, group, canceled>>
sessionVars == <<loop, ending, claim, next, marked>>
brokerVars  == <<committed, handled>>
worldVars   == <<ctxDone, signaled, restarts>>
vars == <<startVars, sessionVars, brokerVars, worldVars>>

Offsets  == 0 .. Messages
Stopped  == {"returned", "failed", "dead"}

TypeOK ==
    /\ starter \in {"new", "wait", "await", "select", "drain"} \cup Stopped
    /\ loop \in {"none", "consume", "join", "session", "consumed", "done"}
    /\ group \in {"none", "open", "closed"}
    /\ ready \in 0 .. MaxSessions
    /\ closed \subseteq 1 .. MaxSessions
    /\ awaited \in 0 .. MaxSessions
    /\ ctxDone \in BOOLEAN /\ signaled \in BOOLEAN
    /\ canceled \in BOOLEAN /\ ending \in BOOLEAN
    /\ claim \in [Partitions -> {"none", "idle", "handling", "returned"}]
    /\ next \in [Partitions -> Offsets]
    /\ marked \in [Partitions -> Offsets]
    /\ committed \in [Partitions -> Offsets]
    /\ handled \in [Partitions -> SUBSET Offsets]
    /\ restarts \in 0 .. MaxRestarts

Init ==
    /\ starter = "new" /\ loop = "none" /\ group = "none"
    /\ ready = 0 /\ closed = {} /\ awaited = 0
    /\ ctxDone = FALSE /\ signaled = FALSE /\ canceled = FALSE /\ ending = FALSE
    /\ claim = [p \in Partitions |-> "none"]
    /\ next = [p \in Partitions |-> 0]
    /\ marked = [p \in Partitions |-> 0]
    /\ committed = [p \in Partitions |-> 0]
    /\ handled = [p \in Partitions |-> {}]
    /\ restarts = 0

-----------------------------------------------------------------------------
\* The context given to Consume is the caller's, or what cancel() makes of it.
Cancelled == ctxDone \/ canceled
Assigned  == {p \in Partitions : claim[p] # "none"}
Alive     == starter # "dead"

\* NewConsumerGroup fails, or the wrapper is nil: the client is then left open.
Refuse ==
    /\ starter = "new"
    /\ starter' = "failed"
    /\ group' \in {"none", "open"}
    /\ UNCHANGED <<ready, closed, awaited, canceled, sessionVars, brokerVars, worldVars>>

\* A fresh ready channel, and the goroutine.
Launch ==
    /\ starter = "new"
    /\ starter' = "wait"
    /\ group' = "open"
    /\ ready' = ready + 1
    /\ loop' = "consume"
    /\ UNCHANGED <<closed, awaited, canceled, ending, claim, next, marked,
                   brokerVars, worldVars>>

\* Start reads consumer.ready without synchronisation: it may see any channel
\* stored since its own.
ReadReady ==
    /\ starter = "wait"
    /\ awaited' \in 1 .. ready
    /\ starter' = "await"
    /\ UNCHANGED <<ready, closed, group, canceled, sessionVars, brokerVars, worldVars>>

Up ==
    /\ starter = "await"
    /\ awaited \in closed
    /\ starter' = "select"
    /\ UNCHANGED <<ready, closed, awaited, group, canceled, sessionVars, brokerVars, worldVars>>

\* Context or signal, then cancel().
CancelSkipped == UNCHANGED canceled  \* mutant
Cancel == canceled' = TRUE

Terminate ==
    /\ starter = "select"
    /\ ctxDone \/ signaled
    /\ Cancel
    /\ starter' = "drain"
    /\ UNCHANGED <<ready, closed, awaited, group, sessionVars, brokerVars, worldVars>>

\* wg.Wait, then Close of the client.
DrainedAlready == TRUE  \* mutant: no wg.Wait
Drained == loop = "done"

Close ==
    /\ starter = "drain"
    /\ Drained
    /\ group' = "closed"
    /\ starter' = "returned"
    /\ UNCHANGED <<ready, closed, awaited, canceled, sessionVars, brokerVars, worldVars>>

-----------------------------------------------------------------------------
\* Consume begins with a look at its context; the join itself does not.
Join ==
    /\ Alive /\ loop = "consume"
    /\ ~Cancelled
    /\ loop' = "join"
    /\ UNCHANGED <<startVars, ending, claim, next, marked, brokerVars, worldVars>>

\* Consume has joined the group and calls Setup, which closes consumer.ready;
\* each claim starts at the committed offset.
Setup ==
    /\ Alive /\ loop = "join"
    /\ ready \notin closed
    /\ closed' = closed \cup {ready}
    /\ \E assigned \in (SUBSET Partitions) \ {{}} :
        claim' = [p \in Partitions |-> IF p \in assigned THEN "idle" ELSE "none"]
    /\ next' = committed
    /\ marked' = committed
    /\ ending' = FALSE
    /\ loop' = "session"
    /\ UNCHANGED <<starter, ready, awaited, group, canceled, brokerVars, worldVars>>

\* Consume returns another error than ErrClosedConsumerGroup, be it that of its
\* cancelled context, or Setup closes a closed channel: the goroutine panics
\* and the process dies with it.
Panic ==
    /\ Alive /\ loop \in {"consume", "join"}
    /\ starter' = "dead"
    /\ UNCHANGED <<ready, closed, awaited, group, canceled, sessionVars, brokerVars, worldVars>>

\* The session ends: a rebalance, a claim that returned, or the context.
EndSession ==
    /\ Alive /\ loop = "session" /\ ~ending
    /\ Cancelled \/ ready < MaxSessions
    /\ ending' = TRUE
    /\ UNCHANGED <<startVars, loop, claim, next, marked, brokerVars, worldVars>>

\* ConsumeClaim takes a message; select may prefer it to the end of the
\* session.  The wrapper itself never marks it.
AutoMarked(p) == marked' = [marked EXCEPT ![p] = next[p] + 1]  \* mutant
NotMarked(p) == UNCHANGED marked

ReadsPastEnd(p) == next[p] <= Messages  \* mutant: !ok is not looked at
HasMessage(p) == next[p] < Messages

Deliver(p) ==
    /\ Alive /\ claim[p] = "idle"
    /\ HasMessage(p)
    /\ claim' = [claim EXCEPT ![p] = "handling"]
    /\ NotMarked(p)
    /\ UNCHANGED <<startVars, loop, ending, next, brokerVars, worldVars>>

\* The handler returns, with an error or not; whether it has marked the
\* message is its own business, and the wrapper goes on either way.
Handle(p) ==
    /\ Alive /\ claim[p] = "handling"
    /\ handled' = [handled EXCEPT ![p] = @ \cup {next[p]}]
    /\ marked' \in {marked, [marked EXCEPT ![p] = next[p] + 1]}
    /\ next' = [next EXCEPT ![p] = @ + 1]
    /\ claim' = [claim EXCEPT ![p] = "idle"]
    /\ UNCHANGED <<startVars, loop, ending, committed, worldVars>>

ClaimReturns(p) ==
    /\ Alive /\ claim[p] = "idle" /\ ending
    /\ claim' = [claim EXCEPT ![p] = "returned"]
    /\ UNCHANGED <<startVars, loop, ending, next, marked, brokerVars, worldVars>>

\* The client commits what is marked, now and then and at the end; the broker
\* may refuse a member it has given up on.
CommitMarked == committed' = [p \in Partitions |-> IF p \in Assigned THEN marked[p] ELSE committed[p]]
Commit ==
    /\ Alive /\ loop = "session"
    /\ CommitMarked
    /\ UNCHANGED <<startVars, sessionVars, handled, worldVars>>

\* All claims have returned: Cleanup, a last commit, and Consume returns nil.
EndConsume ==
    /\ Alive /\ loop = "session" /\ ending
    /\ \A p \in Assigned : claim[p] = "returned"
    /\ CommitMarked \/ UNCHANGED committed
    /\ claim' = [p \in Partitions |-> "none"]
    /\ loop' = "consumed"
    /\ UNCHANGED <<startVars, ending, next, marked, handled, worldVars>>

NewReadySkipped == UNCHANGED ready  \* mutant
NewReady == ready' = ready + 1

AgainAlways == loop' = "consume" /\ NewReady  \* mutant: ctx.Err() is not looked at
AgainOnce == loop' = "done" /\ UNCHANGED ready  \* mutant: no loop around Consume
Again ==
    \/ Cancelled /\ loop' = "done" /\ UNCHANGED ready
    \/ ~Cancelled /\ loop' = "consume" /\ NewReady

Consumed ==
    /\ Alive /\ loop = "consumed"
    /\ Again
    /\ UNCHANGED <<starter, closed, awaited, group, canceled, ending, claim, next, marked,
                   brokerVars, worldVars>>

-----------------------------------------------------------------------------
CancelContext ==
    /\ Alive /\ ~ctxDone
    /\ ctxDone' = TRUE
    /\ UNCHANGED <<startVars, sessionVars, brokerVars, signaled, restarts>>

\* A signal before signal.Notify, like any other, kills the process: Crash.
Signal ==
    /\ starter = "select" /\ ~signaled
    /\ signaled' = TRUE
    /\ UNCHANGED <<startVars, sessionVars, brokerVars, ctxDone, restarts>>

Crash ==
    /\ starter \notin {"new"} \cup Stopped
    /\ starter' = "dead"
    /\ UNCHANGED <<ready, closed, awaited, group, canceled, sessionVars, brokerVars, worldVars>>

\* Everything but the broker's offsets (and the history) starts anew.
Restart ==
    /\ starter = "dead"
    /\ restarts < MaxRestarts
    /\ restarts' = restarts + 1
    /\ starter' = "new" /\ loop' = "none" /\ group' = "none"
    /\ ready' = 0 /\ closed' = {} /\ awaited' = 0
    /\ ctxDone' = FALSE /\ signaled' = FALSE /\ canceled' = FALSE /\ ending' = FALSE
    /\ claim' = [p \in Partitions |-> "none"]
    /\ next' = [p \in Partitions |-> 0]
    /\ marked' = [p \in Partitions |-> 0]
    /\ UNCHANGED brokerVars

\* Start has returned, or the process is not started again.
Quiet ==
    /\ \/ starter \in {"returned", "failed"}
       \/ starter = "dead" /\ restarts = MaxRestarts
    /\ UNCHANGED vars

StartStep == ReadReady \/ Up \/ Terminate \/ Close
LoopStep  == Join \/ Setup \/ Panic \/ EndConsume \/ Consumed
ClaimStep(p) == Deliver(p) \/ Handle(p) \/ ClaimReturns(p)

Next ==
    \/ Refuse \/ Launch \/ StartStep \/ LoopStep
    \/ EndSession \/ Commit
    \/ \E p \in Partitions : ClaimStep(p)
    \/ CancelContext \/ Signal \/ Crash \/ Restart \/ Quiet

\* Goroutines that can run do; handlers return; Consume joins or returns an
\* error; a session whose context is cancelled ends.  Rebalances, crashes, signals and
\* restarts need not happen.
Fairness ==
    /\ WF_vars(StartStep)
    /\ WF_vars(LoopStep)
    /\ WF_vars(Cancelled /\ EndSession)
    /\ \A p \in Partitions : WF_vars(ClaimStep(p))

Spec == Init /\ [][Next]_vars
FairSpec == Spec /\ Fairness

-----------------------------------------------------------------------------
(***************************************************************************)
(* Each session has a ready channel of its own: Setup never closes one     *)
(* that is closed already, which would kill the process at the first       *)
(* rebalance (consumer.go:56, 76, 120).                                    *)
(***************************************************************************)
ReadyIsFresh == loop \in {"consume", "join"} => ready \notin closed

(***************************************************************************)
(* "The consumer wrapper must never call session.MarkMessage" (the Kafka   *)
(* consumer spec, section 5), and what that is for: through rebalances,    *)
(* refused commits and crashes in the middle of a handler, no message is   *)
(* skipped: below the committed offset each has been through a handler.    *)
(***************************************************************************)
NothingSkipped ==
    \A p \in Partitions : \A o \in Offsets : o < committed[p] => o \in handled[p]

(***************************************************************************)
(* Seen from the handler and the broker the consumer delivers at least     *)
(* once, in order: neither a new session, a refused commit nor a restart   *)
(* moves the committed offset back, and what is committed is not handled   *)
(* again (consumer.go:143-208).                                            *)
(***************************************************************************)
Delivery == INSTANCE AtLeastOnceDelivery
DeliversAtLeastOnce == Delivery!Spec

(***************************************************************************)
(* When Start returns, nothing of it is left running: the loop is over, no *)
(* handler is in progress, and the client it opened is closed              *)
(* (consumer.go:100-102).                                                  *)
(***************************************************************************)
NothingLeftRunning ==
    starter = "returned" => loop = "done" /\ Assigned = {} /\ group = "closed"

(***************************************************************************)
(* A cancelled context or a signal is the end of Start, wherever it is when*)
(* it comes, its unsynchronised read of the ready channel and its wait for *)
(* the first Setup included (consumer.go:80, 90-102): it does not hang.    *)
(* The end may be the death of the process: see CleanInSessionOnly.        *)
(***************************************************************************)
EndsWhenTold ==
    starter # "new" /\ (ctxDone \/ signaled) ~> starter \in Stopped

(***************************************************************************)
(* Where the shutdown is clean, and where it is not (consumer.go:62-77).   *)
(* When the context is done while a session is open, or before the loop has*)
(* looked at it after one, claims, handlers and both goroutines wind down  *)
(* in any order and Start returns, or a crash comes first: the process does*)
(* not die in Consume.  When it is done before Consume has looked at it,   *)
(* Consume returns its error, and the process does die, although "consumer *)
(* should shut down cleanly after the context is cancelled"                *)
(* (tests/integration/kafka_consumer_test.go).                             *)
(***************************************************************************)
DiedInConsume == starter = "dead" /\ loop \in {"consume", "join"}
CleanInSessionOnly ==
    /\ Cancelled /\ loop \in {"session", "consumed"} ~>
          starter \in {"returned", "dead"} /\ ~DiedInConsume
    /\ Cancelled /\ loop = "consume" ~> starter = "dead"

\* "When a server-side rebalance happens, the consumer session will need to be
\* recreated": the end of a session is followed by another one, unless the
\* consumer is being stopped (consumer.go:62-77).
RejoinsAfterRebalance ==
    loop = "consumed" ~> loop = "session" \/ Cancelled \/ starter = "dead"
=============================================================================
