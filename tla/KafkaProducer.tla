---------------------------- MODULE KafkaProducer ----------------------------
(***************************************************************************)
(* kafka/producer.go: one KafkaProducer shared by goroutines that publish  *)
(* and goroutines that close it, with the tracing of a message from its    *)
(* Publish to the consumer's span (kafka/instrumentation.go) and the error *)
(* counter of metrics.go.                                                  *)
(*                                                                         *)
(* Publish looks at p.producer twice without a lock, and Close clears it.  *)
(* The field is an interface of two words: a torn read is either nil or    *)
(* panics when it is used, so that it adds no outcome to those of a read   *)
(* before and a read after the write.                                      *)
(*                                                                         *)
(* The client (sarama.SyncProducer) is outside the repository: its Close   *)
(* lets messages that are on their way finish and refuses new ones;        *)
(* SendMessage panics when the client is closed.  Publish is called by     *)
(* code that recovers, as the interceptors do.                             *)
(***************************************************************************)
EXTENDS KafkaHeaders

CONSTANTS
    Publishers,     \* goroutines making one Publish call each
    Closers,        \* goroutines making one Close call each
    Free,           \* closeOnce has not been used
    BrokerLists,    \* values of brokers, split at the commas and trimmed
    Topics,         \* values of topic, trimmed
    Blank,          \* an empty broker or topic
    TraceParent,    \* the header of the trace context
    UserHeaders,    \* values of Message.Headers
    RemoteSpans     \* spans of others that a caller's header may name

ASSUME ActorsAssumption ==
    IsFiniteSet(Publishers) /\ {Free, "done"} \cap Closers = {} /\ Free # "done"
ASSUME UserHeadersAssumption ==
    \A u \in UserHeaders : /\ IsFiniteSet(DOMAIN u)
                           /\ \A k \in Sent(u) : TrimSpace[k] \in DOMAIN Fold
ASSUME TraceParentAssumption ==
    TraceParent \in DOMAIN Fold /\ NoValue \notin Publishers \cup RemoteSpans

VARIABLES
    tracing,    \* InitTracing has installed the SDK and its propagator
    made,       \* what NewKafkaProducer returned: "none" yet, "nil" or "made"
    field,      \* p.producer: "nil" or "client"
    client,     \* the client behind it: "none", "open", "closing" or "closed"
    once,       \* p.closeOnce: Free, the closer inside, or "done"
    pub,        \* where a Publish is
    user,       \* its message's Headers
    message,    \* the headers of the record it sends
    span,       \* its span
    outcome,    \* what it returned, or "panic"
    close,      \* where a Close is
    topicLog,   \* the records the broker has stored
    errorCount, \* kafka_produce_error_count
    raced,      \* history: a Close was under way during this Publish
    late        \* history: it began when a Close had returned

closeVars   == <<field, client, once, close>>
publishVars == <<pub, user, message, span, outcome, late>>
vars == <<tracing, made, closeVars, publishVars, topicLog, errorCount, raced>>

TypeOK ==
    /\ tracing \in BOOLEAN
    /\ made \in {"none", "nil", "made"}
    /\ field \in {"nil", "client"}
    /\ client \in {"none", "open", "closing", "closed"}
    /\ once \in Closers \cup {Free, "done"}
    /\ pub \in [Publishers -> {"new", "send", "inflight", "finish", "over"}]
    /\ user \in [Publishers -> UserHeaders \cup {<<>>}]
    /\ \A p \in Publishers : \A i \in DOMAIN message[p] : message[p][i].key \in DOMAIN Fold
    /\ span \in [Publishers -> {"none", "open", "failed", "ended"}]
    /\ outcome \in [Publishers -> {"none", "ok", "error", "closed", "panic"}]
    /\ close \in [Closers -> {"new", "closing", "clear", "returned"}]
    /\ \A i \in DOMAIN topicLog : topicLog[i].by \in Publishers
    /\ errorCount \in 0 .. Cardinality(Publishers)
    /\ raced \in [Publishers -> BOOLEAN]
    /\ late \in [Publishers -> BOOLEAN]

Init ==
    /\ tracing \in BOOLEAN
    /\ made = "none" /\ field = "nil" /\ client = "none" /\ once = Free
    /\ pub = [p \in Publishers |-> "new"]
    /\ user = [p \in Publishers |-> <<>>]
    /\ message = [p \in Publishers |-> <<>>]
    /\ span = [p \in Publishers |-> "none"]
    /\ outcome = [p \in Publishers |-> "none"]
    /\ close = [c \in Closers |-> "new"]
    /\ topicLog = <<>>
    /\ errorCount = 0
    /\ raced = [p \in Publishers |-> FALSE]
    /\ late = [p \in Publishers |-> FALSE]

-----------------------------------------------------------------------------
\* NewKafkaProducer: no broker, no topic, or a client that cannot be opened.
Endpoints(brokers) == SelectSeq(brokers, LAMBDA b : b # Blank)
Acceptable(brokers, topic) == Endpoints(brokers) # <<>> /\ topic # Blank

New ==
    /\ made = "none"
    /\ \/ /\ \E brokers \in BrokerLists, topic \in Topics : Acceptable(brokers, topic)
          /\ made' = "made" /\ field' = "client" /\ client' = "open"
       \/ made' = "nil" /\ UNCHANGED <<field, client>>
    /\ UNCHANGED <<tracing, once, close, publishVars, topicLog, errorCount, raced>>

\* A Publish sees that the producer is closed, or is nil.
Return(p, result) ==
    /\ pub' = [pub EXCEPT ![p] = "over"]
    /\ outcome' = [outcome EXCEPT ![p] = result]

Closing  == \E c \in Closers : close[c] \in {"closing", "clear"}
HasClosed == \E c \in Closers : close[c] = "returned"
Begin(p) ==
    /\ raced' = [raced EXCEPT ![p] = Closing]
    /\ late' = [late EXCEPT ![p] = HasClosed]

Refuse(p) ==
    /\ made # "none" /\ pub[p] = "new"
    /\ made = "nil" \/ field = "nil"
    /\ Return(p, "closed")
    /\ Begin(p)
    /\ UNCHANGED <<tracing, made, closeVars, user, message, span, topicLog, errorCount>>

\* The span's context is put into the copy of the caller's headers; without
\* tracing the global propagator does nothing.
Inject(p, headers) == IF tracing THEN Set(headers, TraceParent, p) ELSE headers

Prepare(p) ==
    /\ made = "made" /\ field = "client" /\ pub[p] = "new"
    /\ \E u \in UserHeaders : \E copy \in Copies(u) :
        /\ user' = [user EXCEPT ![p] = u]
        /\ message' = [message EXCEPT ![p] = Inject(p, copy)]
    /\ span' = [span EXCEPT ![p] = "open"]
    /\ pub' = [pub EXCEPT ![p] = "send"]
    /\ Begin(p)
    /\ UNCHANGED <<tracing, made, closeVars, outcome, topicLog, errorCount>>

\* p.producer is read again: by now it may be nil, or closed.
SendOpen(p) ==
    /\ pub[p] = "send" /\ field = "client" /\ client = "open"
    /\ pub' = [pub EXCEPT ![p] = "inflight"]
    /\ UNCHANGED <<tracing, made, closeVars, user, message, span, outcome, late,
                   topicLog, errorCount, raced>>

SendRefused(p) ==
    /\ pub[p] = "send" /\ field = "client" /\ client # "open"
    /\ pub' = [pub EXCEPT ![p] = "finish"]
    /\ outcome' = [outcome EXCEPT ![p] = "error"]
    /\ UNCHANGED <<tracing, made, closeVars, user, message, span, late,
                   topicLog, errorCount, raced>>

SendPanics(p) ==
    /\ pub[p] = "send"
    /\ field = "nil" \/ client = "closed"
    /\ Return(p, "panic")
    /\ UNCHANGED <<tracing, made, closeVars, user, message, span, late,
                   topicLog, errorCount, raced>>

\* The broker has stored the record, twice if the client sent it again, or not
\* at all; an error does not tell which.
Store(p, copies) ==
    topicLog' = topicLog \o [i \in 1 .. copies |-> [by |-> p, headers |-> message[p]]]

AnswerOK(p) == outcome' = [outcome EXCEPT ![p] = "ok"]
Answered(p) ==
    /\ pub[p] = "inflight"
    /\ pub' = [pub EXCEPT ![p] = "finish"]
    /\ \/ AnswerOK(p) /\ \E copies \in 1 .. 2 : Store(p, copies)
       \/ /\ outcome' = [outcome EXCEPT ![p] = "error"]
          /\ \E copies \in 0 .. 2 : Store(p, copies)
    /\ UNCHANGED <<tracing, made, closeVars, user, message, span, late, errorCount, raced>>

\* The span ends and the error is counted; neither is deferred.
EndSpan(p) == span' = [span EXCEPT ![p] = IF outcome[p] = "error" THEN "failed" ELSE "ended"]
CountTwice(p) == errorCount' = IF outcome[p] = "error" THEN errorCount + 2 ELSE errorCount  \* mutant
CountNever(p) == UNCHANGED errorCount  \* mutant
CountError(p) == errorCount' = IF outcome[p] = "error" THEN errorCount + 1 ELSE errorCount

Finish(p) ==
    /\ pub[p] = "finish"
    /\ EndSpan(p)
    /\ CountError(p)
    /\ pub' = [pub EXCEPT ![p] = "over"]
    /\ UNCHANGED <<tracing, made, closeVars, user, message, outcome, late, topicLog, raced>>

-----------------------------------------------------------------------------
UnderWay(p) == pub[p] \notin {"new", "over"}
Race == raced' = [p \in Publishers |-> raced[p] \/ UnderWay(p)]

\* The first caller of closeOnce.Do closes the client; the others wait for it.
WaitNot(c) == once # Free  \* mutant: a flag in place of sync.Once
Wait(c) == once = "done"

CloseNothing(c) ==
    /\ made # "none" /\ close[c] = "new"
    /\ made = "nil" \/ Wait(c)
    /\ close' = [close EXCEPT ![c] = "returned"]
    /\ UNCHANGED <<tracing, made, field, client, once, publishVars, topicLog, errorCount, raced>>

CloseFirst(c) ==
    /\ made = "made" /\ close[c] = "new"
    /\ once = Free
    /\ once' = c
    /\ client' = "closing"
    /\ close' = [close EXCEPT ![c] = "closing"]
    /\ Race
    /\ UNCHANGED <<tracing, made, field, publishVars, topicLog, errorCount>>

\* The client's Close returns, with an error or not.
ClientClosed(c) ==
    /\ close[c] = "closing"
    /\ \A p \in Publishers : pub[p] # "inflight"
    /\ client' = "closed"
    /\ close' = [close EXCEPT ![c] = "clear"]
    /\ UNCHANGED <<tracing, made, field, once, publishVars, topicLog, errorCount, raced>>

ClearField == field' = "nil"
Cleared(c) ==
    /\ close[c] = "clear"
    /\ ClearField
    /\ once' = "done"
    /\ close' = [close EXCEPT ![c] = "returned"]
    /\ UNCHANGED <<tracing, made, client, publishVars, topicLog, errorCount, raced>>

Quiet ==
    /\ \A p \in Publishers : pub[p] = "over"
    /\ \A c \in Closers : close[c] = "returned"
    /\ UNCHANGED vars

Publish(p) == \/ Refuse(p) \/ Prepare(p) \/ SendOpen(p) \/ SendRefused(p)
              \/ SendPanics(p) \/ Answered(p) \/ Finish(p)
Close(c)   == CloseNothing(c) \/ CloseFirst(c) \/ ClientClosed(c) \/ Cleared(c)

Next ==
    \/ New
    \/ \E p \in Publishers : Publish(p)
    \/ \E c \in Closers : Close(c)
    \/ Quiet

Spec == Init /\ [][Next]_vars

-----------------------------------------------------------------------------
(***************************************************************************)
(* When any Close has returned the producer is closed for good: the client *)
(* is closed, no record is on its way, and a Publish that begins later is  *)
(* refused before it sends anything.  A Publish may panic, but only one    *)
(* that was racing a Close (producer.go:79-134).                           *)
(***************************************************************************)
ClosedForGood ==
    /\ HasClosed /\ made = "made" =>
        client = "closed" /\ \A p \in Publishers : pub[p] # "inflight"
    /\ \A p \in Publishers :
        /\ late[p] => pub[p] = "over" /\ outcome[p] = "closed"
        /\ outcome[p] = "panic" => raced[p]

StoredBy(p) == {i \in DOMAIN topicLog : topicLog[i].by = p}

(***************************************************************************)
(* What the caller and the metrics are told is true: a record whose Publish*)
(* succeeded is stored, one that was refused is not, and every Publish that*)
(* came to an end without a panic has ended its span, as failed if and only*)
(* if it returned an error, and counted that error (producer.go:79-119).   *)
(***************************************************************************)
AnswersAreTrue ==
    /\ \A p \in Publishers : pub[p] = "over" =>
        /\ outcome[p] = "ok" => StoredBy(p) # {} /\ span[p] = "ended"
        /\ outcome[p] = "error" => span[p] = "failed"
        /\ outcome[p] = "closed" => StoredBy(p) = {} /\ span[p] = "none"
    /\ errorCount = Cardinality({p \in Publishers : span[p] = "failed"})

(***************************************************************************)
(* The producer implements ClosableTopic: as long as it is connected a     *)
(* Publish may store its record, once per try, and when any Close has      *)
(* returned it is not; a Publish that begins later is refused.  A Publish  *)
(* that succeeds has stored its record before it says so, and one that     *)
(* panics has not, and has met a Close (producer.go:79-134).               *)
(***************************************************************************)
Stage ==
    CASE made = "none" -> "unmade"
      [] made = "nil" \/ (made = "made" /\ HasClosed) -> "closed"
      [] made = "made" /\ ~HasClosed /\ Closing -> "closing"
      [] made = "made" /\ ~HasClosed /\ ~Closing -> "open"
AnswerTo(p) ==
    CASE pub[p] = "new" -> "none"
      [] pub[p] = "over" -> outcome[p]
      [] pub[p] \in {"send", "inflight", "finish"} -> "pending"
Answers == [p \in Publishers |-> AnswerTo(p)]
Senders == [i \in DOMAIN topicLog |-> topicLog[i].by]
Connected == client \in {"open", "closing"}
Topic == INSTANCE ClosableTopic WITH
    stage <- Stage, connected <- Connected, answer <- Answers, log <- Senders
PublishesUntilClosed == Topic!Spec

\* The parent of the consumer's span: what Extract finds in the headers.
ConsumerParent(headers) == Get(headers, TraceParent)

(***************************************************************************)
(* "Propagate the producer span context to downstream consumers"           *)
(* (instrumentation.go:156): whatever headers the caller gave, those of an *)
(* earlier trace in any spelling included, the consumer's span is a child  *)
(* of the span of the Publish that sent the record, and the caller's other *)
(* headers arrive (instrumentation.go:90-101, 119).                        *)
(***************************************************************************)
TraceContinues ==
    \A i \in DOMAIN topicLog :
        LET r == topicLog[i]
        IN  /\ tracing => ConsumerParent(r.headers) = r.by
            /\ \A k \in Sent(user[r.by]) : ~EqualFold(TrimSpace[k], TraceParent) =>
                \E j \in DOMAIN r.headers :
                    r.headers[j] = [key |-> TrimSpace[k], value |-> user[r.by][k]]
=============================================================================
