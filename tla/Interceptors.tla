---------------------------- MODULE Interceptors ----------------------------
(***************************************************************************)
(* interceptor/*.go: the interceptors around a unary handler, in a chain   *)
(* the service puts together (example/logs/main.go: recover, metrics,      *)
(* trace, logger), and concurrent requests going down the chain, through a *)
(* handler that may fail, panic or call another service of the kind with   *)
(* the trace client interceptor, and up again.                             *)
(*                                                                         *)
(* A deferred call runs on the way up whatever the result; code after the  *)
(* call of next does not run when a panic is on its way up.  Spans are     *)
(* those of the SDK and the ratio sampler that infra.InitTracing installs. *)
(***************************************************************************)
EXTENDS Naturals, Sequences, FiniteSets

CONSTANTS
    Requests,
    Methods,    \* procedures
    Chains,     \* the chains to consider, the outermost interceptor first
    NoCell,     \* RPC_COUNTER has no entry for a procedure
    Nobody      \* a request from outside has no caller, a root span no parent

Layers == {"recover", "counter", "limit", "metrics", "trace", "logger"}
ASSUME ChainsAssumption ==
    \A c \in Chains : c \in Seq(Layers) /\ \A i, j \in DOMAIN c : c[i] = c[j] => i = j
ASSUME NoneAssumption == NoCell \notin Requests /\ Nobody \notin Requests
ASSUME RequestsAssumption == IsFiniteSet(Requests)

VARIABLES
    chain,      \* the chain of this service
    method,     \* the procedure of a request
    caller,     \* the request whose handler made it
    way,        \* "new", "down", "add" or "store" (in the counter), "calling"
                \* (in the handler), "up", "done"
    depth,      \* the layer a request is at; beyond the last is the handler
    result,     \* what it comes back with
    rpcCounter, \* RPC_COUNTER: procedure to counter, named by who made it
    held,       \* the counter a request has got hold of
    value,      \* the value of each counter
    requestsTotal,  \* rpc_server_requests_total by procedure and code
    span,       \* the server span of a request
    callSpan,   \* the client span of the call its handler makes
    parent,     \* the request whose client span is the parent of its server span
    trace,      \* the trace of its spans, named by the request that started it
    sampled,    \* whether its span is sampled
    lines,      \* lines written to the log
    entered     \* history: the layers a request has entered

callVars    == <<chain, method, caller>>
counterVars == <<rpcCounter, held, value>>
spanVars    == <<span, callSpan, parent, trace, sampled>>
vars == <<callVars, way, depth, result, counterVars, requestsTotal, spanVars, lines, entered>>

\* What next returns: no error, an error that carries a connect code, or one
\* that does not.  Raw errors of a context are of the last kind: connect gives
\* them a code on their way to the client only, outside of the interceptors.
Failures == {"coded", "uncoded"}
Results  == {"ok"} \cup Failures

\* The labels: the code of a coded error, "unknown", and "ok", the label that the
\* documents have for a success.  connect.CodeOf(nil) is not it.
Codes == {"ok", "coded", "unknown"}
CodeOf(x) == IF x = "coded" THEN "coded" ELSE "unknown"
Spans == {"none", "open", "failed", "ended"}
Lines == [by : Requests, text : {"request", "response", "panic"}, level : {"info", "error"},
          trace : Requests \cup {Nobody}]

TypeOK ==
    /\ chain \in Chains
    /\ method \in [Requests -> Methods]
    /\ caller \in [Requests -> Requests \cup {Nobody}]
    /\ way \in [Requests -> {"new", "down", "store", "add", "calling", "up", "done"}]
    /\ depth \in [Requests -> 0 .. Len(chain) + 1]
    /\ result \in [Requests -> {"none", "panic"} \cup Results]
    /\ rpcCounter \in [Methods -> Requests \cup {NoCell}]
    /\ held \in [Requests -> Requests \cup {NoCell}]
    /\ value \in [Requests -> 0 .. Cardinality(Requests)]
    /\ requestsTotal \in [Methods \X Codes -> 0 .. Cardinality(Requests)]
    /\ span \in [Requests -> Spans] /\ callSpan \in [Requests -> Spans]
    /\ parent \in [Requests -> Requests \cup {Nobody}]
    /\ trace \in [Requests -> Requests \cup {Nobody}]
    /\ sampled \in [Requests -> BOOLEAN]
    /\ lines \subseteq Lines
    /\ entered \in [Requests -> SUBSET Layers]

Init ==
    /\ chain \in Chains
    /\ method \in [Requests -> Methods]
    /\ caller = [r \in Requests |-> Nobody]
    /\ way = [r \in Requests |-> "new"]
    /\ depth = [r \in Requests |-> 0]
    /\ result = [r \in Requests |-> "none"]
    /\ rpcCounter = [m \in Methods |-> NoCell]
    /\ held = [r \in Requests |-> NoCell]
    /\ value = [r \in Requests |-> 0]
    /\ requestsTotal = [x \in Methods \X Codes |-> 0]
    /\ span = [r \in Requests |-> "none"]
    /\ callSpan = [r \in Requests |-> "none"]
    /\ parent = [r \in Requests |-> Nobody]
    /\ trace = [r \in Requests |-> Nobody]
    /\ sampled = [r \in Requests |-> TRUE]
    /\ lines = {}
    /\ entered = [r \in Requests |-> {}]

-----------------------------------------------------------------------------
At(r, w, layer) ==
    /\ way[r] = w
    /\ depth[r] \in DOMAIN chain
    /\ chain[depth[r]] = layer

Goto(r, w) == way' = [way EXCEPT ![r] = w]
Enter(r)   == entered' = [entered EXCEPT ![r] = @ \cup {chain[depth[r]]}]
Inward(r)  == depth' = [depth EXCEPT ![r] = @ + 1]
Outward(r) == depth' = [depth EXCEPT ![r] = @ - 1]

Arrive(r) ==
    /\ way[r] = "new"
    /\ Goto(r, "down")
    /\ Inward(r)
    /\ UNCHANGED <<callVars, result, counterVars, requestsTotal, spanVars, lines, entered>>

\* Nothing to do before calling next.
PassIn(r) ==
    /\ At(r, "down", "recover") \/ At(r, "down", "metrics")
    /\ Enter(r)
    /\ Inward(r)
    /\ UNCHANGED <<callVars, way, result, counterVars, requestsTotal, spanVars, lines>>

\* The rate limiter lets the request pass or answers it itself, also when its
\* backend fails.
LimitIn(r) ==
    /\ At(r, "down", "limit")
    /\ Enter(r)
    /\ \/ Inward(r) /\ UNCHANGED <<way, result>>
       \/ /\ Outward(r)
          /\ Goto(r, "up")
          /\ result' = [result EXCEPT ![r] = "coded"]
    /\ UNCHANGED <<callVars, counterVars, requestsTotal, spanVars, lines>>

\* startServerSpan: the span is a child of the one named by the request's
\* headers, and sampled if that is; a root is sampled or not.
RootAlways(r) ==  \* mutant: the headers are not looked at
    /\ UNCHANGED parent
    /\ trace' = [trace EXCEPT ![r] = r]
    /\ \E s \in BOOLEAN : sampled' = [sampled EXCEPT ![r] = s]
Extracted(r) ==
    \/ /\ caller[r] = Nobody
       /\ trace' = [trace EXCEPT ![r] = r]
       /\ \E s \in BOOLEAN : sampled' = [sampled EXCEPT ![r] = s]
       /\ UNCHANGED parent
    \/ /\ caller[r] # Nobody
       /\ parent' = [parent EXCEPT ![r] = caller[r]]
       /\ trace' = [trace EXCEPT ![r] = trace[caller[r]]]
       /\ sampled' = [sampled EXCEPT ![r] = sampled[caller[r]]]

TraceIn(r) ==
    /\ At(r, "down", "trace")
    /\ Enter(r)
    /\ span' = [span EXCEPT ![r] = "open"]
    /\ Extracted(r)
    /\ Inward(r)
    /\ UNCHANGED <<callVars, way, result, counterVars, requestsTotal, callSpan, lines>>

\* What the context of a layer knows of the trace; outside of it everything
\* counts as sampled.
InTrace(r)   == \E i \in DOMAIN chain : i < depth[r] /\ chain[i] = "trace"
IsSampled(r) == InTrace(r) => sampled[r]
Logged(r, text, level) ==
    lines' = lines \cup {[by |-> r, text |-> text, level |-> level,
                          trace |-> IF InTrace(r) THEN trace[r] ELSE Nobody]}

LogRequest(r) ==
    /\ At(r, "down", "logger")
    /\ Enter(r)
    /\ \/ IsSampled(r) /\ Logged(r, "request", "info")
       \/ ~IsSampled(r) /\ UNCHANGED lines
    /\ Inward(r)
    /\ UNCHANGED <<callVars, way, result, counterVars, requestsTotal, spanVars>>

\* increment: Load; a counter that is there is added to, otherwise a new one,
\* with the value 1, is to be stored.
CounterLoad(r) ==
    /\ At(r, "down", "counter")
    /\ Enter(r)
    /\ \/ /\ rpcCounter[method[r]] # NoCell
          /\ held' = [held EXCEPT ![r] = rpcCounter[method[r]]]
          /\ Goto(r, "add")
          /\ UNCHANGED value
       \/ /\ rpcCounter[method[r]] = NoCell
          /\ held' = [held EXCEPT ![r] = r]
          /\ value' = [value EXCEPT ![r] = 1]
          /\ Goto(r, "store")
    /\ UNCHANGED <<callVars, depth, result, rpcCounter, requestsTotal, spanVars, lines>>

\* LoadOrStore: the first to store wins, and the others add to its counter.
StoreOver(r) ==  \* mutant: Store
    /\ rpcCounter' = [rpcCounter EXCEPT ![method[r]] = r]
    /\ Goto(r, "down") /\ Inward(r) /\ UNCHANGED held
StoreAndAdd(r) ==  \* mutant: adds whether it was loaded or not
    /\ IF rpcCounter[method[r]] = NoCell
       THEN rpcCounter' = [rpcCounter EXCEPT ![method[r]] = r] /\ UNCHANGED held
       ELSE held' = [held EXCEPT ![r] = rpcCounter[method[r]]] /\ UNCHANGED rpcCounter
    /\ Goto(r, "add")
    /\ UNCHANGED depth
LoadOrStore(r) ==
    \/ /\ rpcCounter[method[r]] = NoCell
       /\ rpcCounter' = [rpcCounter EXCEPT ![method[r]] = r]
       /\ Goto(r, "down") /\ Inward(r)
       /\ UNCHANGED held
    \/ /\ rpcCounter[method[r]] # NoCell
       /\ held' = [held EXCEPT ![r] = rpcCounter[method[r]]]
       /\ Goto(r, "add")
       /\ UNCHANGED <<rpcCounter, depth>>

CounterStore(r) ==
    /\ way[r] = "store"
    /\ LoadOrStore(r)
    /\ UNCHANGED <<callVars, result, value, requestsTotal, spanVars, lines, entered>>

CounterAdd(r) ==
    /\ way[r] = "add"
    /\ value' = [value EXCEPT ![held[r]] = @ + 1]
    /\ Goto(r, "down") /\ Inward(r)
    /\ UNCHANGED <<callVars, result, rpcCounter, held, requestsTotal, spanVars, lines, entered>>

-----------------------------------------------------------------------------
Handler(r) ==
    /\ way[r] = "down"
    /\ depth[r] = Len(chain) + 1
    /\ \E x \in Results \cup {"panic"} : result' = [result EXCEPT ![r] = x]
    /\ Goto(r, "up")
    /\ Outward(r)
    /\ UNCHANGED <<callVars, counterVars, requestsTotal, spanVars, lines, entered>>

\* The handler calls another service through the client interceptor, whose
\* span's context goes with the call, and waits for the answer.
Call(r, q) ==
    /\ way[r] = "down" /\ depth[r] = Len(chain) + 1
    /\ callSpan[r] = "none"
    /\ way[q] = "new"
    /\ caller' = [caller EXCEPT ![q] = r]
    /\ way' = [way EXCEPT ![r] = "calling", ![q] = "down"]
    /\ Inward(q)
    /\ callSpan' = [callSpan EXCEPT ![r] = "open"]
    /\ UNCHANGED <<chain, method, result, counterVars, requestsTotal,
                   span, parent, trace, sampled, lines, entered>>

CallReturns(r) ==
    /\ way[r] = "calling"
    /\ \E q \in Requests : caller[q] = r /\ way[q] = "done"
        /\ callSpan' = [callSpan EXCEPT ![r] = IF result[q] = "ok" THEN "ended" ELSE "failed"]
    /\ Goto(r, "down")
    /\ UNCHANGED <<callVars, depth, result, counterVars, requestsTotal,
                   span, parent, trace, sampled, lines, entered>>

PassOut(r) ==
    /\ At(r, "up", "counter") \/ At(r, "up", "limit")
    /\ Outward(r)
    /\ UNCHANGED <<callVars, way, result, counterVars, requestsTotal, spanVars, lines, entered>>

\* Counted after next has returned, with the code of what it returned.
CountUnknown(r) ==  \* mutant: err is not looked at
    requestsTotal' = [requestsTotal EXCEPT ![<<method[r], "unknown">>] = @ + 1]
CountRequest(r) ==
    requestsTotal' = [requestsTotal EXCEPT ![<<method[r], CodeOf(result[r])>>] = @ + 1]

MetricsOut(r) ==
    /\ At(r, "up", "metrics")
    /\ \/ result[r] # "panic" /\ CountRequest(r)
       \/ result[r] = "panic" /\ UNCHANGED requestsTotal
    /\ Outward(r)
    /\ UNCHANGED <<callVars, way, result, counterVars, spanVars, lines, entered>>

\* The span is marked when next returned an error; its End is deferred.
EndSpanUndeferred(r) ==  \* mutant
    span' = [span EXCEPT ![r] = CASE result[r] \in Failures -> "failed"
                                  [] result[r] = "ok" -> "ended" [] OTHER -> @]
EndSpan(r) == span' = [span EXCEPT ![r] = IF result[r] \in Failures THEN "failed" ELSE "ended"]

TraceOut(r) ==
    /\ At(r, "up", "trace")
    /\ EndSpan(r)
    /\ Outward(r)
    /\ UNCHANGED <<callVars, way, result, counterVars, requestsTotal, callSpan, parent, trace, sampled, lines, entered>>

\* Deferred: a line for the error next returned, sampled or not.  A panic
\* leaves err nil, and the line of a sampled request reads like a success.
LogSampledOnly(r) ==  \* mutant
    IF IsSampled(r) THEN Logged(r, "response", IF result[r] \in Failures THEN "error" ELSE "info")
    ELSE UNCHANGED lines
LogResponse(r) ==
    \/ result[r] \in Failures /\ Logged(r, "response", "error")
    \/ result[r] \notin Failures /\ IsSampled(r) /\ Logged(r, "response", "info")
    \/ result[r] \notin Failures /\ ~IsSampled(r) /\ UNCHANGED lines

LogOut(r) ==
    /\ At(r, "up", "logger")
    /\ LogResponse(r)
    /\ Outward(r)
    /\ UNCHANGED <<callVars, way, result, counterVars, requestsTotal, spanVars, entered>>

\* connect.WithRecover(infra.RecoverFn): a panic is logged and becomes an
\* internal error.
RecoverOut(r) ==
    /\ At(r, "up", "recover")
    /\ \/ result[r] = "panic" /\ Logged(r, "panic", "error")
       \/ result[r] # "panic" /\ UNCHANGED lines
    /\ result' = [result EXCEPT ![r] = IF @ = "panic" THEN "coded" ELSE @]
    /\ Outward(r)
    /\ UNCHANGED <<callVars, way, counterVars, requestsTotal, spanVars, entered>>

Answer(r) ==
    /\ way[r] = "up"
    /\ depth[r] = 0
    /\ Goto(r, "done")
    /\ UNCHANGED <<callVars, depth, result, counterVars, requestsTotal, spanVars, lines, entered>>

AllDone == \A r \in Requests : way[r] = "done"
Quiet == AllDone /\ UNCHANGED vars

Next ==
    \/ \E r \in Requests :
        \/ Arrive(r) \/ PassIn(r) \/ LimitIn(r) \/ TraceIn(r)
        \/ CounterLoad(r) \/ CounterStore(r) \/ CounterAdd(r)
        \/ Handler(r) \/ PassOut(r) \/ MetricsOut(r) \/ TraceOut(r) \/ RecoverOut(r)
        \/ LogRequest(r) \/ LogOut(r) \/ CallReturns(r) \/ \E q \in Requests : Call(r, q)
        \/ Answer(r)
    \/ Quiet

Spec == Init /\ [][Next]_vars

-----------------------------------------------------------------------------
Passed(layer, m) == {r \in Requests : layer \in entered[r] /\ method[r] = m}

(***************************************************************************)
(* No increment is lost or doubled when the first requests of a procedure  *)
(* race to create its counter (counter.go:86-98).                          *)
(***************************************************************************)
CountersExact ==
    AllDone => \A m \in Methods :
        IF rpcCounter[m] = NoCell THEN Passed("counter", m) = {}
        ELSE value[rpcCounter[m]] = Cardinality(Passed("counter", m))

(***************************************************************************)
(* The race for a counter cannot be seen from outside: at every step, not  *)
(* only when all requests are over, the counter of a procedure is the      *)
(* number of requests that are past increment, and it goes up by one when a*)
(* request is through it.  No counter is ever replaced, set back or added  *)
(* to twice (counter.go:86-98).                                            *)
(***************************************************************************)
Totals == [m \in Methods |-> IF rpcCounter[m] = NoCell THEN 0 ELSE value[rpcCounter[m]]]
CountedRequests == {r \in Requests : "counter" \in entered[r] /\ way[r] \notin {"store", "add"}}
Counter == INSTANCE RequestCounter WITH total <- Totals, counted <- CountedRequests
CountsAtomically == Counter!Spec

(***************************************************************************)
(* What the metrics tell of the answers: an error with a code is counted   *)
(* under its own code or, a panic on its way up, nowhere; when panics are  *)
(* recovered inside the metrics, none of them is missed.  Everything else, *)
(* success and errors without a code alike, is counted once as "unknown",  *)
(* and nothing as "ok" (metrics.go:49-55), although "Success and error     *)
(* requests are distinguishable by `code` label" (request metrics spec).   *)
(***************************************************************************)
RecoverInside == \E i, j \in DOMAIN chain : i < j /\ chain[i] = "metrics" /\ chain[j] = "recover"
Carries(r, code) == result[r] # "panic" /\ CodeOf(result[r]) = code
MeasuredByCode ==
    AllDone => \A m \in Methods, code \in Codes :
        LET answered == Cardinality({r \in Passed("metrics", m) : Carries(r, code)})
        IN  /\ requestsTotal[<<m, code>>] <= answered
            /\ code # "coded" \/ RecoverInside => requestsTotal[<<m, code>>] = answered

(***************************************************************************)
(* A request that is over has no open span, even if its handler panicked,  *)
(* and a span marked as failed belongs to a request that was answered with *)
(* an error (trace.go:25-33, 45-53).                                       *)
(***************************************************************************)
SpansEnd ==
    \A r \in Requests : way[r] = "done" =>
        /\ span[r] # "open" /\ callSpan[r] # "open"
        /\ span[r] = "failed" => result[r] \in Failures

(***************************************************************************)
(* A request that reached the logger and is answered with an error, be it  *)
(* the handler's, the limiter's or what a panic was turned into, has left a*)
(* line at error level, sampled or not; and such a line is only written for*)
(* a request that is answered with an error, or not answered at all        *)
(* (req_rsp_logger.go:51-72, recover.go:12-28).                            *)
(***************************************************************************)
FailuresLogged ==
    \A r \in Requests : way[r] = "done" =>
        LET alarm == \E l \in lines : l.by = r /\ l.level = "error"
        IN  /\ "logger" \in entered[r] /\ result[r] \in Failures => alarm
            /\ alarm => result[r] # "ok"

(***************************************************************************)
(* "Span of B (the callee) has a parent span ID pointing to the span of A  *)
(* (the caller)" (distributed trace spec, acceptance criteria), and both   *)
(* services log the same trace: a call continues the trace of its caller,  *)
(* is sampled as that is, and a line written inside the trace names it,    *)
(* however many requests are in the services at once (trace.go:59-98).     *)
(***************************************************************************)
Instrumented(r) == span[r] # "none"
OneTrace ==
    /\ \A r \in Requests : Instrumented(r) /\ caller[r] # Nobody =>
        /\ parent[r] = caller[r]
        /\ trace[r] = trace[caller[r]] /\ sampled[r] = sampled[caller[r]]
    /\ \A l, m \in lines : l.trace # Nobody /\ caller[m.by] = l.by =>
        m.trace \in {Nobody, l.trace}

(***************************************************************************)
(* "Every unary request produces: one counter increment" (request metrics  *)
(* spec, acceptance criteria).                                             *)
(***************************************************************************)
EveryRequestMeasured ==
    AllDone => \A m \in Methods :
        requestsTotal[<<m, "ok">>] + requestsTotal[<<m, "coded">>] + requestsTotal[<<m, "unknown">>]
            = Cardinality(Passed("metrics", m))
=============================================================================
