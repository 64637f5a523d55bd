-------------------------- MODULE InterceptorsProofs --------------------------
(***************************************************************************)
(* Theorems about Interceptors, for any chain without repetitions and any  *)
(* number of requests and procedures.                                      *)
(***************************************************************************)
EXTENDS Interceptors, FiniteSetTheorems, TLAPS

\* Types, without the bounds on what is counted.
Types ==
    /\ chain \in Chains
    /\ method \in [Requests -> Methods]
    /\ caller \in [Requests -> Requests \cup {Nobody}]
    /\ way \in [Requests -> {"new", "down", "store", "add", "calling", "up", "done"}]
    /\ depth \in [Requests -> Nat]
    /\ result \in [Requests -> {"none", "panic"} \cup Results]
    /\ rpcCounter \in [Methods -> Requests \cup {NoCell}]
    /\ held \in [Requests -> Requests \cup {NoCell}]
    /\ value \in [Requests -> Nat]
    /\ requestsTotal \in [Methods \X Codes -> Nat]
    /\ span \in [Requests -> Spans] /\ callSpan \in [Requests -> Spans]
    /\ parent \in [Requests -> Requests \cup {Nobody}]
    /\ trace \in [Requests -> Requests \cup {Nobody}]
    /\ sampled \in [Requests -> BOOLEAN]
    /\ lines \subseteq Lines
    /\ entered \in [Requests -> SUBSET Layers]

\* Where a request is decides which layers it has entered.
Place(r) ==
    /\ way[r] = "new" => depth[r] = 0 /\ entered[r] = {}
    /\ way[r] \in {"down", "calling"} =>
        /\ depth[r] \in 1 .. Len(chain) + 1
        /\ \A i \in DOMAIN chain : chain[i] \in entered[r] <=> i < depth[r]
    /\ way[r] \in {"store", "add"} =>
        /\ depth[r] \in DOMAIN chain /\ chain[depth[r]] = "counter"
        /\ \A i \in DOMAIN chain : chain[i] \in entered[r] <=> i <= depth[r]
    /\ way[r] = "calling" => depth[r] = Len(chain) + 1
    /\ way[r] = "up" =>
        /\ depth[r] \in 0 .. Len(chain)
        /\ \A i \in DOMAIN chain : i <= depth[r] => chain[i] \in entered[r]
    /\ way[r] = "done" => depth[r] = 0
    /\ \A layer \in entered[r] : \E i \in DOMAIN chain : chain[i] = layer
Journey == \A r \in Requests : Place(r)

Returning(r)   == way[r] \in {"up", "done"}
Past(layer, r) == Returning(r) /\ \E i \in DOMAIN chain : chain[i] = layer /\ i > depth[r]
Alarm(r)       == \E l \in lines : l.by = r /\ l.level = "error"

\* The counter of a procedure is what those that have passed it have added.
Counted(m) == {r \in Passed("counter", m) : way[r] \notin {"store", "add"}}
Counting ==
    /\ \A m \in Methods :
        \/ rpcCounter[m] = NoCell /\ Counted(m) = {}
        \/ /\ rpcCounter[m] \in Passed("counter", m) /\ way[rpcCounter[m]] # "store"
           /\ value[rpcCounter[m]] = Cardinality(Counted(m))
    /\ \A r \in Requests :
        /\ way[r] = "store" => value[r] = 1
        /\ way[r] = "add" => held[r] = rpcCounter[method[r]] /\ held[r] # NoCell
        /\ (\A m \in Methods : rpcCounter[m] # r) => value[r] <= 1

\* What has been answered, ended and logged on the way up.
Told(r) ==
    /\ Returning(r) <=> result[r] # "none"
    /\ ~Returning(r) => span[r] \in {"none", "open"} /\ ~Alarm(r)
    /\ span[r] # "none" <=> "trace" \in entered[r]
    /\ Past("trace", r) => span[r] # "open"
    /\ span[r] = "failed" => result[r] \in Failures
    /\ callSpan[r] = "open" => way[r] = "calling"
    /\ Alarm(r) => result[r] \in Failures
    /\ Past("logger", r) /\ "logger" \in entered[r] /\ result[r] \in Failures => Alarm(r)
    /\ Past("recover", r) => result[r] # "panic"
Telling == \A r \in Requests : Told(r)

\* A caller's trace is settled, and so is that of a line.
Tracing ==
    /\ \A r \in Requests : caller[r] # Nobody =>
        /\ way[r] # "new"
        /\ way[caller[r]] \in {"calling", "up", "done"} \/ depth[caller[r]] = Len(chain) + 1
        /\ Instrumented(r) => /\ parent[r] = caller[r]
                              /\ trace[r] = trace[caller[r]]
                              /\ sampled[r] = sampled[caller[r]]
    /\ \A l \in lines :
        /\ way[l.by] # "new"
        /\ l.trace # Nobody => Instrumented(l.by) /\ l.trace = trace[l.by]

\* The metrics hold those that have passed them and may miss panics.
Measured(m, code) ==
    {r \in Passed("metrics", m) : Past("metrics", r) /\ Carries(r, code)}
Measuring ==
    \A m \in Methods, code \in Codes :
        /\ requestsTotal[<<m, code>>] <= Cardinality(Measured(m, code))
        /\ code # "coded" \/ RecoverInside =>
              requestsTotal[<<m, code>>] = Cardinality(Measured(m, code))

IInv == Types /\ Journey /\ Counting /\ Telling /\ Tracing /\ Measuring

-----------------------------------------------------------------------------
\* The steps of one request alone.
GoIn(r)   == Arrive(r) \/ PassIn(r) \/ LimitIn(r) \/ TraceIn(r) \/ LogRequest(r)
Count(r)  == CounterLoad(r) \/ CounterStore(r) \/ CounterAdd(r)
GoOut(r)  == \/ Handler(r) \/ PassOut(r) \/ MetricsOut(r) \/ TraceOut(r) \/ LogOut(r)
             \/ RecoverOut(r) \/ Answer(r)
Step(r)   == GoIn(r) \/ Count(r) \/ GoOut(r) \/ CallReturns(r)

LEMMA ChainIsSequence ==
    ASSUME IInv
    PROVE  /\ chain \in Seq(Layers) /\ DOMAIN chain = 1 .. Len(chain) /\ Len(chain) \in Nat
           /\ \A i, j \in DOMAIN chain : chain[i] = chain[j] => i = j
<1> QED
  BY ChainsAssumption DEF IInv, Types

LEMMA NextIsSteps ==
    ASSUME [Next]_vars
    PROVE  \/ \E r \in Requests : Step(r)
           \/ \E r, q \in Requests : Call(r, q)
           \/ UNCHANGED vars
<1> QED
  BY DEF Next, Step, GoIn, Count, GoOut, Quiet

LEMMA InitIInv == Init => IInv
<1> SUFFICES ASSUME Init PROVE IInv
  OBVIOUS
<1>1. Types
  BY DEF Init, Types, Codes, Spans, Lines
<1>2. Journey
  BY DEF Init, Journey, Place
<1>3. Telling /\ Tracing
  BY DEF Init, Telling, Told, Returning, Past, Alarm, Tracing
<1>4. Counting
  <2>1. \A m \in Methods : Counted(m) = {}
    BY DEF Init, Counted, Passed
  <2> QED
    BY <2>1 DEF Init, Counting
<1>5. Measuring
  <2>1. \A m \in Methods, code \in Codes : Measured(m, code) = {}
    BY DEF Init, Measured, Passed
  <2>2. Cardinality({}) = 0
    BY FS_EmptySet
  <2>3. \A m \in Methods, code \in Codes : requestsTotal[<<m, code>>] = 0
    BY DEF Init
  <2> QED
    <3> SUFFICES ASSUME NEW m \in Methods, NEW code \in Codes
                 PROVE  requestsTotal[<<m, code>>] = Cardinality(Measured(m, code))
                        /\ requestsTotal[<<m, code>>] <= Cardinality(Measured(m, code))
      BY DEF Measuring
    <3>1. Cardinality(Measured(m, code)) = 0
      BY <2>1, <2>2
    <3>2. requestsTotal[<<m, code>>] = 0
      BY <2>3
    <3> QED
      BY <3>1, <3>2
<1> QED
  BY <1>1, <1>2, <1>3, <1>4, <1>5 DEF IInv

\* A step of one request leaves the others alone.
LEMMA StepAlone ==
    ASSUME IInv, NEW r \in Requests, Step(r), NEW q \in Requests \ {r}
    PROVE  /\ way'[q] = way[q] /\ depth'[q] = depth[q] /\ entered'[q] = entered[q]
           /\ result'[q] = result[q] /\ span'[q] = span[q] /\ callSpan'[q] = callSpan[q]
           /\ parent'[q] = parent[q] /\ trace'[q] = trace[q] /\ sampled'[q] = sampled[q]
           /\ held'[q] = held[q]
           /\ UNCHANGED <<chain, method, caller>>
<1> USE DEF IInv, Types, callVars, counterVars, spanVars, Goto, Inward, Outward, Enter
<1>1. CASE GoIn(r)
  BY <1>1 DEF GoIn, Arrive, PassIn, LimitIn, TraceIn, Extracted, LogRequest
<1>2. CASE Count(r)
  BY <1>2 DEF Count, CounterLoad, CounterStore, CounterAdd, LoadOrStore
<1>3. CASE GoOut(r)
  BY <1>3 DEF GoOut, Handler, PassOut, MetricsOut, TraceOut, EndSpan, LogOut, RecoverOut, Answer
<1>4. CASE CallReturns(r)
  BY <1>4 DEF CallReturns
<1> QED
  BY <1>1, <1>2, <1>3, <1>4 DEF Step

LEMMA StepKeepsTypes ==
    ASSUME IInv, NEW r \in Requests, Step(r)
    PROVE  Types'
<1> USE DEF IInv, Types, callVars, counterVars, spanVars, Goto, Inward, Outward, Enter, Results, Failures, Codes, Spans
<1>1. chain[depth[r]] \in Layers \/ depth[r] \notin DOMAIN chain
  BY ChainIsSequence
<1>2. \A text \in {"request", "response", "panic"}, level \in {"info", "error"} :
          Logged(r, text, level) => lines' \subseteq Lines
  <2>1. (IF InTrace(r) THEN trace[r] ELSE Nobody) \in Requests \cup {Nobody}
    OBVIOUS
  <2> QED
    BY <2>1 DEF Logged, Lines
<1>3. CASE GoIn(r)
  <2>1. lines' \subseteq Lines
    BY <1>2, <1>3 DEF GoIn, Arrive, PassIn, LimitIn, TraceIn, LogRequest
  <2>2. CASE Arrive(r)
    BY <2>1, <2>2 DEF Arrive
  <2>3. CASE PassIn(r)
    BY <1>1, <2>1, <2>3 DEF PassIn, At
  <2>4. CASE LimitIn(r)
    <3>1. depth[r] + 1 \in Nat /\ depth[r] - 1 \in Nat /\ chain[depth[r]] \in Layers
      BY <2>4, ChainIsSequence DEF LimitIn, At
    <3>2. depth' \in [Requests -> Nat] /\ entered' \in [Requests -> SUBSET Layers]
      BY <2>4, <3>1 DEF LimitIn
    <3>3. /\ way' \in [Requests -> {"new", "down", "store", "add", "calling", "up", "done"}]
          /\ result' \in [Requests -> {"none", "panic"} \cup Results]
      BY <2>4 DEF LimitIn
    <3> QED
      BY <2>1, <2>4, <3>2, <3>3 DEF LimitIn
  <2>5. CASE TraceIn(r)
    <3>1. depth' \in [Requests -> Nat] /\ entered' \in [Requests -> SUBSET Layers]
      BY <1>1, <2>5 DEF TraceIn, At
    <3>2. /\ parent' \in [Requests -> Requests \cup {Nobody}]
          /\ trace' \in [Requests -> Requests \cup {Nobody}]
      BY <2>5 DEF TraceIn, Extracted
    <3>3. sampled' \in [Requests -> BOOLEAN] /\ span' \in [Requests -> Spans]
      BY <2>5 DEF TraceIn, Extracted
    <3> QED
      BY <2>1, <2>5, <3>1, <3>2, <3>3 DEF TraceIn
  <2>6. CASE LogRequest(r)
    BY <1>1, <2>1, <2>6 DEF LogRequest, At
  <2> QED
    BY <1>3, <2>2, <2>3, <2>4, <2>5, <2>6 DEF GoIn
<1>4. CASE Count(r)
  <2>1. CASE CounterLoad(r)
    <3>1. way' \in [Requests -> {"new", "down", "store", "add", "calling", "up", "done"}]
      BY <2>1 DEF CounterLoad
    <3>2. held' \in [Requests -> Requests \cup {NoCell}] /\ value' \in [Requests -> Nat]
      BY <2>1 DEF CounterLoad
    <3>3. entered' \in [Requests -> SUBSET Layers]
      BY <1>1, <2>1 DEF CounterLoad, At
    <3> QED
      BY <2>1, <3>1, <3>2, <3>3 DEF CounterLoad
  <2>2. CASE CounterStore(r)
    <3>1. /\ rpcCounter' \in [Methods -> Requests \cup {NoCell}]
          /\ held' \in [Requests -> Requests \cup {NoCell}]
      <4>1. LoadOrStore(r)
        BY <2>2 DEF CounterStore
      <4>2. rpcCounter' \in [Methods -> Requests \cup {NoCell}]
        BY <4>1 DEF LoadOrStore
      <4>3. held' \in [Requests -> Requests \cup {NoCell}]
        BY <4>1 DEF LoadOrStore
      <4> QED
        BY <4>2, <4>3
    <3>2. way' \in [Requests -> {"new", "down", "store", "add", "calling", "up", "done"}]
      BY <2>2 DEF CounterStore, LoadOrStore
    <3>3. depth' \in [Requests -> Nat]
      BY <2>2 DEF CounterStore, LoadOrStore
    <3> QED
      BY <2>2, <3>1, <3>2, <3>3 DEF CounterStore
  <2>3. CASE CounterAdd(r)
    <3>1. held[r] \in Requests /\ value' = [value EXCEPT ![held[r]] = @ + 1]
      BY <2>3 DEF CounterAdd, Counting
    <3>2. value' \in [Requests -> Nat]
      BY <3>1
    <3> QED
      BY <2>3, <3>2 DEF CounterAdd
  <2> QED
    BY <1>4, <2>1, <2>2, <2>3 DEF Count
<1>5. CASE GoOut(r)
  <2>1. lines' \subseteq Lines
    BY <1>2, <1>5 DEF GoOut, Handler, PassOut, MetricsOut, TraceOut, LogOut, LogResponse,
                      RecoverOut, Answer
  <2>2. way[r] = "up" => depth[r] \in Nat
    OBVIOUS
  <2>3. CASE Handler(r)
    BY <2>1, <2>3, ChainIsSequence DEF Handler
  <2>4. CASE PassOut(r)
    BY <2>1, <2>4, ChainIsSequence DEF PassOut, At
  <2>5. CASE MetricsOut(r)
    <3>1. requestsTotal' \in [Methods \X Codes -> Nat]
      <4> DEFINE x == <<method[r], CodeOf(result[r])>>
      <4>1. x \in Methods \X Codes \/ UNCHANGED requestsTotal
        BY <2>5 DEF MetricsOut, CodeOf
      <4>2. requestsTotal' = [requestsTotal EXCEPT ![x] = @ + 1] \/ UNCHANGED requestsTotal
        BY <2>5 DEF MetricsOut, CountRequest
      <4> HIDE DEF x
      <4>3. x \in Methods \X Codes => requestsTotal[x] + 1 \in Nat
        OBVIOUS
      <4> QED
        BY <4>1, <4>2, <4>3
    <3> QED
      BY <2>1, <2>5, <3>1, ChainIsSequence DEF MetricsOut, At
  <2>6. CASE TraceOut(r)
    BY <2>1, <2>6, ChainIsSequence DEF TraceOut, At, EndSpan
  <2>7. CASE LogOut(r)
    BY <2>1, <2>7, ChainIsSequence DEF LogOut, At
  <2>8. CASE RecoverOut(r)
    BY <2>1, <2>8, ChainIsSequence DEF RecoverOut, At
  <2>9. CASE Answer(r)
    BY <2>1, <2>9 DEF Answer
  <2> QED
    BY <1>5, <2>3, <2>4, <2>5, <2>6, <2>7, <2>8, <2>9 DEF GoOut
<1>6. CASE CallReturns(r)
  BY <1>6 DEF CallReturns
<1> QED
  BY <1>3, <1>4, <1>5, <1>6 DEF Step

\* A request gets from layer to layer.
Moves(r, w, d, e) == way'[r] = w /\ depth'[r] = d /\ entered'[r] = e
Hop(r) ==
    LET all == entered[r] \cup {chain[depth[r]]}
    IN  \/ way[r] = "new" /\ Moves(r, "down", 1, {})
        \/ /\ way[r] = "down" /\ depth[r] \in DOMAIN chain
           /\ \/ Moves(r, "down", depth[r] + 1, all)
              \/ Moves(r, "up", depth[r] - 1, all)
              \/ /\ chain[depth[r]] = "counter"
                 /\ Moves(r, "store", depth[r], all) \/ Moves(r, "add", depth[r], all)
        \/ way[r] = "store" /\ Moves(r, "add", depth[r], entered[r])
        \/ way[r] \in {"store", "add"} /\ Moves(r, "down", depth[r] + 1, entered[r])
        \/ way[r] = "down" /\ depth[r] = Len(chain) + 1 /\ Moves(r, "up", Len(chain), entered[r])
        \/ way[r] = "up" /\ depth[r] \in DOMAIN chain /\ Moves(r, "up", depth[r] - 1, entered[r])
        \/ way[r] = "up" /\ depth[r] = 0 /\ Moves(r, "done", 0, entered[r])
        \/ way[r] = "calling" /\ Moves(r, "down", depth[r], entered[r])

LEMMA StepHops ==
    ASSUME IInv, NEW r \in Requests, Step(r)
    PROVE  Hop(r)
<1> USE DEF IInv, Types, callVars, counterVars, spanVars, Goto, Inward, Outward, Enter, Hop, Moves
<1>1. Place(r) /\ DOMAIN chain = 1 .. Len(chain) /\ Len(chain) \in Nat
  BY ChainIsSequence DEF Journey
<1>2. CASE GoIn(r)
  <2>1. CASE Arrive(r)
    BY <1>1, <2>1 DEF Arrive, Place
  <2>2. CASE PassIn(r)
    BY <2>2 DEF PassIn, At
  <2>3. CASE LimitIn(r)
    BY <2>3 DEF LimitIn, At
  <2>4. CASE TraceIn(r)
    BY <2>4 DEF TraceIn, At
  <2>5. CASE LogRequest(r)
    BY <2>5 DEF LogRequest, At
  <2> QED
    BY <1>2, <2>1, <2>2, <2>3, <2>4, <2>5 DEF GoIn
<1>3. CASE Count(r)
  <2>1. CASE CounterLoad(r)
    BY <2>1 DEF CounterLoad, At
  <2>2. CASE CounterStore(r)
    BY <2>2 DEF CounterStore, LoadOrStore
  <2>3. CASE CounterAdd(r)
    BY <2>3 DEF CounterAdd
  <2> QED
    BY <1>3, <2>1, <2>2, <2>3 DEF Count
<1>4. CASE GoOut(r)
  <2>1. CASE Handler(r)
    BY <1>1, <2>1 DEF Handler
  <2>2. CASE Answer(r)
    BY <2>2 DEF Answer
  <2>3. CASE PassOut(r) \/ MetricsOut(r) \/ TraceOut(r) \/ LogOut(r) \/ RecoverOut(r)
    BY <2>3 DEF PassOut, MetricsOut, TraceOut, LogOut, RecoverOut, At
  <2> QED
    BY <1>4, <2>1, <2>2, <2>3 DEF GoOut
<1>5. CASE CallReturns(r)
  BY <1>5 DEF CallReturns
<1> QED
  BY <1>2, <1>3, <1>4, <1>5 DEF Step

LEMMA StepKeepsJourney ==
    ASSUME IInv, NEW r \in Requests, Step(r)
    PROVE  Journey'
<1>1. Place(r) /\ UNCHANGED chain
  <2>1. UNCHANGED chain
    BY DEF Step, GoIn, Count, GoOut, Arrive, PassIn, LimitIn, TraceIn, LogRequest, CounterLoad,
           CounterStore, CounterAdd, Handler, PassOut, MetricsOut, TraceOut, LogOut, RecoverOut,
           Answer, CallReturns, callVars
  <2> QED
    BY <2>1 DEF IInv, Journey
<1>2. /\ DOMAIN chain = 1 .. Len(chain) /\ Len(chain) \in Nat
      /\ \A i, j \in DOMAIN chain : chain[i] = chain[j] => i = j
  BY ChainIsSequence
<1>3. Hop(r)
  BY StepHops
<1>4. Place(r)'
  <2>1. CASE way[r] = "new"
    BY <1>1, <1>2, <1>3, <2>1 DEF Hop, Moves, Place
  <2>2. CASE way[r] = "down" /\ depth[r] \in DOMAIN chain
    BY <1>1, <1>2, <1>3, <2>2 DEF Hop, Moves, Place
  <2>3. CASE way[r] = "down" /\ depth[r] \notin DOMAIN chain
    BY <1>1, <1>2, <1>3, <2>3 DEF Hop, Moves, Place
  <2>4. CASE way[r] \in {"store", "add"}
    BY <1>1, <1>2, <1>3, <2>4 DEF Hop, Moves, Place
  <2>5. CASE way[r] = "up"
    BY <1>1, <1>2, <1>3, <2>5 DEF Hop, Moves, Place
  <2>6. CASE way[r] = "calling"
    BY <1>1, <1>2, <1>3, <2>6 DEF Hop, Moves, Place
  <2> QED
    BY <1>3, <2>1, <2>2, <2>3, <2>4, <2>5, <2>6 DEF Hop
<1>5. \A q \in Requests \ {r} : Place(q)'
  BY StepAlone DEF IInv, Journey, Place
<1> QED
  BY <1>4, <1>5 DEF Journey

-----------------------------------------------------------------------------
LEMMA PassedRequests ==
    \A layer \in Layers, m \in Methods : Passed(layer, m) \subseteq Requests
<1> QED
  BY DEF Passed

LEMMA CountedFinite ==
    \A m \in Methods : IsFiniteSet(Counted(m)) /\ Cardinality(Counted(m)) \in Nat
<1>1. \A m \in Methods : Counted(m) \subseteq Requests
  BY DEF Counted, Passed
<1> QED
  BY <1>1, RequestsAssumption, FS_Subset, FS_CardinalityType

\* A step outside of the counter changes nothing that is counted.
LEMMA ElsewhereKeepsCounting ==
    ASSUME IInv, NEW r \in Requests, Step(r), ~Count(r)
    PROVE  Counting'
<1> USE DEF IInv, Types, Goto, Enter
<1>1. UNCHANGED <<rpcCounter, held, value, method>>
  BY DEF Step, GoIn, GoOut, Arrive, PassIn, LimitIn, TraceIn, LogRequest, Handler, PassOut,
         MetricsOut, TraceOut, LogOut, RecoverOut, Answer, CallReturns, callVars, counterVars
<1>2. way[r] \notin {"store", "add"} /\ way'[r] \notin {"store", "add"}
  BY DEF Step, GoIn, GoOut, Arrive, PassIn, LimitIn, TraceIn, LogRequest, Handler, PassOut,
         MetricsOut, TraceOut, LogOut, RecoverOut, Answer, CallReturns, At
<1>3. "counter" \in entered'[r] <=> "counter" \in entered[r]
  BY DEF Step, GoIn, GoOut, Arrive, PassIn, LimitIn, TraceIn, LogRequest, Handler, PassOut,
         MetricsOut, TraceOut, LogOut, RecoverOut, Answer, CallReturns, At
<1>4. \A m \in Methods : Passed("counter", m)' = Passed("counter", m)
  BY <1>1, <1>3, StepAlone DEF Passed
<1>5. \A m \in Methods : Counted(m)' = Counted(m)
  BY <1>2, <1>4, StepAlone, PassedRequests DEF Counted, Layers
<1>6. \A q \in Requests : /\ way'[q] = "store" => way[q] = "store"
                          /\ way'[q] = "add" => way[q] = "add"
  BY <1>2, StepAlone
<1> QED
  BY <1>1, <1>4, <1>5, <1>6, PassedRequests DEF Counting, Layers

LEMMA LoadKeepsCounting ==
    ASSUME IInv, NEW r \in Requests, CounterLoad(r)
    PROVE  Counting'
<1> USE DEF IInv, Types, Goto, Enter, callVars
<1>0. PICK m \in Methods : m = method[r]
  OBVIOUS
<1> USE <1>0
<1>1. /\ UNCHANGED <<rpcCounter, method>>
      /\ way[r] = "down" /\ "counter" \notin entered[r]
      /\ entered' = [entered EXCEPT ![r] = entered[r] \cup {"counter"}]
      /\ way'[r] \in {"store", "add"}
  BY DEF CounterLoad, At, Journey, Place
<1>2. \A q \in Requests \ {r} : way'[q] = way[q] /\ entered'[q] = entered[q] /\ held'[q] = held[q]
  BY StepAlone DEF Step, Count
<1>3. \A n \in Methods : Passed("counter", n) \subseteq Passed("counter", n)'
  BY <1>1, <1>2 DEF Passed
<1>4. \A n \in Methods : Counted(n)' = Counted(n)
  <2>1. \A n \in Methods : r \notin Counted(n) /\ r \notin Counted(n)'
    BY <1>1 DEF Counted, Passed
  <2> QED
    BY <1>1, <1>2, <2>1 DEF Counted, Passed
<1>5. \A n \in Methods : rpcCounter[n] # r
  <2>1. \A n \in Methods : r \notin Passed("counter", n)
    BY <1>1 DEF Passed
  <2> QED
    BY <2>1, NoneAssumption DEF Counting
<1>6. \A q \in Requests \ {r} : value'[q] = value[q]
  BY DEF CounterLoad
<1>7. \A n \in Methods :
        \/ rpcCounter'[n] = NoCell /\ Counted(n)' = {}
        \/ /\ rpcCounter'[n] \in Passed("counter", n)' /\ way'[rpcCounter'[n]] # "store"
           /\ value'[rpcCounter'[n]] = Cardinality(Counted(n)')
  <2> TAKE n \in Methods
  <2>1. CASE rpcCounter[n] = NoCell /\ Counted(n) = {}
    BY <1>1, <1>4, <2>1
  <2>2. CASE /\ rpcCounter[n] \in Passed("counter", n) /\ way[rpcCounter[n]] # "store"
             /\ value[rpcCounter[n]] = Cardinality(Counted(n))
    <3>1. rpcCounter[n] \in Requests \ {r}
      BY <1>5, <2>2 DEF Passed
    <3> QED
      BY <1>1, <1>2, <1>3, <1>4, <1>6, <2>2, <3>1
  <2> QED
    BY <2>1, <2>2 DEF Counting
<1>8. /\ way'[r] = "store" => value'[r] = 1
      /\ way'[r] = "add" => held'[r] = rpcCounter'[method'[r]] /\ held'[r] # NoCell
      /\ value'[r] <= 1
  <2>1. value[r] <= 1
    BY <1>5 DEF Counting
  <2> QED
    BY <1>1, <2>1 DEF CounterLoad
<1>9. \A q \in Requests \ {r} :
        /\ way'[q] = "store" => value'[q] = 1
        /\ way'[q] = "add" => held'[q] = rpcCounter'[method'[q]] /\ held'[q] # NoCell
        /\ (\A n \in Methods : rpcCounter'[n] # q) => value'[q] <= 1
  BY <1>1, <1>2, <1>6 DEF Counting
<1> QED
  BY <1>7, <1>8, <1>9 DEF Counting

LEMMA StoreKeepsCounting ==
    ASSUME IInv, NEW r \in Requests, CounterStore(r)
    PROVE  Counting'
<1> USE DEF IInv, Types, Goto, Inward, callVars
<1>0. PICK m \in Methods : m = method[r]
  OBVIOUS
<1> USE <1>0
<1>1. /\ UNCHANGED <<method, value, entered>>
      /\ way[r] = "store" /\ value[r] = 1 /\ r \in Passed("counter", m)
  BY ChainIsSequence DEF CounterStore, Counting, Journey, Place, Passed
<1>2. \A q \in Requests \ {r} : way'[q] = way[q] /\ held'[q] = held[q]
  BY StepAlone DEF Step, Count
<1>3. \A n \in Methods : Passed("counter", n)' = Passed("counter", n)
  BY <1>1 DEF Passed
<1>4. CASE rpcCounter[m] = NoCell
  <2>1. rpcCounter' = [rpcCounter EXCEPT ![m] = r] /\ way'[r] = "down"
    BY <1>4 DEF CounterStore, LoadOrStore
  <2>2. Counted(m) = {}
    BY <1>1, <1>4, NoneAssumption DEF Counting, Passed
  <2>3. Counted(m)' = {r}
    BY <1>1, <1>2, <1>3, <2>1, <2>2, PassedRequests DEF Counted, Layers
  <2>4. Cardinality(Counted(m)') = 1
    BY <2>3, FS_Singleton
  <2>5. \A n \in Methods \ {m} : Counted(n)' = Counted(n)
    <3>1. \A n \in Methods \ {m} : r \notin Passed("counter", n)
      BY DEF Passed
    <3> QED
      BY <1>2, <1>3, <3>1, PassedRequests DEF Counted, Layers
  <2>6. \A n \in Methods \ {m} :
          \/ rpcCounter'[n] = NoCell /\ Counted(n)' = {}
          \/ /\ rpcCounter'[n] \in Passed("counter", n)' /\ way'[rpcCounter'[n]] # "store"
             /\ value'[rpcCounter'[n]] = Cardinality(Counted(n)')
    BY <1>1, <1>2, <1>3, <2>1, <2>5, PassedRequests DEF Counting, Layers
  <2>7. /\ rpcCounter'[m] = r /\ r \in Passed("counter", m)' /\ way'[r] # "store"
        /\ value'[r] = Cardinality(Counted(m)')
    BY <1>1, <1>3, <2>1, <2>4
  <2>8. \A q \in Requests :
          /\ way'[q] = "store" => value'[q] = 1
          /\ way'[q] = "add" => held'[q] = rpcCounter'[method'[q]] /\ held'[q] # NoCell
          /\ (\A n \in Methods : rpcCounter'[n] # q) => value'[q] <= 1
    <3> TAKE q \in Requests
    <3>1. CASE q = r
      BY <1>1, <2>1, <3>1
    <3>2. CASE q # r
      <4>1. way[q] = "add" => method[q] # m
        BY <1>4 DEF Counting
      <4>2. (\A n \in Methods : rpcCounter'[n] # q) => \A n \in Methods : rpcCounter[n] # q
        BY <1>4, <2>1, NoneAssumption
      <4> QED
        BY <1>1, <1>2, <2>1, <3>2, <4>1, <4>2 DEF Counting
    <3> QED
      BY <3>1, <3>2
  <2>9. \A n \in Methods :
          \/ rpcCounter'[n] = NoCell /\ Counted(n)' = {}
          \/ /\ rpcCounter'[n] \in Passed("counter", n)' /\ way'[rpcCounter'[n]] # "store"
             /\ value'[rpcCounter'[n]] = Cardinality(Counted(n)')
    BY <2>6, <2>7
  <2> QED
    BY <2>8, <2>9 DEF Counting
<1>5. CASE rpcCounter[m] # NoCell
  <2>1. /\ UNCHANGED rpcCounter
        /\ held'[r] = rpcCounter[m] /\ way'[r] = "add"
    BY <1>5 DEF CounterStore, LoadOrStore
  <2>2. \A n \in Methods : Counted(n)' = Counted(n)
    BY <1>1, <1>2, <1>3, <2>1, PassedRequests DEF Counted, Layers
  <2>3. \A q \in Requests :
          /\ way'[q] = "store" => value'[q] = 1
          /\ way'[q] = "add" => held'[q] = rpcCounter'[method'[q]] /\ held'[q] # NoCell
          /\ (\A n \in Methods : rpcCounter'[n] # q) => value'[q] <= 1
    BY <1>1, <1>2, <1>5, <2>1 DEF Counting
  <2> QED
    BY <1>1, <1>2, <1>3, <2>1, <2>2, <2>3, PassedRequests DEF Counting, Layers
<1> QED
  BY <1>4, <1>5

LEMMA AddKeepsCounting ==
    ASSUME IInv, NEW r \in Requests, CounterAdd(r)
    PROVE  Counting'
<1> USE DEF IInv, Types, Goto, Inward, callVars
<1>0. PICK m \in Methods : m = method[r]
  OBVIOUS
<1> USE <1>0
<1>1. /\ UNCHANGED <<method, rpcCounter, held, entered>>
      /\ way[r] = "add" /\ way'[r] = "down"
      /\ r \in Passed("counter", m) /\ held[r] = rpcCounter[m] /\ rpcCounter[m] # NoCell
  BY ChainIsSequence DEF CounterAdd, Counting, Journey, Place, Passed
<1>2. \A q \in Requests \ {r} : way'[q] = way[q]
  BY StepAlone DEF Step, Count
<1>3. \A n \in Methods : Passed("counter", n)' = Passed("counter", n)
  BY <1>1 DEF Passed
<1>4. PICK c \in Passed("counter", m) :
          /\ c = rpcCounter[m] /\ way[c] # "store" /\ c \in Requests
          /\ value[c] = Cardinality(Counted(m))
  BY <1>1 DEF Counting, Passed
<1>5. value'[c] = value[c] + 1 /\ \A q \in Requests \ {c} : value'[q] = value[q]
  <2>1. value' = [value EXCEPT ![c] = value[c] + 1]
    BY <1>1, <1>4 DEF CounterAdd
  <2> QED
    BY <1>4, <2>1
<1>6. r \notin Counted(m) /\ Counted(m)' = Counted(m) \cup {r}
  BY <1>1, <1>2, <1>3, PassedRequests DEF Counted, Layers
<1>7. Cardinality(Counted(m)') = Cardinality(Counted(m)) + 1
  <2>1. IsFiniteSet(Counted(m)) /\ r \notin Counted(m)
    BY <1>6, CountedFinite
  <2>2. Cardinality(Counted(m) \cup {r}) = Cardinality(Counted(m)) + 1
    BY <2>1, FS_AddElement
  <2> QED
    BY <1>6, <2>2
<1>8. \A n \in Methods \ {m} : Counted(n)' = Counted(n) /\ rpcCounter[n] # c
  <2>1. \A n \in Methods \ {m} : r \notin Passed("counter", n) /\ c \notin Passed("counter", n)
    BY <1>4 DEF Passed
  <2>2. \A n \in Methods \ {m} : Counted(n)' = Counted(n)
    BY <1>2, <1>3, <2>1, PassedRequests DEF Counted, Layers
  <2>3. \A n \in Methods \ {m} : rpcCounter[n] # c
    BY <1>4, <2>1, NoneAssumption DEF Counting
  <2> QED
    BY <2>2, <2>3
<1>9. \A n \in Methods :
        \/ rpcCounter'[n] = NoCell /\ Counted(n)' = {}
        \/ /\ rpcCounter'[n] \in Passed("counter", n)' /\ way'[rpcCounter'[n]] # "store"
           /\ value'[rpcCounter'[n]] = Cardinality(Counted(n)')
  <2> TAKE n \in Methods
  <2>1. CASE n = m
    BY <1>1, <1>2, <1>3, <1>4, <1>5, <1>7, <2>1
  <2>2. CASE n # m /\ rpcCounter[n] = NoCell
    BY <1>1, <1>8, <2>2, NoneAssumption DEF Counting, Passed
  <2>3. CASE n # m /\ rpcCounter[n] # NoCell
    <3>1. /\ rpcCounter[n] \in Passed("counter", n) /\ way[rpcCounter[n]] # "store"
          /\ value[rpcCounter[n]] = Cardinality(Counted(n))
      BY <2>3 DEF Counting
    <3>2. rpcCounter[n] \in Requests \ {c}
      BY <1>8, <2>3
    <3> QED
      BY <1>1, <1>2, <1>3, <1>5, <1>8, <2>3, <3>1, <3>2
  <2> QED
    BY <2>1, <2>2, <2>3
<1>10. \A q \in Requests :
        /\ way'[q] = "store" => value'[q] = 1
        /\ way'[q] = "add" => held'[q] = rpcCounter'[method'[q]] /\ held'[q] # NoCell
        /\ (\A n \in Methods : rpcCounter'[n] # q) => value'[q] <= 1
  <2> TAKE q \in Requests
  <2>1. way[q] = "store" => q # c
    BY <1>4
  <2> QED
    BY <1>1, <1>2, <1>4, <1>5, <2>1 DEF Counting
<1> QED
  BY <1>9, <1>10 DEF Counting

-----------------------------------------------------------------------------
\* The lines of a step are its own request's.
LEMMA OwnLines ==
    ASSUME IInv, NEW r \in Requests, Step(r)
    PROVE  /\ \A q \in Requests \ {r} : Alarm(q)' <=> Alarm(q)
           /\ lines \subseteq lines'
<1>1. /\ lines \subseteq lines'
      /\ \A l \in lines' : l \in lines \/ l.by = r
  BY DEF Step, GoIn, Count, GoOut, Arrive, PassIn, LimitIn, TraceIn, LogRequest, CounterLoad,
         CounterStore, CounterAdd, Handler, PassOut, MetricsOut, TraceOut, LogOut, LogResponse,
         RecoverOut, Answer, CallReturns, Logged
<1> QED
  BY <1>1 DEF Alarm

LEMMA LoggedAlarms ==
    ASSUME NEW r, NEW text, NEW level, Logged(r, text, level)
    PROVE  Alarm(r)' <=> Alarm(r) \/ level = "error"
<1> DEFINE l == [by |-> r, text |-> text, level |-> level,
                 trace |-> IF InTrace(r) THEN trace[r] ELSE Nobody]
<1>1. lines' = lines \cup {l} /\ l.by = r /\ l.level = level
  BY DEF Logged
<1> HIDE DEF l
<1> QED
  BY <1>1 DEF Alarm

LEMMA StepKeepsTelling ==
    ASSUME IInv, NEW r \in Requests, Step(r)
    PROVE  Telling'
<1> USE DEF IInv, Types, callVars, counterVars, spanVars, Goto, Inward, Outward, Enter
<1>1. \A q \in Requests \ {r} : Told(q)'
  <2> TAKE q \in Requests \ {r}
  <2>1. /\ way'[q] = way[q] /\ depth'[q] = depth[q] /\ entered'[q] = entered[q]
        /\ result'[q] = result[q] /\ span'[q] = span[q] /\ callSpan'[q] = callSpan[q]
        /\ UNCHANGED chain /\ (Alarm(q)' <=> Alarm(q))
    BY StepAlone, OwnLines
  <2>2. Returning(q)' <=> Returning(q)
    BY <2>1 DEF Returning
  <2>3. \A layer \in Layers : Past(layer, q)' <=> Past(layer, q)
    BY <2>1, <2>2 DEF Past
  <2> HIDE DEF IInv
  <2>4. Told(q)
    BY DEF IInv, Telling
  <2> QED
    BY <2>1, <2>2, <2>3, <2>4 DEF Told, Layers
<1>2. /\ DOMAIN chain = 1 .. Len(chain) /\ Len(chain) \in Nat
      /\ \A i, j \in DOMAIN chain : chain[i] = chain[j] => i = j
      /\ Told(r) /\ Place(r)
  BY ChainIsSequence DEF Telling, Journey
<1>3. ASSUME way[r] = "up", depth[r] \in DOMAIN chain, UNCHANGED <<chain, way>>,
             depth'[r] = depth[r] - 1
      PROVE  /\ Returning(r) /\ Returning(r)' /\ chain[depth[r]] \in entered[r]
             /\ \A layer \in Layers :
                  Past(layer, r)' <=> Past(layer, r) \/ chain[depth[r]] = layer
  BY <1>2, <1>3 DEF Past, Returning, Place
<1>4. Told(r)'
  <2>1. CASE Arrive(r) \/ PassIn(r) \/ CallReturns(r)
    BY <1>2, <2>1 DEF Arrive, PassIn, CallReturns, At, Told, Returning, Past, Alarm, Place
  <2>2. CASE LimitIn(r)
    BY <1>2, <2>2 DEF LimitIn, At, Told, Returning, Past, Alarm, Place
  <2>3. CASE TraceIn(r)
    BY <1>2, <2>3 DEF TraceIn, At, Told, Returning, Past, Alarm, Place
  <2>4. CASE LogRequest(r)
    BY <1>2, <2>4 DEF LogRequest, At, Told, Returning, Past, Alarm, Place, Logged
  <2>5. CASE Count(r)
    BY <1>2, <2>5 DEF Count, CounterLoad, CounterStore, CounterAdd, LoadOrStore, At, Told,
                      Returning, Past, Alarm, Place
  <2>6. CASE Handler(r)
    BY <1>2, <2>6 DEF Handler, Told, Returning, Past, Alarm, Place, Results, Failures
  <2>7. CASE PassOut(r) \/ MetricsOut(r)
    <3>1. /\ way[r] = "up" /\ depth[r] \in DOMAIN chain /\ UNCHANGED <<chain, way>>
          /\ depth'[r] = depth[r] - 1 /\ chain[depth[r]] \notin {"recover", "trace", "logger"}
          /\ UNCHANGED <<result, span, callSpan, entered, lines>>
      BY <2>7 DEF PassOut, MetricsOut, At
    <3> QED
      BY <1>2, <1>3, <3>1 DEF Told, Alarm, Layers
  <2>8. CASE TraceOut(r)
    <3>1. /\ way[r] = "up" /\ depth[r] \in DOMAIN chain /\ UNCHANGED <<chain, way>>
          /\ depth'[r] = depth[r] - 1 /\ chain[depth[r]] = "trace"
          /\ UNCHANGED <<result, callSpan, entered, lines>>
          /\ span'[r] = IF result[r] \in Failures THEN "failed" ELSE "ended"
      BY <2>8 DEF TraceOut, At, EndSpan
    <3> QED
      BY <1>2, <1>3, <3>1 DEF Told, Alarm, Layers
  <2>9. CASE LogOut(r)
    <3>1. /\ way[r] = "up" /\ depth[r] \in DOMAIN chain /\ UNCHANGED <<chain, way>>
          /\ depth'[r] = depth[r] - 1 /\ chain[depth[r]] = "logger"
          /\ UNCHANGED <<result, span, callSpan, entered>>
      BY <2>9 DEF LogOut, At
    <3>2. Alarm(r)' <=> Alarm(r) \/ result[r] \in Failures
      <4>1. CASE result[r] \in Failures
        BY <2>9, <4>1, LoggedAlarms DEF LogOut, LogResponse
      <4>2. CASE result[r] \notin Failures /\ Logged(r, "response", "info")
        BY <4>2, LoggedAlarms
      <4>3. CASE result[r] \notin Failures /\ UNCHANGED lines
        BY <4>3 DEF Alarm
      <4> QED
        BY <2>9, <4>1, <4>2, <4>3 DEF LogOut, LogResponse
    <3> QED
      BY <1>2, <1>3, <3>1, <3>2 DEF Told, Layers
  <2>10. CASE RecoverOut(r)
    <3>1. /\ way[r] = "up" /\ depth[r] \in DOMAIN chain /\ UNCHANGED <<chain, way>>
          /\ depth'[r] = depth[r] - 1 /\ chain[depth[r]] = "recover"
          /\ result'[r] = IF result[r] = "panic" THEN "coded" ELSE result[r]
          /\ UNCHANGED <<span, callSpan, entered>>
      BY <2>10 DEF RecoverOut, At
    <3>2. Alarm(r)' <=> Alarm(r) \/ result[r] = "panic"
      <4>1. CASE result[r] = "panic"
        BY <2>10, <4>1, LoggedAlarms DEF RecoverOut
      <4>2. CASE result[r] # "panic"
        BY <2>10, <4>2 DEF RecoverOut, Alarm
      <4> QED
        BY <4>1, <4>2
    <3> QED
      BY <1>2, <1>3, <3>1, <3>2 DEF Told, Layers, Failures
  <2>11. CASE Answer(r)
    BY <1>2, <2>11 DEF Answer, Told, Returning, Past, Alarm, Place
  <2> QED
    BY <2>1, <2>2, <2>3, <2>4, <2>5, <2>6, <2>7, <2>8, <2>9, <2>10, <2>11 DEF Step, GoIn, GoOut
<1> QED
  BY <1>1, <1>4 DEF Telling

-----------------------------------------------------------------------------
\* A step that is not TraceIn leaves the trace alone.
LEMMA TraceSettled ==
    ASSUME IInv, NEW r \in Requests, Step(r)
    PROVE  /\ TraceIn(r) \/ UNCHANGED <<span, parent, trace, sampled>> \/ TraceOut(r)
           /\ TraceOut(r) => UNCHANGED <<parent, trace, sampled>> /\ span[r] # "none" /\ span'[r] # "none"
           /\ \A l \in lines' \ lines : /\ l.by = r
                                        /\ l.trace = IF InTrace(r) THEN trace[r] ELSE Nobody
                                        /\ way[r] \notin {"new", "done"}
<1>1. \A text, level : Logged(r, text, level) =>
          \A l \in lines' \ lines : l.by = r /\ l.trace = IF InTrace(r) THEN trace[r] ELSE Nobody
  BY DEF Logged
<1>2. TraceIn(r) \/ UNCHANGED <<span, parent, trace, sampled>> \/ TraceOut(r)
  BY DEF Step, GoIn, Count, GoOut, Arrive, PassIn, LimitIn, LogRequest, CounterLoad, CounterStore,
         CounterAdd, Handler, PassOut, MetricsOut, LogOut, RecoverOut, Answer, CallReturns, spanVars
<1>3. TraceOut(r) => /\ UNCHANGED <<parent, trace, sampled>>
                     /\ span[r] # "none" /\ span'[r] # "none"
  <2>1. chain[depth[r]] \in entered[r] /\ chain[depth[r]] = "trace" => span[r] # "none"
    BY DEF IInv, Telling, Told
  <2>2. TraceOut(r) => chain[depth[r]] \in entered[r] /\ chain[depth[r]] = "trace"
    BY DEF TraceOut, At, IInv, Journey, Place
  <2> QED
    BY <2>1, <2>2 DEF TraceOut, EndSpan, IInv, Types
<1>4. UNCHANGED lines \/ LogRequest(r) \/ LogOut(r) \/ RecoverOut(r)
  BY DEF Step, GoIn, Count, GoOut, Arrive, PassIn, LimitIn, TraceIn, CounterLoad, CounterStore,
         CounterAdd, Handler, PassOut, MetricsOut, TraceOut, Answer, CallReturns
<1>5. LogRequest(r) \/ LogOut(r) \/ RecoverOut(r) =>
          /\ way[r] \in {"down", "up"}
          /\ UNCHANGED lines \/ \E text, level : Logged(r, text, level)
  BY DEF LogRequest, LogOut, LogResponse, RecoverOut, At
<1> QED
  BY <1>1, <1>2, <1>3, <1>4, <1>5

LEMMA StepKeepsTracing ==
    ASSUME IInv, NEW r \in Requests, Step(r)
    PROVE  Tracing'
<1> USE DEF IInv, Types
<1>1. /\ DOMAIN chain = 1 .. Len(chain) /\ Len(chain) \in Nat
      /\ UNCHANGED <<chain, caller>> /\ Place(r) /\ Told(r) /\ Hop(r)
  <2>1. UNCHANGED <<chain, caller>>
    BY DEF Step, GoIn, Count, GoOut, Arrive, PassIn, LimitIn, TraceIn, LogRequest, CounterLoad,
           CounterStore, CounterAdd, Handler, PassOut, MetricsOut, TraceOut, LogOut, RecoverOut,
           Answer, CallReturns, callVars
  <2> QED
    BY <2>1, ChainIsSequence, StepHops DEF Journey, Telling
<1>2. way'[r] # "new"
  BY <1>1 DEF Hop, Moves
<1>3. ASSUME NEW q \in Requests,
             way[q] \in {"calling", "up", "done"} \/ depth[q] = Len(chain) + 1, way[q] # "new"
      PROVE  /\ way'[q] \in {"calling", "up", "done"} \/ depth'[q] = Len(chain') + 1
             /\ trace'[q] = trace[q] /\ sampled'[q] = sampled[q]
  <2>1. CASE q = r
    <3>1. ~TraceIn(r)
      BY <1>1, <1>3, <2>1 DEF TraceIn, At
    <3>2. UNCHANGED <<trace, sampled>>
      BY <3>1, TraceSettled
    <3> QED
      BY <1>1, <1>3, <2>1, <3>2 DEF Hop, Moves, Place
  <2>2. CASE q # r
    BY <1>1, <1>3, <2>2, StepAlone
  <2> QED
    BY <2>1, <2>2
<1>4. \A q \in Requests : caller[q] # Nobody => caller[q] \in Requests /\ way[caller[q]] # "new"
  <2>1. \A q \in Requests : caller[q] # Nobody => caller[q] \in Requests
    OBVIOUS
  <2>2. ASSUME NEW q \in Requests, caller[q] # Nobody, way[caller[q]] = "new" PROVE FALSE
    <3>1. caller[q] \in Requests /\ depth[caller[q]] = 0
      BY <2>1, <2>2 DEF Journey, Place
    <3>2. depth[caller[q]] = Len(chain) + 1
      BY <2>2 DEF Tracing
    <3> QED
      BY <1>1, <3>1, <3>2
  <2> QED
    BY <2>1, <2>2
<1>5. ASSUME NEW q \in Requests, caller[q] # Nobody
      PROVE  /\ way'[q] # "new"
             /\ way'[caller[q]] \in {"calling", "up", "done"} \/ depth'[caller[q]] = Len(chain') + 1
             /\ Instrumented(q)' => /\ parent'[q] = caller[q]
                                    /\ trace'[q] = trace'[caller[q]]
                                    /\ sampled'[q] = sampled'[caller[q]]
  <2>1. /\ way'[caller[q]] \in {"calling", "up", "done"} \/ depth'[caller[q]] = Len(chain') + 1
        /\ trace'[caller[q]] = trace[caller[q]] /\ sampled'[caller[q]] = sampled[caller[q]]
    BY <1>3, <1>4, <1>5 DEF Tracing
  <2>2. way'[q] # "new"
    BY <1>2, <1>5, StepAlone DEF Tracing
  <2>3. CASE q = r /\ TraceIn(r)
    BY <1>5, <2>1, <2>2, <2>3 DEF TraceIn, Extracted
  <2>4. CASE q = r /\ ~TraceIn(r)
    <3>1. UNCHANGED <<parent, trace, sampled>> /\ (Instrumented(q)' => Instrumented(q))
      BY <2>4, TraceSettled DEF Instrumented
    <3> QED
      BY <1>5, <2>1, <2>2, <3>1 DEF Tracing
  <2>5. CASE q # r
    BY <1>5, <2>1, <2>2, <2>5, StepAlone DEF Tracing, Instrumented
  <2> QED
    BY <2>3, <2>4, <2>5
<1>6. ASSUME NEW l \in lines'
      PROVE  /\ way'[l.by] # "new"
             /\ l.trace # Nobody => Instrumented(l.by)' /\ l.trace = trace'[l.by]
  <2>1. CASE l \in lines
    <3>1. l.by \in Requests
      BY <2>1 DEF Lines
    <3>2. CASE l.by = r /\ TraceIn(r)
      <4>1. "trace" \notin entered[r]
        BY <1>1, <3>2 DEF TraceIn, At, Place
      <4>2. l.trace = Nobody
        BY <1>1, <2>1, <3>2, <4>1 DEF Tracing, Instrumented, Told
      <4> QED
        BY <1>2, <3>2, <4>2
    <3>3. CASE l.by = r /\ ~TraceIn(r)
      BY <1>2, <2>1, <3>3, TraceSettled DEF Tracing, Instrumented
    <3>4. CASE l.by # r
      BY <2>1, <3>1, <3>4, StepAlone DEF Tracing, Instrumented
    <3> QED
      BY <3>2, <3>3, <3>4
  <2>2. CASE l \notin lines
    <3>1. l.by = r /\ l.trace = (IF InTrace(r) THEN trace[r] ELSE Nobody)
          /\ way[r] \notin {"new", "done"}
      BY <1>6, <2>2, TraceSettled
    <3>2. InTrace(r) => "trace" \in entered[r]
      BY <1>1, <3>1 DEF InTrace, Place
    <3>3. InTrace(r) => Instrumented(r)
      BY <1>1, <3>2 DEF Told, Instrumented
    <3>4. InTrace(r) => ~TraceIn(r)
      <4>1. TraceIn(r) => "trace" \notin entered[r]
        BY <1>1 DEF TraceIn, At, Place
      <4> QED
        BY <3>2, <4>1
    <3> QED
      BY <1>2, <3>1, <3>3, <3>4, TraceSettled DEF Instrumented
  <2> QED
    BY <2>1, <2>2
<1> QED
  BY <1>1, <1>5, <1>6 DEF Tracing

-----------------------------------------------------------------------------
LEMMA MeasuredFinite ==
    \A m \in Methods, code \in Codes :
        /\ Measured(m, code) \subseteq Requests /\ IsFiniteSet(Measured(m, code))
        /\ Cardinality(Measured(m, code)) \in Nat
<1>1. \A m \in Methods, code \in Codes : Measured(m, code) \subseteq Requests
  BY DEF Measured, Passed
<1> QED
  BY <1>1, RequestsAssumption, FS_Subset, FS_CardinalityType

LEMMA StepKeepsMeasuring ==
    ASSUME IInv, NEW r \in Requests, Step(r)
    PROVE  Measuring'
<1> USE DEF IInv, Types, callVars, counterVars, spanVars, Goto, Inward, Outward, Enter
<1> DEFINE Seen(code) == /\ "metrics" \in entered[r] /\ Past("metrics", r) /\ Carries(r, code)
<1>1. /\ DOMAIN chain = 1 .. Len(chain) /\ Len(chain) \in Nat
      /\ \A i, j \in DOMAIN chain : chain[i] = chain[j] => i = j
      /\ UNCHANGED <<chain, method>> /\ Place(r) /\ Told(r)
  <2>1. UNCHANGED <<chain, method>>
    BY DEF Step, GoIn, Count, GoOut, Arrive, PassIn, LimitIn, TraceIn, LogRequest, CounterLoad,
           CounterStore, CounterAdd, Handler, PassOut, MetricsOut, TraceOut, LogOut, RecoverOut,
           Answer, CallReturns
  <2> QED
    BY <2>1, ChainIsSequence DEF Journey, Telling
<1>2. RecoverInside' <=> RecoverInside
  BY <1>1 DEF RecoverInside
<1>3. ASSUME NEW q \in Requests \ {r}, NEW m \in Methods, NEW code \in Codes
      PROVE  q \in Measured(m, code)' <=> q \in Measured(m, code)
  BY <1>1, StepAlone DEF Measured, Carries, Passed, Past, Returning
<1>4. \A m \in Methods, code \in Codes :
          /\ r \in Measured(m, code) <=> method[r] = m /\ Seen(code)
          /\ r \in Measured(m, code)' <=> method[r] = m /\ Seen(code)'
  BY <1>1 DEF Measured, Passed
<1>a. ASSUME NEW m \in Methods, NEW code \in Codes,
             r \in Measured(m, code)' <=> r \in Measured(m, code)
      PROVE  Measured(m, code)' = Measured(m, code)
  <2>1. Measured(m, code)' \subseteq Requests /\ Measured(m, code) \subseteq Requests
    BY DEF Measured, Passed
  <2>2. \A q \in Requests : q \in Measured(m, code)' <=> q \in Measured(m, code)
    BY <1>3, <1>a
  <2> QED
    BY <2>1, <2>2
<1>5. CASE MetricsOut(r) /\ result[r] # "panic"
  <2>1. PICK m \in Methods, code \in Codes : m = method[r] /\ code = CodeOf(result[r])
    BY DEF CodeOf, Codes
  <2>2. requestsTotal' = [requestsTotal EXCEPT ![<<m, code>>] = @ + 1]
    BY <1>5, <2>1 DEF MetricsOut, CountRequest
  <2>3. /\ requestsTotal'[<<m, code>>] = requestsTotal[<<m, code>>] + 1
        /\ \A n \in Methods, x \in Codes : n # m \/ x # code =>
              requestsTotal'[<<n, x>>] = requestsTotal[<<n, x>>]
    BY <2>2
  <2>4. \A x \in Codes : ~Seen(x) /\ (Seen(x)' <=> x = code)
    BY <1>1, <1>5, <2>1 DEF MetricsOut, At, Past, Returning, Place, Carries
  <2>5. r \notin Measured(m, code) /\ Measured(m, code)' = Measured(m, code) \cup {r}
    <3>1. r \notin Measured(m, code) /\ r \in Measured(m, code)'
      BY <1>4, <2>1, <2>4
    <3>2. Measured(m, code)' \subseteq Requests
      BY DEF Measured, Passed
    <3> QED
      BY <1>3, <3>1, <3>2, MeasuredFinite
  <2>6. Cardinality(Measured(m, code)') = Cardinality(Measured(m, code)) + 1
    <3>1. IsFiniteSet(Measured(m, code))
      BY MeasuredFinite
    <3>2. Cardinality(Measured(m, code) \cup {r}) = Cardinality(Measured(m, code)) + 1
      BY <2>5, <3>1, FS_AddElement
    <3> QED
      BY <2>5, <3>2
  <2>7. \A n \in Methods, x \in Codes : n # m \/ x # code => Measured(n, x)' = Measured(n, x)
    <3>1. \A n \in Methods, x \in Codes :
              n # m \/ x # code => r \notin Measured(n, x) /\ r \notin Measured(n, x)'
      BY <1>4, <2>1, <2>4
    <3> QED
      BY <1>a, <3>1
  <2>8. \A n \in Methods, x \in Codes : requestsTotal[<<n, x>>] \in Nat
    OBVIOUS
  <2>9. ASSUME NEW n \in Methods, NEW x \in Codes
        PROVE  /\ requestsTotal'[<<n, x>>] <= Cardinality(Measured(n, x)')
               /\ x # "coded" \/ RecoverInside =>
                      requestsTotal'[<<n, x>>] = Cardinality(Measured(n, x)')
    <3>1. CASE n = m /\ x = code
      BY <2>3, <2>6, <2>8, <3>1, MeasuredFinite DEF Measuring
    <3>2. CASE n # m \/ x # code
      BY <2>3, <2>7, <3>2 DEF Measuring
    <3> QED
      BY <3>1, <3>2
  <2> QED
    BY <1>2, <2>9 DEF Measuring
<1>6. CASE RecoverOut(r) /\ result[r] = "panic" /\ Past("metrics", r)
  <2>1. ~RecoverInside
    BY <1>1, <1>6 DEF RecoverOut, At, Past, RecoverInside
  <2>2. \A x \in Codes : ~Seen(x)
    BY <1>6 DEF Carries
  <2>3. \A x \in Codes \ {"coded"} : ~Seen(x)'
    BY <1>6 DEF RecoverOut, Carries, CodeOf
  <2>4. \A m \in Methods, x \in Codes : Measured(m, x) \subseteq Measured(m, x)'
    BY <1>3, <1>4, <2>2, MeasuredFinite
  <2>5. \A m \in Methods, x \in Codes \ {"coded"} : Measured(m, x)' = Measured(m, x)
    <3>1. \A m \in Methods, x \in Codes \ {"coded"} :
              r \notin Measured(m, x) /\ r \notin Measured(m, x)'
      BY <1>4, <2>2, <2>3
    <3> QED
      BY <1>a, <3>1
  <2>6. \A m \in Methods, x \in Codes :
            /\ Cardinality(Measured(m, x)) <= Cardinality(Measured(m, x)')
            /\ Cardinality(Measured(m, x)') \in Nat
    <3>1. \A m \in Methods, x \in Codes : IsFiniteSet(Measured(m, x)')
      <4>1. \A m \in Methods, x \in Codes : Measured(m, x)' \subseteq Requests
        BY DEF Measured, Passed
      <4> QED
        BY <4>1, RequestsAssumption, FS_Subset
    <3> QED
      BY <2>4, <3>1, FS_Subset, FS_CardinalityType
  <2>7. UNCHANGED requestsTotal
    BY <1>6 DEF RecoverOut
  <2>8. \A n \in Methods, x \in Codes : requestsTotal[<<n, x>>] \in Nat
    OBVIOUS
  <2>9. ASSUME NEW n \in Methods, NEW x \in Codes
        PROVE  /\ requestsTotal'[<<n, x>>] <= Cardinality(Measured(n, x)')
               /\ x # "coded" => requestsTotal'[<<n, x>>] = Cardinality(Measured(n, x)')
    <3>1. /\ requestsTotal[<<n, x>>] <= Cardinality(Measured(n, x))
          /\ x # "coded" => requestsTotal[<<n, x>>] = Cardinality(Measured(n, x))
      BY DEF Measuring
    <3>2. x # "coded" => Measured(n, x)' = Measured(n, x)
      BY <2>5
    <3>3. Cardinality(Measured(n, x)) \in Nat
      BY MeasuredFinite
    <3> QED
      BY <2>6, <2>7, <2>8, <3>1, <3>2, <3>3
  <2> QED
    BY <1>2, <2>1, <2>9 DEF Measuring
<1>7. CASE ~(MetricsOut(r) /\ result[r] # "panic")
           /\ ~(RecoverOut(r) /\ result[r] = "panic" /\ Past("metrics", r))
  <2>1. UNCHANGED requestsTotal
    BY <1>7 DEF Step, GoIn, Count, GoOut, Arrive, PassIn, LimitIn, TraceIn, LogRequest,
           CounterLoad, CounterStore, CounterAdd, Handler, PassOut, MetricsOut, TraceOut, LogOut,
           RecoverOut, Answer, CallReturns
  <2>2. \A x \in Codes : Seen(x)' <=> Seen(x)
    <3>1. CASE way'[r] \notin {"up", "done"}
      BY <1>1, <3>1, StepHops DEF Hop, Moves, Past, Returning
    <3>2. CASE LimitIn(r) /\ way'[r] = "up"
      BY <1>1, <3>2 DEF LimitIn, At, Past, Returning, Place
    <3>3. CASE Handler(r)
      BY <1>1, <3>3 DEF Handler, Past, Returning, Place
    <3>4. CASE Answer(r)
      BY <1>1, <3>4 DEF Answer, Past, Returning, Place, Carries
    <3>5. CASE MetricsOut(r)
      BY <1>7, <3>5 DEF MetricsOut, Carries
    <3>6. CASE RecoverOut(r)
      BY <1>1, <1>7, <3>6 DEF RecoverOut, At, Past, Returning, Place, Carries
    <3>7. CASE PassOut(r) \/ TraceOut(r) \/ LogOut(r)
      BY <1>1, <3>7 DEF PassOut, TraceOut, LogOut, At, Past, Returning, Place, Carries
    <3>8. GoIn(r) \/ Count(r) \/ CallReturns(r) =>
              way'[r] \notin {"up", "done"} \/ (LimitIn(r) /\ way'[r] = "up")
      <4>1. LimitIn(r) => way'[r] = "up" \/ way'[r] \notin {"up", "done"}
        BY DEF LimitIn, At
      <4>2. Arrive(r) \/ PassIn(r) \/ TraceIn(r) \/ LogRequest(r) \/ CallReturns(r) =>
                way'[r] \notin {"up", "done"}
        BY DEF Arrive, PassIn, TraceIn, LogRequest, CallReturns, At
      <4>3. Count(r) => way'[r] \notin {"up", "done"}
        BY DEF Count, CounterLoad, CounterStore, LoadOrStore, CounterAdd
      <4>4. GoIn(r) => LimitIn(r) \/ way'[r] \notin {"up", "done"}
        BY <4>2 DEF GoIn
      <4> QED
        BY <4>1, <4>2, <4>3, <4>4
    <3> QED
      BY <3>1, <3>2, <3>3, <3>4, <3>5, <3>6, <3>7, <3>8 DEF Step, GoOut
  <2>3. \A m \in Methods, x \in Codes : Measured(m, x)' = Measured(m, x)
    <3>1. \A m \in Methods, x \in Codes : r \in Measured(m, x)' <=> r \in Measured(m, x)
      BY <1>4, <2>2
    <3> QED
      BY <1>a, <3>1
  <2> QED
    BY <1>2, <2>1, <2>3 DEF Measuring
<1> QED
  BY <1>5, <1>6, <1>7

-----------------------------------------------------------------------------
\* A call begins: its caller waits and its request goes down.
LEMMA CallKeeps ==
    ASSUME IInv, NEW r \in Requests, NEW q \in Requests, Call(r, q)
    PROVE  IInv'
<1> USE DEF IInv, Types, counterVars
<1>1. /\ UNCHANGED <<chain, method, result, rpcCounter, held, value, requestsTotal, span, parent,
                     trace, sampled, lines, entered>>
      /\ way[r] = "down" /\ depth[r] = Len(chain) + 1 /\ way[q] = "new" /\ q # r
      /\ way' = [way EXCEPT ![r] = "calling", ![q] = "down"]
      /\ depth' = [depth EXCEPT ![q] = depth[q] + 1] /\ depth[q] = 0
      /\ caller' = [caller EXCEPT ![q] = r]
      /\ callSpan' = [callSpan EXCEPT ![r] = "open"]
  BY DEF Call, Inward, Journey, Place
<1>2. /\ way'[r] = "calling" /\ way'[q] = "down" /\ depth'[q] = 1 /\ depth'[r] = depth[r]
      /\ \A p \in Requests \ {r, q} : way'[p] = way[p] /\ depth'[p] = depth[p]
  BY <1>1
<1>3. DOMAIN chain = 1 .. Len(chain) /\ Len(chain) \in Nat /\ chain \in Seq(Layers)
  BY ChainIsSequence
<1>4. Types'
  <2>1. /\ way' \in [Requests -> {"new", "down", "store", "add", "calling", "up", "done"}]
        /\ caller' \in [Requests -> Requests \cup {Nobody}]
        /\ callSpan' \in [Requests -> Spans]
    BY <1>1 DEF Spans
  <2>2. depth' \in [Requests -> Nat]
    BY <1>1
  <2> QED
    BY <1>1, <2>1, <2>2
<1>5. Journey'
  <2>1. Place(r)'
    BY <1>1, <1>2, <1>3 DEF Journey, Place
  <2>2. Place(q)'
    BY <1>1, <1>2, <1>3 DEF Journey, Place
  <2>3. \A p \in Requests \ {r, q} : Place(p)'
    BY <1>1, <1>2 DEF Journey, Place
  <2> QED
    BY <2>1, <2>2, <2>3 DEF Journey
<1>6. \A p \in Requests : /\ Returning(p)' <=> Returning(p)
                          /\ way'[p] \in {"store", "add"} <=> way[p] \in {"store", "add"}
                          /\ way'[p] = "store" <=> way[p] = "store"
                          /\ way'[p] = "add" <=> way[p] = "add"
  BY <1>1, <1>2 DEF Returning
<1>7. \A layer \in Layers, p \in Requests : Past(layer, p)' <=> Past(layer, p)
  <2> TAKE layer \in Layers, p \in Requests
  <2>1. CASE p \in {r, q}
    BY <1>1, <1>2, <1>6, <2>1 DEF Past, Returning
  <2>2. CASE p \notin {r, q}
    BY <1>1, <1>2, <1>6, <2>2 DEF Past
  <2> QED
    BY <2>1, <2>2
<1>8. Counting'
  <2>1. \A m \in Methods : Passed("counter", m)' = Passed("counter", m)
    BY <1>1 DEF Passed
  <2>2. \A m \in Methods : Counted(m)' = Counted(m)
    BY <1>6, <2>1, PassedRequests DEF Counted, Layers
  <2> QED
    BY <1>1, <1>6, <2>1, <2>2, PassedRequests DEF Counting, Layers
<1>9. Telling'
  <2> SUFFICES ASSUME NEW p \in Requests PROVE Told(p)'
    BY DEF Telling
  <2>1. Alarm(p)' <=> Alarm(p)
    BY <1>1 DEF Alarm
  <2>2. Told(p)
    BY DEF Telling
  <2>3. callSpan'[p] = "open" => way'[p] = "calling"
    BY <1>1, <1>2, <2>2 DEF Told
  <2> QED
    BY <1>1, <1>6, <1>7, <2>1, <2>2, <2>3 DEF Told, Layers
<1>10. Measuring'
  <2>1. RecoverInside' <=> RecoverInside
    BY <1>1 DEF RecoverInside
  <2>2. \A m \in Methods, code \in Codes : Measured(m, code)' = Measured(m, code)
    BY <1>1, <1>7 DEF Measured, Carries, Passed, Layers
  <2> QED
    BY <1>1, <2>1, <2>2 DEF Measuring
<1>11. Tracing'
  <2>1. ~Instrumented(q)
    BY <1>1 DEF Journey, Place, Telling, Told, Instrumented
  <2>2. ASSUME NEW p \in Requests, caller'[p] # Nobody
        PROVE  /\ way'[p] # "new"
               /\ way'[caller'[p]] \in {"calling", "up", "done"}
                      \/ depth'[caller'[p]] = Len(chain') + 1
               /\ Instrumented(p)' => /\ parent'[p] = caller'[p]
                                      /\ trace'[p] = trace'[caller'[p]]
                                      /\ sampled'[p] = sampled'[caller'[p]]
    <3>1. CASE p = q
      BY <1>1, <1>2, <2>1, <3>1 DEF Instrumented
    <3>2. CASE p # q
      <4>1. caller'[p] = caller[p] /\ caller[p] \in Requests
        BY <1>1, <2>2, <3>2
      <4>2. /\ way[p] # "new"
            /\ way[caller[p]] \in {"calling", "up", "done"} \/ depth[caller[p]] = Len(chain) + 1
            /\ Instrumented(p) => /\ parent[p] = caller[p]
                                  /\ trace[p] = trace[caller[p]]
                                  /\ sampled[p] = sampled[caller[p]]
        BY <2>2, <4>1 DEF Tracing
      <4>3. caller[p] # q
        BY <1>1, <1>3, <4>2
      <4> QED
        BY <1>1, <1>2, <3>2, <4>1, <4>2, <4>3 DEF Instrumented
    <3> QED
      BY <3>1, <3>2
  <2>3. ASSUME NEW l \in lines'
        PROVE  /\ way'[l.by] # "new"
               /\ l.trace # Nobody => Instrumented(l.by)' /\ l.trace = trace'[l.by]
    <3>1. l \in lines /\ l.by \in Requests
      BY <1>1, <2>3 DEF Lines
    <3> QED
      BY <1>1, <1>2, <3>1 DEF Tracing, Instrumented
  <2> QED
    BY <2>2, <2>3 DEF Tracing
<1> QED
  BY <1>4, <1>5, <1>8, <1>9, <1>10, <1>11

LEMMA StutterKeeps ==
    ASSUME IInv, UNCHANGED vars
    PROVE  IInv'
<1> USE DEF vars, callVars, counterVars, spanVars, IInv
<1>1. Types' /\ Journey' /\ Tracing'
  BY DEF Types, Journey, Place, Tracing, Instrumented
<1>2. Telling'
  BY DEF Telling, Told, Returning, Past, Alarm
<1>3. Counting'
  BY DEF Counting, Counted, Passed
<1>4. Measuring'
  <2>1. RecoverInside' <=> RecoverInside
    BY DEF RecoverInside
  <2>2. \A m \in Methods, code \in Codes : Measured(m, code)' = Measured(m, code)
    BY DEF Measured, Carries, Passed, Past, Returning
  <2> QED
    BY <2>1, <2>2 DEF Measuring
<1> QED
  BY <1>1, <1>2, <1>3, <1>4

LEMMA StepKeeps == IInv /\ [Next]_vars => IInv'
<1> SUFFICES ASSUME IInv, [Next]_vars PROVE IInv'
  OBVIOUS
<1>1. ASSUME NEW r \in Requests, Step(r) PROVE IInv'
  <2>1. Counting'
    BY <1>1, ElsewhereKeepsCounting, LoadKeepsCounting, StoreKeepsCounting, AddKeepsCounting
       DEF Count
  <2> QED
    BY <1>1, <2>1, StepKeepsTypes, StepKeepsJourney, StepKeepsTelling, StepKeepsTracing,
       StepKeepsMeasuring DEF IInv
<1> QED
  BY <1>1, NextIsSteps, CallKeeps, StutterKeeps

LEMMA Invariance == Spec => []IInv
<1> QED
  BY InitIInv, StepKeeps, PTL DEF Spec

-----------------------------------------------------------------------------
(***************************************************************************)
(* No increment of RPC_COUNTER is lost or doubled, however many requests   *)
(* race to create the counter of a procedure (counter.go:86-98).           *)
(***************************************************************************)
THEOREM CountersAreExact == Spec => []CountersExact
<1>1. IInv => CountersExact
  <2> SUFFICES ASSUME IInv, AllDone, NEW m \in Methods
               PROVE  IF rpcCounter[m] = NoCell THEN Passed("counter", m) = {}
                      ELSE value[rpcCounter[m]] = Cardinality(Passed("counter", m))
    BY DEF CountersExact
  <2>1. Counted(m) = Passed("counter", m)
    BY DEF Counted, Passed, AllDone
  <2> QED
    BY <2>1, NoneAssumption, PassedRequests DEF IInv, Counting, Layers
<1> QED
  BY <1>1, Invariance, PTL

(***************************************************************************)
(* What the metrics count under a code is what next returned with it; only *)
(* a panic on its way up is missed, and a success is counted as "unknown"  *)
(* (metrics.go:49-55).                                                     *)
(***************************************************************************)
THEOREM MetricsByCode == Spec => []MeasuredByCode
<1>1. IInv => MeasuredByCode
  <2> SUFFICES ASSUME IInv, AllDone, NEW m \in Methods, NEW code \in Codes
               PROVE  LET answered == Cardinality({r \in Passed("metrics", m) : Carries(r, code)})
                      IN  /\ requestsTotal[<<m, code>>] <= answered
                          /\ code # "coded" \/ RecoverInside => requestsTotal[<<m, code>>] = answered
    BY DEF MeasuredByCode
  <2>1. \A r \in Passed("metrics", m) : Past("metrics", r)
    <3> TAKE r \in Passed("metrics", m)
    <3>1. r \in Requests /\ way[r] = "done" /\ depth[r] = 0
      BY DEF Passed, AllDone, IInv, Journey, Place
    <3>2. \E i \in DOMAIN chain : chain[i] = "metrics"
      BY <3>1 DEF Passed, IInv, Journey, Place
    <3> QED
      BY <3>1, <3>2, ChainIsSequence DEF Past, Returning
  <2>2. Measured(m, code) = {r \in Passed("metrics", m) : Carries(r, code)}
    BY <2>1 DEF Measured
  <2> QED
    BY <2>2 DEF IInv, Measuring
<1> QED
  BY <1>1, Invariance, PTL

(***************************************************************************)
(* A request that is over has no open span (trace.go:25-33, 45-53).        *)
(***************************************************************************)
THEOREM SpansAreEnded == Spec => []SpansEnd
<1>1. IInv => SpansEnd
  <2> SUFFICES ASSUME IInv, NEW r \in Requests, way[r] = "done"
               PROVE  /\ span[r] # "open" /\ callSpan[r] # "open"
                      /\ span[r] = "failed" => result[r] \in Failures
    BY DEF SpansEnd
  <2>1. Told(r) /\ depth[r] = 0
    BY DEF IInv, Telling, Journey, Place
  <2>2. span[r] = "open" => Past("trace", r)
    <3> HAVE span[r] = "open"
    <3>1. "trace" \in entered[r]
      BY <2>1 DEF Told
    <3>2. \E i \in DOMAIN chain : chain[i] = "trace"
      BY <3>1 DEF IInv, Journey, Place
    <3> QED
      BY <2>1, <3>2, ChainIsSequence DEF Past, Returning
  <2> QED
    BY <2>1, <2>2 DEF Told
<1> QED
  BY <1>1, Invariance, PTL

(***************************************************************************)
(* An error answered through the logger has left a line at error level, and*)
(* such a line belongs to an error (req_rsp_logger.go:51-72,               *)
(* recover.go:12-28).                                                      *)
(***************************************************************************)
THEOREM FailuresAreLogged == Spec => []FailuresLogged
<1>1. IInv => FailuresLogged
  <2> SUFFICES ASSUME IInv, NEW r \in Requests, way[r] = "done"
               PROVE  /\ "logger" \in entered[r] /\ result[r] \in Failures => Alarm(r)
                      /\ Alarm(r) => result[r] # "ok"
    BY DEF FailuresLogged, Alarm
  <2>1. Told(r) /\ depth[r] = 0
    BY DEF IInv, Telling, Journey, Place
  <2>2. "logger" \in entered[r] => Past("logger", r)
    <3> HAVE "logger" \in entered[r]
    <3>1. \E i \in DOMAIN chain : chain[i] = "logger"
      BY DEF IInv, Journey, Place
    <3> QED
      BY <2>1, <3>1, ChainIsSequence DEF Past, Returning
  <2> QED
    BY <2>1, <2>2 DEF Told, Failures
<1> QED
  BY <1>1, Invariance, PTL

(***************************************************************************)
(* A call continues the trace of its caller and is sampled as that is, and *)
(* the lines of both name it (trace.go:59-98).                             *)
(***************************************************************************)
THEOREM OneTracePerCall == Spec => []OneTrace
<1>1. IInv => OneTrace
  <2> SUFFICES ASSUME IInv PROVE OneTrace
    OBVIOUS
  <2>1. ASSUME NEW l \in lines, NEW m \in lines, l.trace # Nobody, caller[m.by] = l.by
        PROVE  m.trace \in {Nobody, l.trace}
    <3>1. l.by \in Requests /\ m.by \in Requests /\ l.by # Nobody
      BY NoneAssumption DEF IInv, Types, Lines
    <3>2. l.trace = trace[l.by]
      BY <2>1 DEF IInv, Tracing
    <3>3. m.trace # Nobody => m.trace = trace[m.by] /\ trace[m.by] = trace[l.by]
      BY <2>1, <3>1 DEF IInv, Tracing
    <3> QED
      BY <3>2, <3>3
  <2>2. ASSUME NEW r \in Requests, Instrumented(r), caller[r] # Nobody
        PROVE  /\ parent[r] = caller[r]
               /\ trace[r] = trace[caller[r]] /\ sampled[r] = sampled[caller[r]]
    BY <2>2 DEF IInv, Tracing
  <2> QED
    BY <2>1, <2>2 DEF OneTrace
<1> QED
  BY <1>1, Invariance, PTL

(***************************************************************************)
(* Every variable keeps its type; no request is counted twice.             *)
(***************************************************************************)
THEOREM TypeCorrect == Spec => []TypeOK
<1>1. IInv => TypeOK
  <2> SUFFICES ASSUME IInv PROVE TypeOK
    OBVIOUS
  <2> DEFINE n == Cardinality(Requests)
  <2>1. n \in Nat /\ \A S : S \subseteq Requests => Cardinality(S) <= n /\ Cardinality(S) \in Nat
    BY RequestsAssumption, FS_Subset, FS_CardinalityType
  <2>2. \A r \in Requests : value[r] \in 0 .. n
    <3> TAKE r \in Requests
    <3>1. value[r] \in Nat
      BY DEF IInv, Types
    <3>2. CASE \A m \in Methods : rpcCounter[m] # r
      <4>1. value[r] <= 1
        BY <3>2 DEF IInv, Counting
      <4>2. Cardinality({r}) = 1
        BY FS_Singleton
      <4>3. 1 <= n
        BY <2>1, <4>2
      <4> QED
        BY <2>1, <3>1, <4>1, <4>3
    <3>3. CASE \E m \in Methods : rpcCounter[m] = r
      <4>1. PICK m \in Methods : rpcCounter[m] = r
        BY <3>3
      <4>2. value[r] = Cardinality(Counted(m))
        BY <4>1, NoneAssumption DEF IInv, Counting
      <4>3. Counted(m) \subseteq Requests
        BY DEF Counted, Passed
      <4> QED
        BY <2>1, <4>2, <4>3
    <3> QED
      BY <3>2, <3>3
  <2>3. \A m \in Methods, code \in Codes : requestsTotal[<<m, code>>] \in 0 .. n
    <3> TAKE m \in Methods, code \in Codes
    <3>1. requestsTotal[<<m, code>>] \in Nat
      BY DEF IInv, Types
    <3>2. requestsTotal[<<m, code>>] <= Cardinality(Measured(m, code))
      BY DEF IInv, Measuring
    <3>3. Cardinality(Measured(m, code)) <= n /\ Cardinality(Measured(m, code)) \in Nat
      BY <2>1, MeasuredFinite
    <3> QED
      BY <2>1, <3>1, <3>2, <3>3
  <2>4. \A r \in Requests : depth[r] \in 0 .. Len(chain) + 1
    <3> TAKE r \in Requests
    <3>1. Place(r) /\ way[r] \in {"new", "down", "store", "add", "calling", "up", "done"}
      BY DEF IInv, Journey, Types
    <3> QED
      BY <3>1, ChainIsSequence DEF Place
  <2>5. /\ value \in [Requests -> 0 .. n]
        /\ requestsTotal \in [Methods \X Codes -> 0 .. n]
        /\ depth \in [Requests -> 0 .. Len(chain) + 1]
    <3> HIDE DEF n
    <3>1. value \in [Requests -> 0 .. n] /\ depth \in [Requests -> 0 .. Len(chain) + 1]
      BY <2>2, <2>4 DEF IInv, Types
    <3>2. \A x \in Methods \X Codes : requestsTotal[x] \in 0 .. n
      BY <2>3
    <3> QED
      BY <3>1, <3>2 DEF IInv, Types
  <2> QED
    BY <2>5 DEF IInv, Types, TypeOK
<1> QED
  BY <1>1, Invariance, PTL

-----------------------------------------------------------------------------
\* The counters implement RequestCounter, where counting is one step.
\* A counter belongs to one procedure: that of the request that made it.
LEMMA CounterOfOne ==
    ASSUME IInv
    PROVE  \A m \in Methods : rpcCounter[m] # NoCell =>
              /\ rpcCounter[m] \in Requests
              /\ "counter" \in entered[rpcCounter[m]]
              /\ way[rpcCounter[m]] # "store"
              /\ method[rpcCounter[m]] = m
<1> QED
  BY DEF IInv, Counting, Passed

\* Outside of increment a step is not seen by the counters.
LEMMA ElsewhereUnseen ==
    ASSUME IInv, NEW r \in Requests, Step(r), ~Count(r)
    PROVE  UNCHANGED <<method, Totals, CountedRequests>>
<1> USE DEF IInv, Types, Goto, Enter
<1>1. UNCHANGED <<rpcCounter, value, method>>
  BY DEF Step, GoIn, GoOut, Arrive, PassIn, LimitIn, TraceIn, LogRequest, Handler, PassOut,
         MetricsOut, TraceOut, LogOut, RecoverOut, Answer, CallReturns, callVars, counterVars
<1>2. way[r] \notin {"store", "add"} /\ way'[r] \notin {"store", "add"}
  BY DEF Step, GoIn, GoOut, Arrive, PassIn, LimitIn, TraceIn, LogRequest, Handler, PassOut,
         MetricsOut, TraceOut, LogOut, RecoverOut, Answer, CallReturns, At
<1>3. "counter" \in entered'[r] <=> "counter" \in entered[r]
  BY DEF Step, GoIn, GoOut, Arrive, PassIn, LimitIn, TraceIn, LogRequest, Handler, PassOut,
         MetricsOut, TraceOut, LogOut, RecoverOut, Answer, CallReturns, At
<1>4. CountedRequests' = CountedRequests
  BY <1>2, <1>3, StepAlone DEF CountedRequests
<1> QED
  BY <1>1, <1>4 DEF Totals

\* Neither is a call, nor the look at a counter, nor a counter made in vain.
LEMMA CallUnseen ==
    ASSUME IInv, NEW r \in Requests, NEW q \in Requests, Call(r, q)
    PROVE  UNCHANGED <<method, Totals, CountedRequests>>
<1>1. UNCHANGED <<rpcCounter, value, method, entered>>
  BY DEF Call, counterVars
<1>2. \A x \in Requests : way'[x] \in {"store", "add"} <=> way[x] \in {"store", "add"}
  BY DEF IInv, Types, Call
<1>3. CountedRequests' = CountedRequests
  BY <1>1, <1>2 DEF CountedRequests
<1> QED
  BY <1>1, <1>3 DEF Totals

LEMMA LoadUnseen ==
    ASSUME IInv, NEW r \in Requests, CounterLoad(r)
    PROVE  UNCHANGED <<method, Totals, CountedRequests>>
<1> USE DEF IInv, Types, Goto, Enter
<1>1. UNCHANGED <<rpcCounter, method>>
  BY DEF CounterLoad, callVars
<1>2. "counter" \notin entered[r] /\ way'[r] \in {"store", "add"}
  BY DEF CounterLoad, At, Journey, Place
<1>3. \A n \in Methods : rpcCounter[n] # NoCell => rpcCounter[n] \in Requests \ {r}
  BY <1>2, CounterOfOne
<1>4. \A q \in Requests \ {r} : value'[q] = value[q]
  BY DEF CounterLoad
<1>5. Totals' = Totals
  BY <1>1, <1>3, <1>4 DEF Totals
<1>6. \A q \in Requests \ {r} : way'[q] = way[q] /\ entered'[q] = entered[q]
  BY StepAlone DEF Step, Count
<1>7. CountedRequests' = CountedRequests
  BY <1>2, <1>6 DEF CountedRequests
<1> QED
  BY <1>1, <1>5, <1>7

\* What a step must do to be the atomic one.
LEMMA CountIsOneStep ==
    ASSUME NEW r \in Requests, NEW m \in Methods, m = method[r], UNCHANGED method,
           r \notin CountedRequests, CountedRequests' = CountedRequests \cup {r},
           Totals'[m] = Totals[m] + 1,
           \A n \in Methods \ {m} : Totals'[n] = Totals[n]
    PROVE  Counter!Count(r)
<1>1. Totals' = [Totals EXCEPT ![method[r]] = @ + 1]
  BY DEF Totals
<1> QED
  BY <1>1 DEF Counter!Count

\* The counter stored first brings its request's one with it.
LEMMA StoreCounts ==
    ASSUME IInv, NEW r \in Requests, CounterStore(r)
    PROVE  Counter!Count(r) \/ UNCHANGED <<method, Totals, CountedRequests>>
<1> USE DEF IInv, Types, Goto
<1>0. PICK m \in Methods : m = method[r]
  OBVIOUS
<1> USE <1>0
<1>1. UNCHANGED <<method, value, entered>> /\ way[r] = "store" /\ value[r] = 1
  BY DEF CounterStore, Counting, callVars
<1>2. "counter" \in entered[r]
  BY <1>1, ChainIsSequence DEF Journey, Place
<1>3. \A q \in Requests \ {r} : way'[q] = way[q]
  BY StepAlone DEF Step, Count
<1>4. CASE rpcCounter[m] = NoCell
  <2>1. rpcCounter' = [rpcCounter EXCEPT ![m] = r] /\ way'[r] = "down"
    BY <1>4 DEF CounterStore, LoadOrStore
  <2>2. r \notin CountedRequests /\ CountedRequests' = CountedRequests \cup {r}
    BY <1>1, <1>2, <1>3, <2>1 DEF CountedRequests
  <2>3. Totals[m] = 0 /\ Totals'[m] = 1
    BY <1>1, <1>4, <2>1, NoneAssumption DEF Totals
  <2>4. \A n \in Methods \ {m} : Totals'[n] = Totals[n]
    BY <1>1, <2>1 DEF Totals
  <2> QED
    BY <1>1, <2>2, <2>3, <2>4, CountIsOneStep
<1>5. CASE rpcCounter[m] # NoCell
  <2>1. UNCHANGED rpcCounter /\ way'[r] = "add"
    BY <1>5 DEF CounterStore, LoadOrStore
  <2>2. CountedRequests' = CountedRequests
    BY <1>1, <1>3, <2>1 DEF CountedRequests
  <2>3. Totals' = Totals
    BY <1>1, <2>1 DEF Totals
  <2> QED
    BY <1>1, <2>2, <2>3
<1> QED
  BY <1>4, <1>5

LEMMA AddCounts ==
    ASSUME IInv, NEW r \in Requests, CounterAdd(r)
    PROVE  Counter!Count(r)
<1> USE DEF IInv, Types, Goto
<1>0. PICK m \in Methods : m = method[r]
  OBVIOUS
<1> USE <1>0
<1>1. /\ UNCHANGED <<method, rpcCounter, entered>>
      /\ way[r] = "add" /\ way'[r] = "down"
      /\ held[r] = rpcCounter[m] /\ rpcCounter[m] # NoCell
  BY DEF CounterAdd, Counting, callVars
<1>2. "counter" \in entered[r]
  BY <1>1, ChainIsSequence DEF Journey, Place
<1>3. \A q \in Requests \ {r} : way'[q] = way[q]
  BY StepAlone DEF Step, Count
<1>4. r \notin CountedRequests /\ CountedRequests' = CountedRequests \cup {r}
  BY <1>1, <1>2, <1>3 DEF CountedRequests
<1>5. PICK c \in Requests : c = rpcCounter[m]
  BY <1>1, CounterOfOne
<1>6. value' = [value EXCEPT ![c] = value[c] + 1]
  BY <1>1, <1>5 DEF CounterAdd
<1>7. \A n \in Methods \ {m} : rpcCounter[n] # NoCell => rpcCounter[n] \in Requests \ {c}
  BY <1>1, <1>5, CounterOfOne
<1>8. Totals'[m] = Totals[m] + 1
  BY <1>1, <1>5, <1>6 DEF Totals
<1>9. \A n \in Methods \ {m} : Totals'[n] = Totals[n]
  BY <1>1, <1>6, <1>7 DEF Totals
<1> QED
  BY <1>1, <1>4, <1>8, <1>9, CountIsOneStep

(***************************************************************************)
(* The load, the store and the add of any number of racing requests        *)
(* together behave as one atomic increment per request: the service's      *)
(* counters implement RequestCounter.                                      *)
(***************************************************************************)
THEOREM CountersAtomic == Spec => CountsAtomically
<1>1. Init => Counter!Init
  BY DEF Init, Counter!Init, Totals, CountedRequests
<1>2. IInv /\ [Next]_vars => [Counter!Next]_<<method, Totals, CountedRequests>>
  <2> SUFFICES ASSUME IInv, [Next]_vars
               PROVE  \/ \E r \in Requests : Counter!Count(r)
                      \/ UNCHANGED <<method, Totals, CountedRequests>>
    BY DEF Counter!Next
  <2>1. ASSUME NEW r \in Requests, Step(r)
        PROVE  Counter!Count(r) \/ UNCHANGED <<method, Totals, CountedRequests>>
    BY <2>1, ElsewhereUnseen, LoadUnseen, StoreCounts, AddCounts DEF Count
  <2>2. ASSUME UNCHANGED vars PROVE UNCHANGED <<method, Totals, CountedRequests>>
    BY <2>2 DEF vars, callVars, counterVars, Totals, CountedRequests
  <2> QED
    BY <2>1, <2>2, CallUnseen, NextIsSteps
<1> QED
  BY <1>1, <1>2, Invariance, PTL DEF Spec, CountsAtomically, Counter!Spec
=============================================================================
