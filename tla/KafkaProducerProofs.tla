------------------------- MODULE KafkaProducerProofs -------------------------
(***************************************************************************)
(* Theorems about KafkaHeaders and KafkaProducer, for any number of        *)
(* publishers and closers and any headers.                                 *)
(***************************************************************************)
EXTENDS KafkaProducer, FiniteSetTheorems, WellFoundedInduction, TLAPS

\* The headers of a message as a sequence of key and value.
Values == (UNION {{u[k] : k \in DOMAIN u} : u \in UserHeaders}) \cup Publishers
Header == [key : DOMAIN Fold, value : Values]

-----------------------------------------------------------------------------
\* The first of a non-empty set of places exists.
LEMMA Least ==
    ASSUME NEW T, T \subseteq Nat, T # {}
    PROVE  \E i \in T : \A j \in T : i <= j
<1> DEFINE R == OpToRel(<, Nat)
<1>1. IsWellFoundedOn(R, Nat)
  BY NatLessThanWellFounded
<1> HIDE DEF R
<1>2. PICK x \in T : \A y \in T : ~(<<y, x>> \in R)
  BY <1>1, WFMin
<1>3. \A y \in T : ~(y < x)
  BY <1>2 DEF OpToRel, R
<1> QED
  BY <1>3

(***************************************************************************)
(* What Set has written is what Get finds, whatever was there before, and  *)
(* the headers under other keys stay where they were.                      *)
(***************************************************************************)
LEMMA SetThenGet ==
    ASSUME NEW h \in Seq(Header), NEW key \in DOMAIN Fold, NEW value \in Publishers
    PROVE  /\ Set(h, key, value) \in Seq(Header)
           /\ Get(Set(h, key, value), key) = value
           /\ \A i \in DOMAIN h : ~EqualFold(h[i].key, key) =>
                  i \in DOMAIN Set(h, key, value) /\ Set(h, key, value)[i] = h[i]
<1> DEFINE g == Set(h, key, value)
           new == [key |-> key, value |-> value]
<1>1. new \in Header
  BY DEF Header, Values
<1>2. CASE Places(h, key) = {}
  <2>1. g = Append(h, new)
    BY <1>2 DEF Set
  <2>2. /\ g \in Seq(Header)
        /\ DOMAIN g = 1 .. Len(h) + 1
        /\ g[Len(h) + 1] = new
        /\ \A i \in DOMAIN h : g[i] = h[i] /\ i \in DOMAIN g
    BY <1>1, <2>1
  <2>3. \A i \in DOMAIN h : ~EqualFold(h[i].key, key)
    BY <1>2 DEF Places
  <2>4. Places(g, key) = {Len(h) + 1}
    BY <2>2, <2>3 DEF Places, EqualFold
  <2>5. Place(g, key) = Len(h) + 1
    <3>1. \A i, j \in Places(g, key) : i <= j
      BY <2>4
    <3> QED
      BY <2>4, <3>1 DEF Place
  <2> QED
    BY <2>2, <2>4, <2>5 DEF Get
<1>3. CASE Places(h, key) # {}
  <2> DEFINE p == Place(h, key)
  <2>1. Places(h, key) \subseteq Nat
    BY DEF Places
  <2>2. p \in Places(h, key) /\ \A j \in Places(h, key) : p <= j
    BY <1>3, <2>1, Least DEF Place
  <2>3. p \in DOMAIN h /\ EqualFold(h[p].key, key)
    BY <2>2 DEF Places
  <2>4. g = [h EXCEPT ![p].value = value]
    BY <1>3 DEF Set
  <2>5. /\ g \in Seq(Header)
        /\ DOMAIN g = DOMAIN h
        /\ \A i \in DOMAIN h : g[i].key = h[i].key
        /\ \A i \in DOMAIN h : i # p => g[i] = h[i]
        /\ g[p].value = value
    <3> HIDE DEF p
    <3>1. h[p] \in Header
      BY <2>3
    <3>2. [h[p] EXCEPT !.value = value] \in Header
      BY <3>1 DEF Header, Values
    <3>3. DOMAIN g = 1 .. Len(h) /\ g \in [1 .. Len(h) -> Header]
      BY <2>3, <2>4, <3>2
    <3>4. \A i \in DOMAIN h : h[i] \in Header
      OBVIOUS
    <3> QED
      BY <2>3, <2>4, <3>2, <3>3, <3>4 DEF Header
  <2>6. Places(g, key) = Places(h, key)
    BY <2>5 DEF Places
  <2>7. Place(g, key) = p
    BY <2>6 DEF Place
  <2>8. Get(g, key) = value
    BY <1>3, <2>5, <2>6, <2>7 DEF Get
  <2> QED
    BY <2>3, <2>5, <2>8
<1> QED
  BY <1>2, <1>3

(***************************************************************************)
(* A copy of a caller's headers holds every one of them that is sent.      *)
(***************************************************************************)
LEMMA CopyHoldsAll ==
    ASSUME NEW u \in UserHeaders, NEW copy \in Copies(u)
    PROVE  /\ copy \in Seq(Header)
           /\ \A k \in Sent(u) : \E i \in DOMAIN copy :
                  copy[i] = [key |-> TrimSpace[k], value |-> u[k]]
<1>1. PICK order \in Orders(Sent(u)) :
          copy = [i \in DOMAIN order |-> [key |-> TrimSpace[order[i]], value |-> u[order[i]]]]
  BY DEF Copies
<1>2. IsFiniteSet(Sent(u))
  BY UserHeadersAssumption, FS_Subset DEF Sent
<1>3. Cardinality(Sent(u)) \in Nat
  BY <1>2, FS_CardinalityType
<1>4. /\ DOMAIN order = 1 .. Cardinality(Sent(u))
      /\ \A i \in DOMAIN order : order[i] \in Sent(u)
      /\ \A k \in Sent(u) : \E i \in DOMAIN order : order[i] = k
  BY DEF Orders
<1>5. \A k \in Sent(u) : [key |-> TrimSpace[k], value |-> u[k]] \in Header
  BY UserHeadersAssumption DEF Header, Values, Sent
<1>6. copy \in [1 .. Cardinality(Sent(u)) -> Header]
  BY <1>1, <1>4, <1>5
<1>7. copy \in Seq(Header)
  BY <1>3, <1>6
<1> QED
  BY <1>1, <1>4, <1>7

-----------------------------------------------------------------------------
\* How far a Close is decides what the field and the client are.
CloseStages ==
    /\ made = "none" => \A c \in Closers : close[c] = "new"
    /\ made # "made" => /\ field = "nil" /\ client = "none" /\ once = Free
                        /\ \A c \in Closers : close[c] \in {"new", "returned"}
                        /\ \A p \in Publishers : pub[p] \in {"new", "over"}
    /\ made = "made" /\ once = Free =>
        field = "client" /\ client = "open" /\ \A c \in Closers : close[c] = "new"
    /\ made = "made" /\ once \in Closers =>
        /\ field = "client"
        /\ \/ close[once] = "closing" /\ client = "closing"
           \/ close[once] = "clear" /\ client = "closed"
        /\ \A c \in Closers \ {once} : close[c] = "new"
    /\ made = "made" /\ once = "done" =>
        field = "nil" /\ client = "closed" /\ \A c \in Closers : close[c] \in {"new", "returned"}
    /\ client = "closed" => \A p \in Publishers : pub[p] # "inflight"

\* Nothing is sent by a Publish that began late, and only one that has met a
\* Close can find the field cleared.
Meeting ==
    \A p \in Publishers :
        /\ UnderWay(p) /\ once # Free => raced[p]
        /\ late[p] => pub[p] = "over" /\ outcome[p] = "closed"
        /\ outcome[p] = "panic" => raced[p]

\* What a Publish has told by each step.
Stages ==
    \A p \in Publishers :
        /\ pub[p] = "new" => span[p] = "none" /\ outcome[p] = "none"
        /\ pub[p] \in {"send", "inflight"} => span[p] = "open" /\ outcome[p] = "none"
        /\ pub[p] = "finish" => span[p] = "open" /\ outcome[p] \in {"ok", "error"}
        /\ pub[p] = "over" =>
            /\ outcome[p] = "ok" => span[p] = "ended"
            /\ outcome[p] = "error" => span[p] = "failed"
            /\ outcome[p] = "closed" => span[p] = "none"
            /\ outcome[p] # "none"
        /\ outcome[p] = "ok" => \E i \in DOMAIN topicLog : topicLog[i].by = p

\* The headers on their way and those stored are those of the spans.
Carries(h, p) ==
    /\ tracing => Get(h, TraceParent) = p
    /\ \A k \in Sent(user[p]) : ~EqualFold(TrimSpace[k], TraceParent) =>
        \E j \in DOMAIN h : h[j] = [key |-> TrimSpace[k], value |-> user[p][k]]
OnTheWay ==
    /\ \A p \in Publishers : span[p] # "none" => Carries(message[p], p)
    /\ \A i \in DOMAIN topicLog :
        /\ topicLog[i].by \in Publishers
        /\ span[topicLog[i].by] # "none"
        /\ topicLog[i].headers = message[topicLog[i].by]

Failed == {p \in Publishers : span[p] = "failed"}

Types ==
    /\ message \in [Publishers -> Seq(Header)]
    /\ topicLog \in Seq([by : Publishers, headers : Seq(Header)])

IInv ==
    /\ TypeOK /\ Types /\ CloseStages /\ Meeting /\ Stages /\ OnTheWay
    /\ errorCount = Cardinality(Failed)

LEMMA FailedFinite == IsFiniteSet(Failed) /\ Cardinality(Failed) \in 0 .. Cardinality(Publishers)
<1>1. Failed \subseteq Publishers
  BY DEF Failed
<1>2. IsFiniteSet(Failed) /\ Cardinality(Failed) <= Cardinality(Publishers)
  BY <1>1, ActorsAssumption, FS_Subset
<1>3. Cardinality(Failed) \in Nat /\ Cardinality(Publishers) \in Nat
  BY <1>2, ActorsAssumption, FS_CardinalityType
<1> QED
  BY <1>2, <1>3

LEMMA FailedGrows ==
    ASSUME NEW p, p \notin Failed
    PROVE  Cardinality(Failed \cup {p}) = Cardinality(Failed) + 1
BY FailedFinite, FS_AddElement

LEMMA InitIInv == Init => IInv
<1> SUFFICES ASSUME Init PROVE IInv
  OBVIOUS
<1>1. Failed = {}
  BY DEF Init, Failed
<1>2. errorCount = Cardinality(Failed)
  BY <1>1, FS_EmptySet DEF Init
<1>3. TypeOK /\ Types
  <2>1. Cardinality(Publishers) \in Nat
    BY ActorsAssumption, FS_CardinalityType
  <2> QED
    BY <2>1 DEF Init, TypeOK, Types
<1>4. CloseStages /\ Meeting /\ Stages /\ OnTheWay
  BY ActorsAssumption DEF Init, CloseStages, Meeting, UnderWay, Stages, OnTheWay
<1> QED
  BY <1>2, <1>3, <1>4 DEF IInv

\* What a step leaves alone, the parts about it keep.
LEMMA PublishKeepsCloses ==
    ASSUME IInv, NEW p \in Publishers, Publish(p)
    PROVE  CloseStages'
<1>1. UNCHANGED <<tracing, made, closeVars>>
  BY DEF Publish, Refuse, Prepare, SendOpen, SendRefused, SendPanics, Answered, Finish
<1>2. /\ made = "none" => UNCHANGED pub
      /\ made # "made" => pub'[p] = "over" \/ UNCHANGED pub
      /\ pub'[p] = "inflight" => client = "open"
  BY DEF IInv, TypeOK, CloseStages, Publish, Refuse, Prepare, SendOpen, SendRefused, SendPanics, Answered, Finish, Return
<1>3. \A q \in Publishers \ {p} : pub'[q] = pub[q]
  BY DEF IInv, TypeOK, Publish, Refuse, Prepare, SendOpen, SendRefused, SendPanics, Answered, Finish, Return
<1>4. pub' \in [Publishers -> {"new", "send", "inflight", "finish", "over"}]
  BY DEF IInv, TypeOK, Publish, Refuse, Prepare, SendOpen, SendRefused, SendPanics, Answered, Finish, Return
<1> QED
  BY <1>1, <1>2, <1>3, <1>4 DEF IInv, CloseStages, closeVars

LEMMA ClosedIsCleared ==
    ASSUME IInv, made = "made"
    PROVE  /\ HasClosed <=> once = "done" /\ \E c \in Closers : close[c] = "returned"
           /\ Closing <=> once \in Closers
           /\ once = "done" <=> field = "nil"
           /\ once = Free => client = "open"
<1> QED
  BY ActorsAssumption DEF IInv, TypeOK, CloseStages, HasClosed, Closing

LEMMA PublishKeepsMeeting ==
    ASSUME IInv, NEW p \in Publishers, Publish(p)
    PROVE  Meeting'
<1> USE DEF IInv, TypeOK, Meeting, UnderWay
<1>1. CASE Refuse(p)
  BY <1>1 DEF Refuse, Return, Begin, closeVars
<1>2. CASE Prepare(p)
  <2>1. ~HasClosed
    BY <1>2, ClosedIsCleared DEF Prepare
  <2>2. once # Free => Closing
    BY <1>2, ClosedIsCleared DEF Prepare
  <2>3. /\ pub' = [pub EXCEPT ![p] = "send"]
        /\ UNCHANGED <<once, outcome>>
        /\ raced'[p] = Closing /\ late'[p] = HasClosed
        /\ \A q \in Publishers \ {p} : raced'[q] = raced[q] /\ late'[q] = late[q]
        /\ outcome[p] = "none"
    BY <1>2 DEF Prepare, Begin, closeVars, Stages
  <2> QED
    BY <2>1, <2>2, <2>3
<1>3. CASE SendOpen(p)
  BY <1>3 DEF SendOpen, closeVars
<1>4. CASE SendRefused(p)
  BY <1>4 DEF SendRefused, closeVars
<1>5. CASE SendPanics(p)
  <2>1. made = "made"
    BY <1>5 DEF SendPanics, CloseStages
  <2>2. once # Free
    BY <1>5, <2>1, ClosedIsCleared, ActorsAssumption DEF SendPanics
  <2> QED
    BY <1>5, <2>2 DEF SendPanics, Return, closeVars
<1>6. CASE Answered(p)
  BY <1>6 DEF Answered, AnswerOK, closeVars
<1>7. CASE Finish(p)
  BY <1>7 DEF Finish, closeVars
<1> QED
  BY <1>1, <1>2, <1>3, <1>4, <1>5, <1>6, <1>7 DEF Publish

\* Storing appends records of the publisher, in between none and two.
LEMMA StoreAppends ==
    ASSUME IInv, NEW p \in Publishers, NEW copies \in 0 .. 2, Store(p, copies)
    PROVE  /\ topicLog' \in Seq([by : Publishers, headers : Seq(Header)])
           /\ DOMAIN topicLog' = 1 .. Len(topicLog) + copies
           /\ \A i \in DOMAIN topicLog : topicLog'[i] = topicLog[i]
           /\ \A i \in DOMAIN topicLog' \ DOMAIN topicLog :
                  topicLog'[i] = [by |-> p, headers |-> message[p]]
<1> DEFINE Record == [by : Publishers, headers : Seq(Header)]
           r == [by |-> p, headers |-> message[p]]
           more == [i \in 1 .. copies |-> r]
<1>1. r \in Record
  BY DEF IInv, Types
<1>2. more \in Seq(Record) /\ Len(more) = copies /\ \A i \in 1 .. copies : more[i] = r
  <2>1. copies \in Nat
    OBVIOUS
  <2> HIDE DEF r, Record
  <2>2. more \in [1 .. copies -> Record] /\ \A i \in 1 .. copies : more[i] = r
    BY <1>1
  <2>3. DOMAIN more = 1 .. copies
    OBVIOUS
  <2> HIDE DEF more
  <2>4. more \in Seq(Record)
    BY <2>1, <2>2
  <2> QED
    BY <2>1, <2>2, <2>3, <2>4
<1>3. topicLog \in Seq(Record) /\ topicLog' = topicLog \o more
  BY DEF IInv, Types, Store
<1> HIDE DEF more, r, Record
<1>4. /\ topicLog' \in Seq(Record)
      /\ Len(topicLog') = Len(topicLog) + copies
      /\ \A i \in 1 .. Len(topicLog') :
            topicLog'[i] = IF i <= Len(topicLog) THEN topicLog[i] ELSE more[i - Len(topicLog)]
  BY <1>2, <1>3
<1>5. \A i \in 1 .. Len(topicLog') : i > Len(topicLog) => topicLog'[i] = r
  BY <1>2, <1>3, <1>4
<1> QED
  BY <1>3, <1>4, <1>5 DEF r, Record

LEMMA PublishKeepsStages ==
    ASSUME IInv, NEW p \in Publishers, Publish(p)
    PROVE  Stages'
<1> USE DEF IInv, TypeOK, Stages
<1>1. CASE Refuse(p)
  BY <1>1 DEF Refuse, Return
<1>2. CASE Prepare(p)
  <2>1. /\ pub' = [pub EXCEPT ![p] = "send"] /\ span' = [span EXCEPT ![p] = "open"]
        /\ UNCHANGED <<outcome, topicLog>> /\ pub[p] = "new"
    BY <1>2 DEF Prepare
  <2> QED
    BY <2>1
<1>3. CASE SendOpen(p)
  BY <1>3 DEF SendOpen
<1>4. CASE SendRefused(p)
  BY <1>4 DEF SendRefused
<1>5. CASE SendPanics(p)
  BY <1>5 DEF SendPanics, Return
<1>6. CASE Answered(p)
  <2>1. PICK copies \in 0 .. 2 :
          /\ Store(p, copies)
          /\ \/ outcome' = [outcome EXCEPT ![p] = "ok"] /\ copies > 0
             \/ outcome' = [outcome EXCEPT ![p] = "error"]
    BY <1>6 DEF Answered, AnswerOK
  <2>2. /\ \A i \in DOMAIN topicLog : topicLog'[i] = topicLog[i] /\ i \in DOMAIN topicLog'
        /\ copies > 0 => \E i \in DOMAIN topicLog' : topicLog'[i].by = p
    <3>1. DOMAIN topicLog = 1 .. Len(topicLog) /\ Len(topicLog) \in Nat
      BY DEF Types
    <3>2. copies > 0 => Len(topicLog) + 1 \in DOMAIN topicLog' \ DOMAIN topicLog
      BY <2>1, <3>1, StoreAppends
    <3> QED
      BY <2>1, <3>1, <3>2, StoreAppends
  <2>3. pub' = [pub EXCEPT ![p] = "finish"] /\ UNCHANGED span /\ pub[p] = "inflight"
    BY <1>6 DEF Answered
  <2> QED
    BY <2>1, <2>2, <2>3
<1>7. CASE Finish(p)
  BY <1>7 DEF Finish, EndSpan
<1> QED
  BY <1>1, <1>2, <1>3, <1>4, <1>5, <1>6, <1>7 DEF Publish

\* A copy with the new context carries what it should.
LEMMA PrepareCarries ==
    ASSUME IInv, NEW p \in Publishers, Prepare(p)
    PROVE  /\ message' \in [Publishers -> Seq(Header)]
           /\ user' \in [Publishers -> UserHeaders \cup {<<>>}]
           /\ \A q \in Publishers \ {p} : message'[q] = message[q] /\ user'[q] = user[q]
           /\ Carries(message[p], p)'
<1>0. PICK u \in UserHeaders :
          /\ user' = [user EXCEPT ![p] = u]
          /\ \E copy \in Copies(u) : message' = [message EXCEPT ![p] = Inject(p, copy)]
  BY DEF Prepare
<1>1. PICK copy \in Copies(u) : message' = [message EXCEPT ![p] = Inject(p, copy)]
  BY <1>0
<1>2. /\ copy \in Seq(Header)
      /\ \A k \in Sent(u) : \E i \in DOMAIN copy : copy[i] = [key |-> TrimSpace[k], value |-> u[k]]
  BY CopyHoldsAll
<1> DEFINE g == Inject(p, copy)
<1>3. /\ g \in Seq(Header)
      /\ tracing => Get(g, TraceParent) = p
      /\ \A i \in DOMAIN copy : ~EqualFold(copy[i].key, TraceParent) =>
            i \in DOMAIN g /\ g[i] = copy[i]
  <2>1. CASE tracing
    BY <1>2, <2>1, SetThenGet, TraceParentAssumption DEF Inject
  <2>2. CASE ~tracing
    BY <1>2, <2>2 DEF Inject
  <2> QED
    BY <2>1, <2>2
<1> HIDE DEF g
<1>4. \A k \in Sent(u) : ~EqualFold(TrimSpace[k], TraceParent) =>
          \E j \in DOMAIN g : g[j] = [key |-> TrimSpace[k], value |-> u[k]]
  <2> TAKE k \in Sent(u)
  <2> HAVE ~EqualFold(TrimSpace[k], TraceParent)
  <2>1. PICK i \in DOMAIN copy : copy[i] = [key |-> TrimSpace[k], value |-> u[k]]
    BY <1>2
  <2>2. copy[i].key = TrimSpace[k]
    BY <2>1
  <2> QED
    BY <1>3, <2>1, <2>2
<1>5. message'[p] = g /\ user'[p] = u /\ UNCHANGED tracing
  BY <1>0, <1>1 DEF Prepare, g, IInv, TypeOK, Types
<1>6. Carries(message[p], p)'
  BY <1>3, <1>4, <1>5 DEF Carries
<1> QED
  BY <1>0, <1>1, <1>3, <1>6 DEF g, IInv, TypeOK, Types

LEMMA PublishKeepsHeaders ==
    ASSUME IInv, NEW p \in Publishers, Publish(p)
    PROVE  Types' /\ OnTheWay'
<1> USE DEF IInv, Types
<1>1. CASE UNCHANGED <<tracing, user, message, topicLog>> /\ (UNCHANGED span \/ Finish(p))
  <2>1. \A q \in Publishers : span'[q] # "none" <=> span[q] # "none"
    <3>1. CASE UNCHANGED span
      BY <3>1
    <3>2. CASE Finish(p)
      BY <3>2 DEF Finish, EndSpan, TypeOK, Stages
    <3> QED
      BY <1>1, <3>1, <3>2
  <2> QED
    BY <1>1, <2>1 DEF OnTheWay, Carries
<1>2. CASE Prepare(p)
  <2>1. /\ UNCHANGED <<tracing, topicLog>>
        /\ span' = [span EXCEPT ![p] = "open"] /\ span[p] = "none"
    BY <1>2 DEF Prepare, Stages
  <2>2. ASSUME NEW q \in Publishers \ {p}, Carries(message[q], q)
        PROVE  Carries(message[q], q)'
    <3>1. message'[q] = message[q] /\ user'[q] = user[q] /\ UNCHANGED tracing
      BY <1>2, <2>1, PrepareCarries
    <3> QED
      BY <2>2, <3>1 DEF Carries
  <2>3. \A i \in DOMAIN topicLog : topicLog[i].by \in Publishers \ {p}
    BY <2>1 DEF OnTheWay
  <2>4. \A q \in Publishers : span'[q] # "none" => Carries(message[q], q)'
    BY <1>2, <2>1, <2>2, PrepareCarries DEF OnTheWay, TypeOK
  <2>5. \A i \in DOMAIN topicLog' :
          /\ topicLog'[i].by \in Publishers
          /\ span'[topicLog'[i].by] # "none"
          /\ topicLog'[i].headers = message'[topicLog'[i].by]
    BY <1>2, <2>1, <2>3, PrepareCarries DEF OnTheWay, TypeOK
  <2> QED
    BY <1>2, <2>1, <2>4, <2>5, PrepareCarries DEF OnTheWay
<1>3. CASE Answered(p)
  <2>1. PICK copies \in 0 .. 2 : Store(p, copies)
    BY <1>3 DEF Answered
  <2>2. UNCHANGED <<tracing, user, message, span>> /\ span[p] = "open"
    BY <1>3 DEF Answered, Stages
  <2>3. \A i \in DOMAIN topicLog' : \/ i \in DOMAIN topicLog /\ topicLog'[i] = topicLog[i]
                                 \/ topicLog'[i] = [by |-> p, headers |-> message[p]]
    BY <2>1, StoreAppends
  <2>4. topicLog' \in Seq([by : Publishers, headers : Seq(Header)])
    BY <2>1, StoreAppends
  <2>5. \A i \in DOMAIN topicLog' :
          /\ topicLog'[i].by \in Publishers
          /\ span'[topicLog'[i].by] # "none"
          /\ topicLog'[i].headers = message'[topicLog'[i].by]
    BY <2>2, <2>3 DEF OnTheWay
  <2> QED
    BY <2>2, <2>4, <2>5 DEF OnTheWay, Carries
<1>4. Prepare(p) \/ Answered(p) \/ (/\ UNCHANGED <<tracing, user, message, topicLog>>
                                    /\ UNCHANGED span \/ Finish(p))
  BY DEF Publish, Refuse, SendOpen, SendRefused, SendPanics, Finish
<1> QED
  BY <1>1, <1>2, <1>3, <1>4

LEMMA PublishKeepsCount ==
    ASSUME IInv, NEW p \in Publishers, Publish(p)
    PROVE  errorCount' = Cardinality(Failed')
<1> USE DEF IInv, TypeOK, Stages
<1>1. CASE UNCHANGED errorCount /\ (UNCHANGED span \/ Prepare(p))
  <2>1. Failed' = Failed
    <3>1. CASE UNCHANGED span
      BY <3>1 DEF Failed
    <3>2. CASE Prepare(p)
      BY <3>2 DEF Prepare, Failed
    <3> QED
      BY <1>1, <3>1, <3>2
  <2> QED
    BY <1>1, <2>1
<1>2. CASE Finish(p)
  <2>1. span[p] = "open" /\ p \notin Failed
    BY <1>2 DEF Finish, Failed
  <2>2. CASE outcome[p] = "error"
    <3>1. Failed' = Failed \cup {p}
      BY <1>2, <2>2 DEF Finish, EndSpan, Failed
    <3>2. errorCount' = errorCount + 1
      BY <1>2, <2>2 DEF Finish, CountError
    <3>3. Cardinality(Failed \cup {p}) = Cardinality(Failed) + 1
      BY <2>1, FailedGrows
    <3> QED
      BY <3>1, <3>2, <3>3
  <2>3. CASE outcome[p] # "error"
    <3>1. Failed' = Failed
      BY <1>2, <2>1, <2>3 DEF Finish, EndSpan, Failed
    <3> QED
      BY <1>2, <2>3, <3>1 DEF Finish, CountError
  <2> QED
    BY <2>2, <2>3
<1>3. Finish(p) \/ (UNCHANGED errorCount /\ (UNCHANGED span \/ Prepare(p)))
  BY DEF Publish, Refuse, Prepare, SendOpen, SendRefused, SendPanics, Answered
<1> QED
  BY <1>1, <1>2, <1>3

LEMMA PublishKeepsTypes ==
    ASSUME IInv, NEW p \in Publishers, Publish(p)
    PROVE  TypeOK'
<1> USE DEF IInv, TypeOK
<1>1. UNCHANGED <<tracing, made, field, client, once, close>>
  BY DEF Publish, Refuse, Prepare, SendOpen, SendRefused, SendPanics, Answered, Finish, closeVars
<1>2. Types' /\ OnTheWay' /\ errorCount' = Cardinality(Failed')
  BY PublishKeepsHeaders, PublishKeepsCount
<1>3. \A q \in Publishers : \A i \in DOMAIN message'[q] : message'[q][i].key \in DOMAIN Fold
  <2> TAKE q \in Publishers
  <2> TAKE i \in DOMAIN message'[q]
  <2>1. message'[q] \in Seq(Header)
    BY <1>2 DEF Types
  <2>2. message'[q][i] \in Header
    BY <2>1
  <2> QED
    BY <2>2 DEF Header
<1>4. /\ \A i \in DOMAIN topicLog' : topicLog'[i].by \in Publishers
      /\ errorCount' \in 0 .. Cardinality(Publishers)
  <2>1. IsFiniteSet(Failed') /\ Cardinality(Failed') \in 0 .. Cardinality(Publishers)
    <3>1. Failed' \subseteq Publishers
      BY DEF Failed
    <3>2. IsFiniteSet(Failed') /\ Cardinality(Failed') <= Cardinality(Publishers)
      BY <3>1, ActorsAssumption, FS_Subset
    <3> QED
      BY <3>2, ActorsAssumption, FS_CardinalityType
  <2> QED
    BY <1>2, <2>1 DEF OnTheWay
<1>5. /\ pub' \in [Publishers -> {"new", "send", "inflight", "finish", "over"}]
      /\ user' \in [Publishers -> UserHeaders \cup {<<>>}]
  <2>1. CASE Prepare(p)
    BY <2>1, PrepareCarries DEF Prepare
  <2>2. CASE ~Prepare(p)
    BY <2>2 DEF Publish, Refuse, SendOpen, SendRefused, SendPanics, Answered, Finish, Return
  <2> QED
    BY <2>1, <2>2
<1>6. /\ span' \in [Publishers -> {"none", "open", "failed", "ended"}]
      /\ outcome' \in [Publishers -> {"none", "ok", "error", "closed", "panic"}]
  BY DEF Publish, Refuse, Prepare, SendOpen, SendRefused, SendPanics, Answered, AnswerOK,
         Finish, EndSpan, Return
<1>7. raced' \in [Publishers -> BOOLEAN] /\ late' \in [Publishers -> BOOLEAN]
  <2>1. Closing \in BOOLEAN /\ HasClosed \in BOOLEAN
    BY DEF Closing, HasClosed
  <2>2. \/ UNCHANGED <<raced, late>>
        \/ /\ raced' = [raced EXCEPT ![p] = Closing]
           /\ late' = [late EXCEPT ![p] = HasClosed]
    BY DEF Publish, Refuse, Prepare, SendOpen, SendRefused, SendPanics, Answered, Finish, Begin
  <2> HIDE DEF Closing, HasClosed
  <2> QED
    BY <2>1, <2>2
<1> QED
  BY <1>1, <1>3, <1>4, <1>5, <1>6, <1>7

-----------------------------------------------------------------------------
\* What a step other than a Publish's leaves alone keeps what is about the
\* messages.
SendVars == <<tracing, pub, user, message, span, outcome, late, topicLog, errorCount>>

LEMMA OthersKeepMessages ==
    ASSUME IInv, UNCHANGED SendVars
    PROVE  Types' /\ Stages' /\ OnTheWay' /\ errorCount' = Cardinality(Failed')
<1> USE DEF SendVars
<1>1. Failed' = Failed
  BY DEF Failed
<1> QED
  BY <1>1 DEF IInv, Types, Stages, OnTheWay, Carries

LEMMA NewKeeps ==
    ASSUME IInv, New
    PROVE  IInv'
<1>1. UNCHANGED SendVars /\ UNCHANGED <<once, close, raced>>
  BY DEF New, SendVars, publishVars
<1>2. Types' /\ Stages' /\ OnTheWay' /\ errorCount' = Cardinality(Failed')
  BY <1>1, OthersKeepMessages
<1>3. TypeOK'
  BY <1>1 DEF New, IInv, TypeOK, SendVars
<1>4. CloseStages'
  BY <1>1, ActorsAssumption DEF New, IInv, CloseStages, SendVars
<1>5. Meeting'
  BY <1>1 DEF IInv, Meeting, UnderWay, SendVars
<1> QED
  BY <1>2, <1>3, <1>4, <1>5 DEF IInv

LEMMA CloseKeeps ==
    ASSUME IInv, NEW c \in Closers, Close(c)
    PROVE  IInv'
<1>1. UNCHANGED SendVars /\ UNCHANGED made
  BY DEF Close, CloseNothing, CloseFirst, ClientClosed, Cleared, SendVars, publishVars
<1>2. Types' /\ Stages' /\ OnTheWay' /\ errorCount' = Cardinality(Failed')
  BY <1>1, OthersKeepMessages
<1>3. raced' \in [Publishers -> BOOLEAN] /\ \A p \in Publishers : raced[p] => raced'[p]
  <2>1. CASE CloseFirst(c)
    <3>1. \A p \in Publishers : (raced[p] \/ UnderWay(p)) \in BOOLEAN
      BY DEF UnderWay
    <3>2. raced' = [p \in Publishers |-> raced[p] \/ UnderWay(p)]
      BY <2>1 DEF CloseFirst, Race
    <3> QED
      BY <3>1, <3>2
  <2>2. CASE UNCHANGED raced
    BY <2>2 DEF IInv, TypeOK
  <2> QED
    BY <2>1, <2>2 DEF Close, CloseNothing, ClientClosed, Cleared
<1>4. TypeOK'
  BY <1>1, <1>3 DEF IInv, TypeOK, SendVars, Close, CloseNothing, CloseFirst, ClientClosed,
                    Cleared, ClearField
<1>5. Meeting'
  <2>1. CASE CloseFirst(c)
    <3>1. \A p \in Publishers : UnderWay(p) => raced'[p]
      BY <2>1 DEF CloseFirst, Race
    <3> QED
      BY <1>1, <1>3, <3>1 DEF IInv, Meeting, UnderWay, SendVars
  <2>2. CASE ~CloseFirst(c)
    <3>1. once' # Free => once # Free
      BY <2>2, ActorsAssumption DEF Close, CloseNothing, ClientClosed, Cleared, IInv, CloseStages,
            TypeOK
    <3> QED
      BY <1>1, <1>3, <3>1 DEF IInv, Meeting, UnderWay, SendVars
  <2> QED
    BY <2>1, <2>2
<1>6. CloseStages'
  <2> USE ActorsAssumption DEF IInv, TypeOK, CloseStages, SendVars
  <2>1. CASE CloseNothing(c)
    BY <1>1, <2>1 DEF CloseNothing, Wait
  <2>2. CASE CloseFirst(c)
    BY <1>1, <2>2 DEF CloseFirst
  <2>3. CASE ClientClosed(c)
    BY <1>1, <2>3 DEF ClientClosed
  <2>4. CASE Cleared(c)
    BY <1>1, <2>4 DEF Cleared, ClearField
  <2> QED
    BY <2>1, <2>2, <2>3, <2>4 DEF Close
<1> QED
  BY <1>2, <1>4, <1>5, <1>6 DEF IInv

LEMMA StutterKeeps ==
    ASSUME IInv, UNCHANGED vars
    PROVE  IInv'
<1>1. Failed' = Failed
  BY DEF Failed, vars, publishVars
<1> QED
  BY <1>1 DEF vars, closeVars, publishVars, IInv, TypeOK, Types, CloseStages, Meeting, UnderWay,
              Stages, OnTheWay, Carries

LEMMA StepKeeps == IInv /\ [Next]_vars => IInv'
<1> SUFFICES ASSUME IInv, [Next]_vars PROVE IInv'
  OBVIOUS
<1>1. CASE New
  BY <1>1, NewKeeps
<1>2. CASE \E p \in Publishers : Publish(p)
  BY <1>2, PublishKeepsTypes, PublishKeepsHeaders, PublishKeepsCloses, PublishKeepsMeeting,
     PublishKeepsStages, PublishKeepsCount DEF IInv
<1>3. CASE \E c \in Closers : Close(c)
  BY <1>3, CloseKeeps
<1>4. CASE UNCHANGED vars
  BY <1>4, StutterKeeps
<1> QED
  BY <1>1, <1>2, <1>3, <1>4 DEF Next, Quiet

LEMMA Invariance == Spec => []IInv
<1> QED
  BY InitIInv, StepKeeps, PTL DEF Spec

(***************************************************************************)
(* Every variable keeps its type; an error count above the number of       *)
(* publishers, or a stored record without one, does not exist.             *)
(***************************************************************************)
THEOREM TypeCorrect == Spec => []TypeOK
<1>1. IInv => TypeOK
  BY DEF IInv
<1> QED
  BY <1>1, Invariance, PTL

(***************************************************************************)
(* When any Close has returned the producer is closed for good, and only a *)
(* Publish that raced a Close can panic (producer.go:79-134).              *)
(***************************************************************************)
THEOREM ClosedStaysClosed == Spec => []ClosedForGood
<1>1. IInv => ClosedForGood
  <2> SUFFICES ASSUME IInv PROVE ClosedForGood
    OBVIOUS
  <2>1. ASSUME HasClosed, made = "made"
        PROVE  client = "closed" /\ \A p \in Publishers : pub[p] # "inflight"
    BY <2>1, ClosedIsCleared DEF IInv, CloseStages
  <2> QED
    BY <2>1 DEF ClosedForGood, IInv, Meeting
<1> QED
  BY <1>1, Invariance, PTL

(***************************************************************************)
(* What a Publish returns, its span and the error counter agree with what  *)
(* the broker has stored (producer.go:79-119).                             *)
(***************************************************************************)
THEOREM ToldTrue == Spec => []AnswersAreTrue
<1>1. IInv => AnswersAreTrue
  <2> SUFFICES ASSUME IInv PROVE AnswersAreTrue
    OBVIOUS
  <2>1. ASSUME NEW p \in Publishers, pub[p] = "over"
        PROVE  /\ outcome[p] = "ok" => StoredBy(p) # {} /\ span[p] = "ended"
               /\ outcome[p] = "error" => span[p] = "failed"
               /\ outcome[p] = "closed" => StoredBy(p) = {} /\ span[p] = "none"
    BY <2>1 DEF IInv, Stages, OnTheWay, StoredBy
  <2> QED
    BY <2>1 DEF AnswersAreTrue, IInv, Failed
<1> QED
  BY <1>1, Invariance, PTL

(***************************************************************************)
(* The consumer's span is a child of the Publish that sent the record, and *)
(* the caller's other headers arrive, whatever they are                    *)
(* (instrumentation.go:90-101, 119, 156).                                  *)
(***************************************************************************)
THEOREM TraceGoesOn == Spec => []TraceContinues
<1>1. IInv => TraceContinues
  <2> SUFFICES ASSUME IInv, NEW i \in DOMAIN topicLog
               PROVE  LET r == topicLog[i]
                      IN  /\ tracing => ConsumerParent(r.headers) = r.by
                          /\ \A k \in Sent(user[r.by]) : ~EqualFold(TrimSpace[k], TraceParent) =>
                              \E j \in DOMAIN r.headers :
                                  r.headers[j] = [key |-> TrimSpace[k], value |-> user[r.by][k]]
    BY DEF TraceContinues
  <2>1. Carries(topicLog[i].headers, topicLog[i].by)
    BY DEF IInv, OnTheWay
  <2> QED
    BY <2>1 DEF Carries, ConsumerParent
<1> QED
  BY <1>1, Invariance, PTL

-----------------------------------------------------------------------------
\* A Publish that has not been answered by the client has stored nothing, and
\* closeOnce is used up only by a Close that has returned.
Unsent ==
    /\ made = "made" /\ once = "done" => HasClosed
    /\ \A p \in Publishers :
        pub[p] \in {"new", "send", "inflight"} \/ outcome[p] = "panic" =>
            \A i \in DOMAIN topicLog : topicLog[i].by # p

\* Whether the topic is open can be told from closeOnce.
StageRight ==
    /\ made = "none" => Stage = "unmade"
    /\ made = "nil" => Stage = "closed"
    /\ made = "made" /\ once = Free => Stage = "open"
    /\ made = "made" /\ once \in Closers => Stage = "closing"
    /\ made = "made" /\ once = "done" => Stage = "closed"

LEMMA StageFromOnce ==
    ASSUME IInv, Unsent
    PROVE  StageRight
<1>1. CASE made = "made"
  BY <1>1, ClosedIsCleared, ActorsAssumption DEF Unsent, StageRight, Stage, IInv, TypeOK
<1>2. CASE made # "made"
  BY <1>2 DEF StageRight, Stage, IInv, TypeOK
<1> QED
  BY <1>1, <1>2

LEMMA UnsentStep == IInv /\ Unsent /\ [Next]_vars => Unsent'
<1> SUFFICES ASSUME IInv, Unsent, [Next]_vars PROVE Unsent'
  OBVIOUS
<1>1. CASE New \/ UNCHANGED vars
  <2>1. UNCHANGED <<pub, outcome, topicLog, once, close>> /\ (made' = "made" => once # "done" \/ made = "made")
    BY <1>1, ActorsAssumption DEF New, vars, publishVars, closeVars, IInv, CloseStages
  <2> QED
    BY <2>1 DEF Unsent, HasClosed
<1>2. ASSUME NEW c \in Closers, Close(c)
      PROVE  Unsent'
  <2>1. UNCHANGED <<pub, outcome, topicLog, made>> /\ close \in [Closers -> {"new", "closing", "clear", "returned"}]
    BY <1>2 DEF Close, CloseNothing, CloseFirst, ClientClosed, Cleared, publishVars, IInv, TypeOK
  <2>2. made = "made" /\ once' = "done" => HasClosed'
    BY <1>2, <2>1, ActorsAssumption DEF Close, CloseNothing, CloseFirst, ClientClosed, Cleared,
          HasClosed, Unsent, IInv, CloseStages
  <2> QED
    BY <2>1, <2>2 DEF Unsent
<1>3. ASSUME NEW p \in Publishers, Publish(p)
      PROVE  Unsent'
  <2>1. UNCHANGED <<made, once, close>>
    BY <1>3 DEF Publish, Refuse, Prepare, SendOpen, SendRefused, SendPanics, Answered, Finish, closeVars
  <2>2. CASE Answered(p)
    <3>1. PICK copies \in 0 .. 2 : Store(p, copies)
      BY <2>2 DEF Answered
    <3>2. /\ pub[p] = "inflight" /\ pub' = [pub EXCEPT ![p] = "finish"]
          /\ \A q \in Publishers \ {p} : outcome'[q] = outcome[q]
          /\ outcome'[p] # "panic"
      BY <2>2 DEF Answered, AnswerOK, IInv, TypeOK
    <3>3. \A i \in DOMAIN topicLog' :
            topicLog'[i].by = p \/ (i \in DOMAIN topicLog /\ topicLog'[i] = topicLog[i])
      BY <3>1, StoreAppends
    <3> QED
      BY <2>1, <3>2, <3>3 DEF Unsent, HasClosed, IInv, TypeOK
  <2>3. CASE ~Answered(p)
    <3>1. /\ UNCHANGED topicLog
          /\ \A q \in Publishers \ {p} : pub'[q] = pub[q] /\ outcome'[q] = outcome[q]
          /\ pub'[p] \in {"new", "send", "inflight"} \/ outcome'[p] = "panic" =>
                pub[p] \in {"new", "send", "inflight"} \/ outcome[p] = "panic"
      BY <1>3, <2>3 DEF Publish, Refuse, Prepare, SendOpen, SendRefused, SendPanics, Finish, Return, IInv, TypeOK
    <3> QED
      BY <2>1, <3>1 DEF Unsent, HasClosed
  <2> QED
    BY <2>2, <2>3
<1> QED
  BY <1>1, <1>2, <1>3 DEF Next, Quiet

\* A step of one Publish changes what is told of it, and of no other.
LEMMA AnswersOf ==
    ASSUME IInv, NEW p \in Publishers, NEW a,
           \A q \in Publishers \ {p} : pub'[q] = pub[q] /\ outcome'[q] = outcome[q],
           AnswerTo(p)' = a
    PROVE  Answers' = [Answers EXCEPT ![p] = a]
<1>1. \A q \in Publishers \ {p} : AnswerTo(q)' = AnswerTo(q)
  BY DEF AnswerTo
<1>2. /\ Answers' = [q \in Publishers |-> AnswerTo(q)']
      /\ Answers = [q \in Publishers |-> AnswerTo(q)]
  BY DEF Answers
<1> HIDE DEF AnswerTo
<1> QED
  BY <1>1, <1>2

\* What is stored on the topic is what the client has stored.
LEMMA StoreOnTopic ==
    ASSUME IInv, NEW p \in Publishers, NEW copies \in 0 .. 2, Store(p, copies)
    PROVE  /\ copies = 0 => UNCHANGED Senders
           /\ Senders' = Senders \o [i \in 1 .. copies |-> p]
<1> DEFINE Record == [by : Publishers, headers : Seq(Header)]
           more == [i \in 1 .. copies |-> p]
           n == Len(topicLog)
<1>1. topicLog \in Seq(Record)
  BY DEF IInv, Types
<1>2. /\ topicLog' \in Seq(Record)
      /\ DOMAIN topicLog' = 1 .. n + copies
      /\ \A i \in DOMAIN topicLog : topicLog'[i] = topicLog[i]
      /\ \A i \in DOMAIN topicLog' \ DOMAIN topicLog : topicLog'[i] = [by |-> p, headers |-> message[p]]
  BY StoreAppends
<1>3. /\ \A i \in DOMAIN topicLog : topicLog[i] \in Record
      /\ \A i \in DOMAIN topicLog' : topicLog'[i] \in Record
  <2> HIDE DEF Record
  <2> QED
    BY <1>1, <1>2
<1>4. /\ DOMAIN topicLog = 1 .. n /\ n \in Nat
      /\ \A i \in 1 .. n : topicLog[i].by \in Publishers /\ topicLog'[i].by = topicLog[i].by
      /\ \A i \in 1 .. n + copies : i > n => topicLog'[i].by = p
  <2>1. DOMAIN topicLog = 1 .. n /\ n \in Nat
    <3> HIDE DEF Record
    <3> QED
      BY <1>1
  <2>2. \A i \in 1 .. n + copies : i > n => i \in DOMAIN topicLog' \ DOMAIN topicLog
    BY <1>2, <2>1
  <2>3. \A i \in 1 .. n : topicLog[i].by \in Publishers
    BY <1>3, <2>1
  <2>4. \A i \in 1 .. n : topicLog'[i].by = topicLog[i].by
    BY <1>2, <2>1
  <2>5. \A i \in 1 .. n + copies : i > n => topicLog'[i].by = p
    <3> SUFFICES ASSUME NEW i \in 1 .. n + copies, i > n PROVE topicLog'[i].by = p
      OBVIOUS
    <3>1. topicLog'[i] = [by |-> p, headers |-> message[p]]
      BY <1>2, <2>2
    <3> QED
      BY <3>1
  <2> QED
    BY <2>1, <2>3, <2>4, <2>5
<1> HIDE DEF Record, n
<1>5. /\ Senders = [i \in 1 .. n |-> topicLog[i].by]
      /\ Senders' = [i \in 1 .. n + copies |-> topicLog'[i].by]
  BY <1>2, <1>4 DEF Senders
<1>6. /\ Senders \in Seq(Publishers) /\ Len(Senders) = n
      /\ more \in Seq(Publishers) /\ Len(more) = copies
      /\ \A i \in 1 .. copies : more[i] = p
  <2>1. Senders \in [1 .. n -> Publishers]
    BY <1>4, <1>5
  <2> QED
    BY <1>4, <2>1
<1>7. \A i \in 1 .. n + copies : Senders'[i] = IF i <= n THEN Senders[i] ELSE p
  BY <1>4, <1>5
<1> HIDE DEF more
<1>8. Senders' = Senders \o more
  <2> DEFINE cat == Senders \o more
  <2>1. /\ cat \in Seq(Publishers)
        /\ Len(cat) = n + copies
        /\ \A i \in 1 .. n + copies : cat[i] = IF i <= n THEN Senders[i] ELSE p
    BY <1>4, <1>6
  <2> HIDE DEF cat
  <2>2. cat = [i \in 1 .. n + copies |-> cat[i]]
    BY <2>1
  <2>3. Senders' = [i \in 1 .. n + copies |-> Senders'[i]]
    BY <1>5
  <2>4. Senders' = cat
    BY <1>7, <2>1, <2>2, <2>3
  <2> QED
    BY <2>4 DEF cat
<1>9. ASSUME copies = 0
      PROVE  Senders' = Senders
  <2>1. n + copies = n
    BY <1>4, <1>9
  <2> QED
    BY <1>4, <1>5, <2>1
<1> QED
  BY <1>8, <1>9 DEF more

LEMMA SendersLogged ==
    ASSUME NEW p
    PROVE  Topic!Logged(p) <=> \E i \in DOMAIN topicLog : topicLog[i].by = p
BY DEF Topic!Logged, Senders

\* A Publish is begun, is stored, or gets an answer; the rest is unseen.
LEMMA PublishOnTopic ==
    ASSUME IInv, Unsent, StageRight, NEW p \in Publishers, Publish(p)
    PROVE  Topic!Next \/ UNCHANGED <<Stage, Connected, Answers, Senders>>
<1>1. UNCHANGED Stage /\ UNCHANGED Connected
  BY DEF Connected, Publish, Refuse, Prepare, SendOpen, SendRefused, SendPanics, Answered, Finish, closeVars,
         Stage, HasClosed, Closing
<1>2. \A q \in Publishers \ {p} : pub'[q] = pub[q] /\ outcome'[q] = outcome[q]
  BY DEF Publish, Refuse, Prepare, SendOpen, SendRefused, SendPanics, Answered, AnswerOK, Finish,
         Return, IInv, TypeOK
<1>3. Answers[p] = AnswerTo(p)
  BY DEF Answers
<1>4. UNCHANGED topicLog => UNCHANGED Senders
  BY DEF Senders
<1>5. CASE Refuse(p)
  <2>1. /\ AnswerTo(p) = "none" /\ AnswerTo(p)' = "closed" /\ UNCHANGED topicLog
    BY <1>5 DEF Refuse, Return, AnswerTo, IInv, TypeOK
  <2>2. Stage = "closed"
    BY <1>5, ClosedIsCleared DEF Refuse, StageRight, IInv, TypeOK
  <2>3. Topic!Refuse(p)
    BY <1>1, <1>2, <1>3, <1>4, <2>1, <2>2, AnswersOf DEF Topic!Refuse, Topic!Give
  <2> QED
    BY <2>3 DEF Topic!Next
<1>6. CASE Prepare(p)
  <2>1. /\ AnswerTo(p) = "none" /\ AnswerTo(p)' = "pending" /\ UNCHANGED topicLog
    BY <1>6 DEF Prepare, AnswerTo, IInv, TypeOK
  <2>2. Stage \in {"open", "closing"}
    BY <1>6, ClosedIsCleared DEF Prepare, StageRight, IInv, TypeOK
  <2>3. Topic!Begin(p)
    BY <1>1, <1>2, <1>3, <1>4, <2>1, <2>2, AnswersOf DEF Topic!Begin, Topic!Give
  <2> QED
    BY <2>3 DEF Topic!Next
<1>7. CASE SendOpen(p) \/ SendRefused(p)
  <2>1. AnswerTo(p) = "pending" /\ AnswerTo(p)' = "pending" /\ UNCHANGED topicLog
    BY <1>7 DEF SendOpen, SendRefused, AnswerTo, IInv, TypeOK
  <2>2. Answers' = [Answers EXCEPT ![p] = "pending"]
    BY <1>2, <2>1, AnswersOf
  <2>3. UNCHANGED Answers
    BY <1>3, <2>1, <2>2 DEF Answers
  <2> QED
    BY <1>1, <1>4, <2>1, <2>3
<1>8. CASE SendPanics(p)
  <2>1. AnswerTo(p) = "pending" /\ AnswerTo(p)' = "panic" /\ UNCHANGED topicLog
    BY <1>8 DEF SendPanics, Return, AnswerTo, IInv, TypeOK
  <2>2. made = "made" /\ once # Free
    <3>1. made = "made"
      BY <1>8 DEF SendPanics, IInv, CloseStages
    <3> QED
      BY <1>8, <3>1, ClosedIsCleared, ActorsAssumption DEF SendPanics
  <2>3. Stage # "open" /\ ~Topic!Logged(p)
    BY <1>8, <2>2, SendersLogged DEF SendPanics, StageRight, Unsent, IInv, TypeOK
  <2>4. Topic!AnswerPublish(p)
    BY <1>1, <1>2, <1>3, <1>4, <2>1, <2>3, AnswersOf DEF Topic!AnswerPublish, Topic!Give
  <2> QED
    BY <2>4 DEF Topic!Next
<1>9. CASE Answered(p)
  <2>1. PICK copies \in 0 .. 2 : Store(p, copies)
    BY <1>9 DEF Answered
  <2>2. AnswerTo(p) = "pending" /\ AnswerTo(p)' = "pending"
    BY <1>9 DEF Answered, AnswerTo, IInv, TypeOK
  <2>3. UNCHANGED Answers
    <3>1. Answers' = [Answers EXCEPT ![p] = "pending"]
      BY <1>2, <2>2, AnswersOf
    <3> QED
      BY <1>3, <2>2, <3>1 DEF Answers
  <2>4. CASE copies = 0
    BY <1>1, <2>1, <2>3, <2>4, StoreOnTopic
  <2>5. CASE copies \in 1 .. 2
    <3>1. client # "closed" /\ made = "made"
      BY <1>9 DEF Answered, IInv, CloseStages
    <3>2. Connected
      BY <3>1 DEF Connected, IInv, TypeOK, CloseStages
    <3>3. ~Topic!Logged(p)
      BY <1>9, SendersLogged DEF Answered, Unsent
    <3>4. Senders' = Senders \o [i \in 1 .. copies |-> p]
      BY <2>1, StoreOnTopic
    <3>5. Topic!StoreRecord(p)
      BY <1>1, <1>3, <2>2, <2>3, <2>5, <3>2, <3>3, <3>4 DEF Topic!StoreRecord
    <3> QED
      BY <3>5 DEF Topic!Next
  <2> QED
    BY <2>4, <2>5
<1>10. CASE Finish(p)
  <2>1. /\ AnswerTo(p) = "pending" /\ AnswerTo(p)' = outcome[p] /\ UNCHANGED topicLog
        /\ outcome[p] \in {"ok", "error"}
    BY <1>10 DEF Finish, AnswerTo, IInv, TypeOK, Stages
  <2>2. outcome[p] = "ok" => Topic!Logged(p)
    BY SendersLogged DEF IInv, Stages
  <2>3. Topic!Give(p, outcome[p])
    BY <1>1, <1>2, <1>4, <2>1, AnswersOf DEF Topic!Give
  <2>4. Topic!AnswerPublish(p)
    BY <1>3, <2>1, <2>2, <2>3 DEF Topic!AnswerPublish
  <2> QED
    BY <2>4 DEF Topic!Next
<1> QED
  BY <1>5, <1>6, <1>7, <1>8, <1>9, <1>10 DEF Publish

\* A Close, and the making of the producer, move the topic on or are unseen.
LEMMA CloseOnTopic ==
    ASSUME IInv, StageRight, StageRight', New \/ \E c \in Closers : Close(c)
    PROVE  Topic!Next \/ UNCHANGED <<Stage, Connected, Answers, Senders>>
<1>1. UNCHANGED <<pub, outcome, topicLog>>
  BY DEF New, Close, CloseNothing, CloseFirst, ClientClosed, Cleared, publishVars
<1>2. UNCHANGED <<Answers, Senders>>
  BY <1>1 DEF Answers, AnswerTo, Senders
<1>3. Topic!Move \/ UNCHANGED <<Stage, Connected>>
  <2>1. CASE New
    <3>1. /\ Stage = "unmade" /\ ~Connected
          /\ \/ Stage' = "open" /\ Connected'
             \/ Stage' = "closed" /\ UNCHANGED Connected
      BY <2>1, ActorsAssumption DEF New, StageRight, Connected, IInv, CloseStages
    <3> QED
      BY <3>1 DEF Topic!Move
  <2>2. ASSUME NEW c \in Closers, CloseNothing(c)
        PROVE  UNCHANGED <<Stage, Connected>>
    BY <2>2 DEF CloseNothing, Wait, StageRight, Connected, IInv, TypeOK
  <2>3. ASSUME NEW c \in Closers, CloseFirst(c)
        PROVE  Topic!Move
    <3>1. Stage = "open" /\ Stage' = "closing"
      BY <2>3, ActorsAssumption DEF CloseFirst, StageRight
    <3>2. UNCHANGED Connected
      BY <2>3 DEF CloseFirst, Connected, IInv, CloseStages
    <3> QED
      BY <3>1, <3>2 DEF Topic!Move
  <2>4. ASSUME NEW c \in Closers, ClientClosed(c)
        PROVE  Topic!Move
    <3>1. made = "made" /\ once \in Closers /\ client = "closing"
      BY <2>4, ActorsAssumption DEF ClientClosed, IInv, TypeOK, CloseStages
    <3>2. Stage = "closing" /\ Stage' = "closing" /\ Connected /\ ~Connected'
      BY <2>4, <3>1 DEF ClientClosed, StageRight, Connected
    <3> QED
      BY <3>2 DEF Topic!Move
  <2>5. ASSUME NEW c \in Closers, Cleared(c)
        PROVE  Topic!Move
    <3>1. made = "made" /\ once \in Closers /\ client = "closed"
      BY <2>5, ActorsAssumption DEF Cleared, IInv, TypeOK, CloseStages
    <3>2. Stage = "closing" /\ Stage' = "closed" /\ ~Connected /\ UNCHANGED Connected
      BY <2>5, <3>1 DEF Cleared, StageRight, Connected
    <3> QED
      BY <3>2 DEF Topic!Move
  <2> QED
    BY <2>1, <2>2, <2>3, <2>4, <2>5 DEF Close
<1> QED
  BY <1>2, <1>3 DEF Topic!Next, Topic!AdvanceStage

(***************************************************************************)
(* However many goroutines publish and close at once, the producer is a    *)
(* ClosableTopic: what its two unlocked reads of p.producer let through    *)
(* shows itself as an error or a panic of a Publish that met a Close, never*)
(* as a record stored after a Close has returned, nor as a record stored by*)
(* a Publish that began after it (producer.go:79-134).                     *)
(***************************************************************************)
THEOREM ImplementsTopic == Spec => PublishesUntilClosed
<1>1. Init => Unsent /\ Topic!Init
  <2> SUFFICES ASSUME Init PROVE Unsent /\ Topic!Init
    OBVIOUS
  <2>1. Unsent
    BY DEF Init, Unsent
  <2>2. Stage = "unmade" /\ Connected = FALSE
    BY DEF Init, Stage, Connected
  <2>3. Answers = [p \in Publishers |-> "none"]
    BY DEF Init, Answers, AnswerTo
  <2>4. Senders = <<>>
    BY DEF Init, Senders
  <2> QED
    BY <2>1, <2>2, <2>3, <2>4 DEF Topic!Init
<1>2. IInv /\ Unsent => StageRight
  BY StageFromOnce
<1>3. /\ IInv /\ Unsent /\ StageRight /\ StageRight' /\ [Next]_vars
      => [Topic!Next]_<<Stage, Connected, Answers, Senders>>
  <2> SUFFICES ASSUME IInv, Unsent, StageRight, StageRight', [Next]_vars
               PROVE  Topic!Next \/ UNCHANGED <<Stage, Connected, Answers, Senders>>
    OBVIOUS
  <2>1. CASE UNCHANGED vars
    BY <2>1 DEF vars, closeVars, publishVars, Stage, HasClosed, Closing, Connected, Answers,
              AnswerTo, Senders
  <2>2. CASE New \/ \E c \in Closers : Close(c)
    BY <2>2, CloseOnTopic
  <2>3. CASE \E p \in Publishers : Publish(p)
    BY <2>3, PublishOnTopic
  <2> QED
    BY <2>1, <2>2, <2>3 DEF Next, Quiet
<1> QED
  BY <1>1, <1>2, <1>3, UnsentStep, Invariance, PTL
     DEF Spec, PublishesUntilClosed, Topic!Spec, Topic!topicVars
=============================================================================
