-------------------------- MODULE ModuleInitProofs --------------------------
(***************************************************************************)
(* Proofs about ModuleInit, for every registration of modules.             *)
(***************************************************************************)
EXTENDS ModuleInit, FiniteSetTheorems, WellFoundedInduction, TLAPS

Placed == Before(Len(ordered) + 1)

\* Kahn's loop invariant: a node's in-degree counts its prerequisites not yet
\* placed, and the queue holds the unplaced nodes that have none left.
Counting ==
    phase = "sort" =>
        /\ \A j \in Enabled : inDegree[j] = Cardinality(DependsOn(j) \ Placed)
        /\ ready = {j \in Enabled \ Placed : DependsOn(j) \subseteq Placed}

Topological == \A k \in 1 .. Len(ordered) : DependsOn(ordered[k]) \subseteq Before(k)

NothingYet ==
    /\ phase = "check" => ordered = <<>>
    /\ phase \in {"check", "sort"} => inits = 0 /\ result = "none"

\* No module is placed twice, and what Execute answers is the truth.
Distinct == \A k \in 1 .. Len(ordered) : ordered[k] \notin Before(k)

Verdict ==
    /\ phase = "init" => Placed = Enabled /\ result = "none"
    /\ result = "cycle" => Cyclic /\ inits = 0
    /\ result = "rejected" => inits = 0
    /\ result = "ok" => Placed = Enabled /\ inits = Len(ordered)

IInv ==
    /\ TypeOK /\ Counting /\ Topological /\ NothingYet
    /\ Distinct /\ Verdict /\ EarliestRegisteredFirst

-----------------------------------------------------------------------------
\* A registration is finite, so every set of modules is.
LEMMA EnabledFinite ==
    ASSUME TypeOK
    PROVE  /\ IsFiniteSet(Enabled)
           /\ Enabled \subseteq Nat
           /\ \A j : DependsOn(j) \subseteq Enabled /\ IsFiniteSet(DependsOn(j))
<1>1. modules \in Seq(Modules) /\ DOMAIN modules = 1 .. Len(modules) /\ Len(modules) \in Nat
  BY DEF TypeOK
<1>2. Enabled \subseteq 1 .. Len(modules)
  BY <1>1 DEF Enabled, Indices
<1>3. IsFiniteSet(1 .. Len(modules))
  BY <1>1, FS_Interval
<1>4. IsFiniteSet(Enabled)
  BY <1>2, <1>3, FS_Subset
<1>5. \A j : DependsOn(j) \subseteq Enabled
  BY DEF DependsOn
<1> QED
  BY <1>1, <1>2, <1>4, <1>5, FS_Subset

\* Appending a module places it and moves no other.
LEMMA AppendPlaces ==
    ASSUME TypeOK, NEW i \in Enabled, ordered' = Append(ordered, i)
    PROVE  /\ Len(ordered') = Len(ordered) + 1
           /\ Placed' = Placed \cup {i}
           /\ \A k \in 1 .. Len(ordered) : ordered'[k] = ordered[k]
           /\ ordered'[Len(ordered) + 1] = i
           /\ \A k \in 1 .. Len(ordered) + 1 : Before(k)' = Before(k)
<1>1. ordered \in Seq(Enabled) /\ Len(ordered) \in Nat
  BY DEF TypeOK
<1>2. Len(ordered') = Len(ordered) + 1
  BY <1>1
<1>3. \A k \in 1 .. Len(ordered) : ordered'[k] = ordered[k]
  BY <1>1
<1>4. ordered'[Len(ordered) + 1] = i
  BY <1>1
<1>5. \A k \in 1 .. Len(ordered) + 1 : Before(k)' = Before(k)
  BY <1>1, <1>3 DEF Before
<1>6. Placed' = {ordered'[j] : j \in 1 .. Len(ordered) + 1}
  BY <1>1, <1>2 DEF Placed, Before
<1>7. Placed = {ordered[j] : j \in 1 .. Len(ordered)}
  BY <1>1 DEF Placed, Before
<1>8. Placed' = Placed \cup {i}
  BY <1>1, <1>3, <1>4, <1>6, <1>7
<1> QED
  BY <1>2, <1>3, <1>4, <1>5, <1>8

\* The one step that needs an argument: placing a ready module keeps the
\* counts right, and frees exactly the dependents whose count was one.
LEMMA PopKeepsCounting ==
    ASSUME IInv, Pop
    PROVE  Counting' /\ Topological' /\ Distinct' /\ EarliestRegisteredFirst'
<1>1. PICK i \in ready :
        /\ First(i)
        /\ ordered' = Append(ordered, i)
        /\ inDegree' = [j \in Enabled |->
                IF j \in Dependents(i) THEN inDegree[j] - 1 ELSE inDegree[j]]
        /\ ready' = (ready \ {i}) \cup Released(i)
  BY DEF Pop
<1>2. /\ phase = "sort" /\ phase' = "sort"
      /\ Enabled' = Enabled
      /\ \A j : DependsOn(j)' = DependsOn(j)
  BY DEF Pop, Enabled, Indices, DependsOn, NormalDeps
<1>3. /\ \A j \in Enabled : inDegree[j] = Cardinality(DependsOn(j) \ Placed)
      /\ ready = {j \in Enabled \ Placed : DependsOn(j) \subseteq Placed}
  BY <1>2 DEF IInv, Counting
<1>4. i \in Enabled /\ i \notin Placed /\ DependsOn(i) \subseteq Placed
  BY <1>3
<1>5. /\ Len(ordered') = Len(ordered) + 1
      /\ Placed' = Placed \cup {i}
      /\ \A k \in 1 .. Len(ordered) : ordered'[k] = ordered[k]
      /\ ordered'[Len(ordered) + 1] = i
      /\ \A k \in 1 .. Len(ordered) + 1 : Before(k)' = Before(k)
  BY <1>1, <1>4, AppendPlaces DEF IInv
<1>6. Topological'
  <2>1. Len(ordered) \in Nat
    BY DEF IInv, TypeOK
  <2>2. SUFFICES ASSUME NEW k \in 1 .. Len(ordered) + 1
                 PROVE  DependsOn(ordered'[k]) \subseteq Before(k)'
    BY <1>2, <1>5 DEF Topological
  <2>3. CASE k \in 1 .. Len(ordered)
    BY <1>5, <2>3 DEF IInv, Topological
  <2>4. CASE k = Len(ordered) + 1
    BY <1>4, <1>5, <2>1, <2>4 DEF Placed
  <2> QED
    BY <2>1, <2>3, <2>4
\* A module already placed has all its prerequisites placed.
<1>7. \A j \in Placed : DependsOn(j) \subseteq Placed
  <2>1. ASSUME NEW k \in 1 .. Len(ordered)
        PROVE  DependsOn(ordered[k]) \subseteq Placed
    <3>1. Len(ordered) \in Nat
      BY DEF IInv, TypeOK
    <3>2. Before(k) \subseteq Placed
      BY <3>1 DEF Before, Placed
    <3> QED
      BY <3>2 DEF IInv, Topological
  <2>2. Placed = {ordered[k] : k \in 1 .. Len(ordered)}
    BY DEF IInv, TypeOK, Placed, Before
  <2> QED
    BY <2>1, <2>2
<1>8. ASSUME NEW j \in Enabled
      PROVE  /\ inDegree'[j] = Cardinality(DependsOn(j) \ Placed')
             /\ j \in Released(i) <=> /\ i \in DependsOn(j)
                                      /\ DependsOn(j) \subseteq Placed'
  <2> DEFINE Left == DependsOn(j) \ Placed
  <2>1. IsFiniteSet(Left) /\ Cardinality(Left) \in Nat /\ inDegree[j] = Cardinality(Left)
    BY <1>3, EnabledFinite, FS_Subset, FS_CardinalityType DEF IInv
  <2>2. DependsOn(j) \ Placed' = Left \ {i}
    BY <1>5
  <2>3. j \in Dependents(i) <=> i \in Left
    BY <1>4 DEF Dependents
  <2>4. /\ IsFiniteSet(Left \ {i})
        /\ Cardinality(Left \ {i}) = IF i \in Left THEN Cardinality(Left) - 1 ELSE Cardinality(Left)
    BY <2>1, FS_RemoveElement
  <2>5. Cardinality(Left \ {i}) = 0 <=> Left \ {i} = {}
    BY <2>4, FS_EmptySet
  <2>6. inDegree'[j] = Cardinality(Left \ {i})
    BY <1>1, <2>1, <2>3, <2>4
  <2>7. j \in Released(i) <=> i \in Left /\ Cardinality(Left) = 1
    BY <2>1, <2>3 DEF Released
  <2>8. i \in Left => (Cardinality(Left) = 1 <=> Left \ {i} = {})
    BY <2>1, <2>4, <2>5
  <2>9. Left \ {i} = {} <=> DependsOn(j) \subseteq Placed'
    BY <1>5
  <2>10. i \in Left <=> i \in DependsOn(j)
    BY <1>4
  <2> QED
    BY <2>2, <2>6, <2>7, <2>8, <2>9, <2>10
<1>9. ready' = {j \in Enabled \ Placed' : DependsOn(j) \subseteq Placed'}
  <2>1. Released(i) \subseteq Enabled
    BY DEF Released, Dependents
  <2>2. ASSUME NEW j \in Enabled
        PROVE  j \in ready' <=> j \notin Placed' /\ DependsOn(j) \subseteq Placed'
    <3>1. j \in ready' <=> (j \in ready /\ j # i) \/ j \in Released(i)
      BY <1>1
    <3>2. j \in Released(i) <=> i \in DependsOn(j) /\ DependsOn(j) \subseteq Placed'
      BY <1>8
    <3>3. i \in DependsOn(j) => j \notin Placed /\ j # i
      BY <1>4, <1>7
    <3>4. j \in ready <=> j \notin Placed /\ DependsOn(j) \subseteq Placed
      BY <1>3
    <3> QED
      BY <1>5, <3>1, <3>2, <3>3, <3>4
  <2>3. ready' \subseteq Enabled
    BY <1>1, <1>3, <2>1
  <2> QED
    BY <2>2, <2>3
<1>10. Distinct'
  <2>1. Len(ordered) \in Nat
    BY DEF IInv, TypeOK
  <2>2. SUFFICES ASSUME NEW k \in 1 .. Len(ordered) + 1
                 PROVE  ordered'[k] \notin Before(k)'
    BY <1>5 DEF Distinct
  <2>3. CASE k \in 1 .. Len(ordered)
    BY <1>5, <2>3 DEF IInv, Distinct
  <2>4. CASE k = Len(ordered) + 1
    BY <1>4, <1>5, <2>1, <2>4 DEF Placed
  <2> QED
    BY <2>1, <2>3, <2>4
<1>11. EarliestRegisteredFirst'
  <2>1. Len(ordered) \in Nat /\ ordered \in Seq(Enabled) /\ ordered' \in Seq(Enabled)
    BY <1>1, <1>4 DEF IInv, TypeOK
  <2> DEFINE Could(k) == {j \in Enabled \ Before(k) : DependsOn(j) \subseteq Before(k)}
  <2>2. ASSUME NEW k \in 1 .. Len(ordered) + 1
        PROVE  ordered'[k] \in Could(k) /\ \A j \in Could(k) : ordered'[k] <= j
    <3>1. CASE k \in 1 .. Len(ordered)
      BY <1>5, <2>1, <3>1 DEF IInv, EarliestRegisteredFirst
    <3>2. CASE k = Len(ordered) + 1
      <4>1. Could(k) = ready
        BY <1>3, <3>2 DEF Placed
      <4> QED
        BY <1>1, <1>5, <3>2, <4>1 DEF First
    <3> QED
      BY <2>1, <3>1, <3>2
  <2>3. DOMAIN ordered' = 1 .. Len(ordered) + 1
    BY <1>5, <2>1
  <2>4. \A k \in 1 .. Len(ordered) + 1 :
          {j \in Enabled' \ Before(k)' : DependsOn(j)' \subseteq Before(k)'} = Could(k)
    BY <1>2, <1>5
  <2> HIDE DEF Could
  <2> QED
    BY <2>2, <2>3, <2>4 DEF EarliestRegisteredFirst
<1> QED
  BY <1>2, <1>6, <1>8, <1>9, <1>10, <1>11 DEF Counting

\* A set of naturals that is not empty has a least element.
LEMMA LeastNat ==
    ASSUME NEW T, T \subseteq Nat, T # {}
    PROVE  \E k \in T : \A j \in T : k <= j
<1> DEFINE R == OpToRel(<, Nat)
<1>1. IsWellFoundedOn(R, Nat)
  BY NatLessThanWellFounded
<1>2. PICK k \in T : \A j \in T : <<j, k>> \notin R
  <2> HIDE DEF R
  <2> QED
    BY <1>1, WFMin
<1>3. \A j \in T : ~(j < k)
  BY <1>2 DEF OpToRel
<1> QED
  BY <1>3

\* A complete order leaves no room for a cycle: of the modules that would
\* form one, the first placed depends on none of the others.
LEMMA CompleteOrderIsAcyclic ==
    ASSUME TypeOK, Topological, Placed = Enabled
    PROVE  ~Cyclic
<1> SUFFICES ASSUME NEW S \in SUBSET Enabled, S # {},
                    \A i \in S : DependsOn(i) \cap S # {}
             PROVE  FALSE
  BY DEF Cyclic
<1>1. Len(ordered) \in Nat /\ Placed = {ordered[k] : k \in 1 .. Len(ordered)}
  BY DEF TypeOK, Placed, Before
<1> DEFINE K == {k \in 1 .. Len(ordered) : ordered[k] \in S}
<1>2. K \subseteq Nat /\ K # {}
  BY <1>1
<1>3. PICK k \in K : \A j \in K : k <= j
  BY <1>2, LeastNat
<1>4. DependsOn(ordered[k]) \subseteq Before(k)
  BY <1>3 DEF Topological
<1>5. PICK j \in 1 .. k - 1 : ordered[j] \in S
  BY <1>3, <1>4 DEF Before
<1>6. j \in K /\ j < k
  BY <1>1, <1>3, <1>5
<1> QED
  BY <1>1, <1>3, <1>6

\* Without repetition, comparing lengths tells whether all are placed.
LEMMA LengthTellsAll ==
    ASSUME TypeOK, Distinct
    PROVE  SortedAll <=> Placed = Enabled
<1>1. /\ Len(ordered) \in Nat
      /\ ordered \in [1 .. Len(ordered) -> Enabled]
      /\ Placed = {ordered[k] : k \in 1 .. Len(ordered)}
  BY DEF TypeOK, Placed, Before
<1>2. \A k \in 1 .. Len(ordered) : \A j \in 1 .. k - 1 : ordered[j] # ordered[k]
  BY DEF Distinct, Before
<1>3. \A j, k \in 1 .. Len(ordered) : ordered[j] = ordered[k] => j = k
  <2> SUFFICES ASSUME NEW j \in 1 .. Len(ordered), NEW k \in 1 .. Len(ordered),
                      ordered[j] = ordered[k], j # k
               PROVE  FALSE
    OBVIOUS
  <2>1. j \in 1 .. k - 1 \/ k \in 1 .. j - 1
    BY <1>1
  <2> QED
    BY <1>2, <2>1
<1>4. ordered \in Injection(1 .. Len(ordered), Enabled)
  BY <1>1, <1>3 DEF Injection, IsInjective
<1>5. Cardinality(1 .. Len(ordered)) = Len(ordered)
  BY <1>1, FS_Interval
<1>6. SortedAll <=> ordered \in Surjection(1 .. Len(ordered), Enabled)
  BY <1>4, <1>5, EnabledFinite, FS_Injection DEF SortedAll
<1>7. ordered \in Surjection(1 .. Len(ordered), Enabled) <=> Placed = Enabled
  BY <1>1 DEF Surjection
<1> QED
  BY <1>6, <1>7

-----------------------------------------------------------------------------
\* The inductive invariant, from TypeOK and Kahn's loop invariant.
LEMMA InitIInv == Init => IInv
<1> SUFFICES ASSUME Init PROVE IInv
  OBVIOUS
<1>1. TypeOK
  BY RegistrationsAssumption DEF Init, TypeOK
<1>2. Counting /\ Topological /\ NothingYet /\ Distinct /\ Verdict
  BY DEF Init, Counting, Topological, NothingYet, Distinct, Verdict
<1>3. EarliestRegisteredFirst
  BY DEF Init, EarliestRegisteredFirst
<1> QED
  BY <1>1, <1>2, <1>3 DEF IInv

LEMMA NextIInv == IInv /\ [Next]_vars => IInv'
<1> SUFFICES ASSUME IInv, [Next]_vars PROVE IInv'
  OBVIOUS
<1>0. /\ Len(ordered) \in Nat /\ ordered \in Seq(Enabled)
      /\ IsFiniteSet(Enabled)
      /\ \A j : IsFiniteSet(DependsOn(j)) /\ DependsOn(j) \subseteq Enabled
  BY EnabledFinite DEF IInv, TypeOK
<1>1. modules' = modules
  BY DEF IInv, Next, vars, Reject, Count, Pop, SortDone, InitModule, Finish, Returned
<1>2. /\ Enabled' = Enabled
      /\ \A j : DependsOn(j)' = DependsOn(j)
  BY <1>1 DEF Enabled, Indices, DependsOn, NormalDeps
<1>3. CASE ordered' = ordered /\ phase' # "sort"
        /\ inDegree' = inDegree /\ ready' = ready
        /\ inits' \in 0 .. Len(ordered)
        /\ phase' \in {"check", "sort", "init", "done"}
        /\ result' \in {"none", "rejected", "cycle", "initFailed", "ok"}
        /\ NothingYet' /\ Verdict'
  <2>1. TypeOK'
    BY <1>1, <1>2, <1>3 DEF IInv, TypeOK
  <2>2. Topological' /\ Distinct' /\ EarliestRegisteredFirst'
    BY <1>2, <1>3 DEF IInv, Topological, Distinct, Before, EarliestRegisteredFirst
  <2>3. Counting'
    BY <1>3 DEF Counting
  <2> QED
    BY <1>3, <2>1, <2>2, <2>3 DEF IInv
<1>4. CASE Reject
  BY <1>3, <1>4 DEF Reject, End, IInv, TypeOK, NothingYet, Verdict
<1>5. CASE Count
  <2>1. /\ ordered = <<>> /\ ordered' = <<>> /\ inits' = 0 /\ inits = 0 /\ phase' = "sort"
        /\ inDegree' = [i \in Enabled |-> Cardinality(DependsOn(i))]
        /\ ready' = {i \in Enabled : DependsOn(i) = {}}
        /\ result' = result
    BY <1>5 DEF Count, Prerequisites, IInv, NothingYet
  <2>2. \A j : Cardinality(DependsOn(j)) \in Nat
    BY <1>0, FS_CardinalityType
  <2>3. TypeOK'
    BY <1>1, <1>2, <2>1, <2>2 DEF IInv, TypeOK
  <2>4. Placed' = {}
    BY <2>1 DEF Placed, Before
  <2>5. Counting'
    BY <1>2, <2>1, <2>4 DEF Counting
  <2>6. Topological' /\ NothingYet' /\ Distinct' /\ EarliestRegisteredFirst'
    BY <1>5, <2>1 DEF Count, Prerequisites, IInv, Topological, NothingYet, Distinct, EarliestRegisteredFirst
  <2>7. Verdict'
    BY <1>5, <2>1 DEF Count, Prerequisites, IInv, NothingYet, Verdict
  <2> QED
    BY <2>3, <2>5, <2>6, <2>7 DEF IInv
<1>6. CASE Pop
  <2>1. Counting' /\ Topological' /\ Distinct' /\ EarliestRegisteredFirst'
    BY <1>6, PopKeepsCounting
  <2>2. PICK i \in ready : /\ ordered' = Append(ordered, i)
                           /\ inDegree' = [j \in Enabled |->
                                IF j \in Dependents(i) THEN inDegree[j] - 1 ELSE inDegree[j]]
                           /\ ready' = (ready \ {i}) \cup Released(i)
    BY <1>6 DEF Pop
  <2>3. phase = "sort" /\ phase' = "sort" /\ inits' = inits /\ result' = "none" /\ result = "none" /\ inits = 0
    BY <1>6 DEF Pop, IInv, NothingYet
  <2>4. i \in Enabled
    BY DEF IInv, TypeOK
  <2>5. ordered' \in Seq(Enabled) /\ Len(ordered') \in Nat
    BY <1>0, <2>2, <2>4
  <2>6. ready' \subseteq Enabled
    BY <2>2 DEF IInv, TypeOK, Released, Dependents
  <2>7. inDegree' \in [Enabled -> Nat]
    <3>1. \A j \in Enabled : inDegree'[j] = Cardinality(DependsOn(j) \ Placed')
      BY <1>2, <2>1, <2>3 DEF Counting
    <3>2. \A j : Cardinality(DependsOn(j) \ Placed') \in Nat
      BY <1>0, FS_Subset, FS_CardinalityType
    <3> QED
      BY <2>2, <3>1, <3>2
  <2>8. TypeOK'
    BY <1>1, <1>2, <2>3, <2>5, <2>6, <2>7 DEF IInv, TypeOK
  <2>9. NothingYet' /\ Verdict'
    BY <2>3 DEF NothingYet, Verdict
  <2> QED
    BY <2>1, <2>8, <2>9 DEF IInv
<1>7. CASE SortDone
  <2>1. phase = "sort" /\ ready = {} /\ inits = 0 /\ inits' = 0 /\ ordered' = ordered
        /\ inDegree' = inDegree /\ ready' = ready /\ result = "none"
    BY <1>7 DEF SortDone, IInv, NothingYet
  <2>2. Placed' = Placed
    BY <2>1 DEF Placed, Before
  <2>3. CASE SortedAll /\ phase' = "init" /\ UNCHANGED result
    <3>1. Placed = Enabled
      BY <2>3, LengthTellsAll DEF IInv
    <3>2. NothingYet' /\ Verdict'
      BY <1>2, <2>1, <2>2, <2>3, <3>1 DEF NothingYet, Verdict
    <3> QED
      BY <1>0, <1>3, <2>1, <2>3, <3>2
  <2>4. CASE ~SortedAll /\ End("cycle")
    <3>1. Placed # Enabled /\ Placed \subseteq Enabled
      BY <1>0, <2>4, LengthTellsAll DEF IInv, Placed, Before
    <3>2. \A j \in Enabled \ Placed : ~(DependsOn(j) \subseteq Placed)
      BY <2>1 DEF IInv, Counting
    <3>3. \A j \in Enabled \ Placed : DependsOn(j) \cap (Enabled \ Placed) # {}
      BY <1>0, <3>2
    <3>4. Cyclic
      BY <3>1, <3>3 DEF Cyclic
    <3>5. Cyclic'
      BY <1>2, <3>4 DEF Cyclic
    <3>6. NothingYet' /\ Verdict'
      BY <2>1, <2>4, <3>5 DEF End, NothingYet, Verdict
    <3> QED
      BY <1>0, <1>3, <2>1, <2>4, <3>6 DEF End
  <2> QED
    BY <1>7, <2>3, <2>4 DEF SortDone
<1>8. CASE InitModule
  <2>1. phase = "init" /\ inits < Len(ordered) /\ inits \in Nat
        /\ Placed = Enabled /\ result = "none"
        /\ inDegree' = inDegree /\ ready' = ready /\ ordered' = ordered
    BY <1>8 DEF InitModule, MoreToInit, IInv, TypeOK, Verdict
  <2>2. Placed' = Placed
    BY <2>1 DEF Placed, Before
  <2>3. inits' \in 0 .. Len(ordered)
    BY <1>0, <1>8, <2>1 DEF InitModule
  <2>4. \/ phase' = "init" /\ result' = "none"
        \/ phase' = "done" /\ result' = "initFailed"
    BY <1>8, <2>1 DEF InitModule, End
  <2>5. NothingYet' /\ Verdict'
    BY <1>2, <2>1, <2>2, <2>4 DEF NothingYet, Verdict
  <2> QED
    BY <1>3, <2>1, <2>3, <2>4, <2>5
<1>9. CASE Finish
  <2>1. phase = "init" /\ inits = Len(ordered) /\ inits' = inits
        /\ Placed = Enabled /\ phase' = "done" /\ result' = "ok"
        /\ inDegree' = inDegree /\ ready' = ready /\ ordered' = ordered
    BY <1>9 DEF Finish, End, IInv, Verdict
  <2>2. Placed' = Placed
    BY <2>1 DEF Placed, Before
  <2>3. NothingYet' /\ Verdict'
    BY <1>2, <2>1, <2>2 DEF NothingYet, Verdict
  <2> QED
    BY <1>0, <1>3, <2>1, <2>3
<1>10. CASE UNCHANGED vars
  <2>1. /\ phase' = phase /\ inDegree' = inDegree /\ ready' = ready
        /\ ordered' = ordered /\ inits' = inits /\ result' = result
    BY <1>10 DEF vars
  <2>2. Placed' = Placed /\ \A k : Before(k)' = Before(k)
    BY <2>1 DEF Placed, Before
  <2>3. TypeOK'
    BY <1>1, <1>2, <2>1 DEF IInv, TypeOK
  <2>4. Counting' /\ Topological' /\ NothingYet' /\ Distinct'
    BY <1>2, <2>1, <2>2 DEF IInv, Counting, Topological, NothingYet, Distinct
  <2>7. EarliestRegisteredFirst'
    BY <1>2, <2>1, <2>2 DEF IInv, EarliestRegisteredFirst
  <2>5. Cyclic' <=> Cyclic
    BY <1>2 DEF Cyclic
  <2>6. Verdict'
    BY <1>2, <2>1, <2>2, <2>5 DEF IInv, Verdict
  <2> QED
    BY <2>3, <2>4, <2>6, <2>7 DEF IInv
<1> QED
  BY <1>4, <1>5, <1>6, <1>7, <1>8, <1>9, <1>10 DEF Next, Returned

LEMMA Invariance == Spec => []IInv
  BY InitIInv, NextIInv, PTL DEF Spec

\* Every reachable state is well typed; in particular no in-degree goes below
\* zero and no Init is called past the end of the order (api.go:122, 152).
THEOREM TypeCorrect == Spec => []TypeOK
<1>1. IInv => TypeOK
  BY DEF IInv
<1> QED
  BY <1>1, Invariance, PTL

\* Whatever the modules and their dependencies, none is initialised before
\* what it depends on has been, successfully (api.go:115-130, 152-157).
THEOREM InitOrderSound == Spec => []DependenciesFirst
<1>1. IInv => DependenciesFirst
  <2> SUFFICES ASSUME IInv PROVE DependenciesFirst
    OBVIOUS
  <2>1. /\ Len(ordered) \in Nat /\ inits \in 0 .. Len(ordered)
        /\ \A k \in 1 .. Len(ordered) : DependsOn(ordered[k]) \subseteq Before(k)
    BY DEF IInv, TypeOK, Topological
  <2>2. ASSUME NEW i \in Succeeded
        PROVE  DependsOn(i) \subseteq Succeeded
    <3>1. PICK k \in 1 .. inits : i = ordered[k]
      BY <2>1 DEF Succeeded, Before
    <3>2. DependsOn(i) \subseteq Before(k)
      BY <2>1, <3>1
    <3>3. Before(k) \subseteq Succeeded
      BY <2>1 DEF Before, Succeeded
    <3> QED
      BY <3>2, <3>3
  <2>4. inits < Len(ordered) => DependsOn(NextToInit) \subseteq Succeeded
    BY <2>1 DEF NextToInit, Succeeded
  <2> QED
    BY <2>2, <2>4 DEF DependenciesFirst
<1> QED
  BY <1>1, Invariance, PTL

\* For every registration, Sort refuses a graph only if it has a cycle, never
\* starts initialising one that has, places every enabled module otherwise,
\* and "ok" means that all of them were initialised (api.go:132-143, 152-159).
THEOREM SortDecidesCycles == Spec => []CyclesRefused
<1>1. IInv => CyclesRefused
  <2> SUFFICES ASSUME IInv PROVE CyclesRefused
    OBVIOUS
  <2>1. phase = "init" => ~Cyclic
    BY CompleteOrderIsAcyclic DEF IInv, Verdict
  <2>2. phase = "init" => Placed = Enabled
    BY DEF IInv, Verdict
  <2>3. result = "ok" => Succeeded = Enabled
    BY DEF IInv, Verdict, Placed, Succeeded
  <2>4. inits = 0 => Succeeded = {}
    BY DEF Succeeded, Before
  <2> QED
    BY <2>1, <2>2, <2>3, <2>4 DEF IInv, Verdict, CyclesRefused, Placed
<1> QED
  BY <1>1, Invariance, PTL

\* For every registration the order is the predictable one: at each place the
\* earliest registered module whose dependencies are placed (api.go:104-130).
THEOREM OrderPredictable == Spec => []EarliestRegisteredFirst
<1>1. IInv => EarliestRegisteredFirst
  BY DEF IInv
<1> QED
  BY <1>1, Invariance, PTL

-----------------------------------------------------------------------------
\* An order in which each place holds the earliest registered module that is
\* ready for it, as a notion of its own.
Preceding(o, k) == {o[j] : j \in 1 .. k - 1}
CouldFollow(o, k) ==
    {i \in Enabled \ Preceding(o, k) : DependsOn(i) \subseteq Preceding(o, k)}
EarliestFirst(o) ==
    \A k \in DOMAIN o :
        o[k] \in CouldFollow(o, k) /\ \A i \in CouldFollow(o, k) : o[k] <= i

\* Two orders that agree up to a place have the same choice there.
LEMMA SameChoice ==
    ASSUME TypeOK, NEW o \in Seq(Enabled), NEW p \in Seq(Enabled),
           EarliestFirst(o), EarliestFirst(p),
           NEW k \in DOMAIN o \cap DOMAIN p,
           \A j \in 1 .. k - 1 : o[j] = p[j]
    PROVE  o[k] = p[k]
<1>1. Preceding(o, k) = Preceding(p, k)
  BY DEF Preceding
<1>2. CouldFollow(o, k) = CouldFollow(p, k)
  BY <1>1 DEF CouldFollow
<1>3. o[k] \in CouldFollow(o, k) /\ p[k] \in CouldFollow(o, k)
  BY <1>2 DEF EarliestFirst
<1>4. o[k] <= p[k] /\ p[k] <= o[k]
  BY <1>2, <1>3 DEF EarliestFirst
<1>5. o[k] \in Nat /\ p[k] \in Nat
  BY <1>3, EnabledFinite DEF CouldFollow
<1> QED
  BY <1>4, <1>5

LEMMA OneOrder ==
    ASSUME IInv, NEW o \in Seq(Enabled), EarliestFirst(o)
    PROVE  \A k \in DOMAIN o \cap DOMAIN ordered : o[k] = ordered[k]
<1>1. ordered \in Seq(Enabled) /\ TypeOK
  BY DEF IInv, TypeOK
<1>2. EarliestFirst(ordered)
  BY DEF IInv, EarliestRegisteredFirst, EarliestFirst, CouldFollow, Preceding, Before
<1> DEFINE Common == DOMAIN o \cap DOMAIN ordered
           Differ == {k \in Common : o[k] # ordered[k]}
<1>3. /\ Common \subseteq Nat \ {0}
      /\ \A k \in Common : 1 .. k - 1 \subseteq Common
  <2>1. DOMAIN o = 1 .. Len(o) /\ Len(o) \in Nat
    OBVIOUS
  <2>2. DOMAIN ordered = 1 .. Len(ordered) /\ Len(ordered) \in Nat
    BY <1>1
  <2> QED
    BY <2>1, <2>2
<1>4. SUFFICES ASSUME Differ # {} PROVE FALSE
  OBVIOUS
<1>5. PICK k \in Differ : \A j \in Differ : k <= j
  BY <1>3, <1>4, LeastNat
<1>6. \A j \in 1 .. k - 1 : o[j] = ordered[j]
  <2> SUFFICES ASSUME NEW j \in 1 .. k - 1, o[j] # ordered[j] PROVE FALSE
    OBVIOUS
  <2>1. k \in Nat /\ j \in Common /\ j < k
    BY <1>3
  <2> QED
    BY <1>5, <2>1
<1>7. k \in DOMAIN o \cap DOMAIN ordered
  BY <1>5
<1>8. o[k] = ordered[k]
  BY <1>1, <1>2, <1>6, <1>7, SameChoice
<1> QED
  BY <1>5, <1>8

\* The registration alone determines the order: whatever order puts the
\* earliest registered module first agrees with that of Sort at each place, so
\* that no two runs of Execute on a registration differ (api.go:104-130).
THEOREM OrderDetermined ==
    Spec => [](\A o \in Seq(Enabled) :
                  EarliestFirst(o) => \A k \in DOMAIN o \cap DOMAIN ordered : o[k] = ordered[k])
<1>1. IInv => \A o \in Seq(Enabled) :
                  EarliestFirst(o) => \A k \in DOMAIN o \cap DOMAIN ordered : o[k] = ordered[k]
  BY OneOrder
<1> QED
  BY <1>1, Invariance, PTL

-----------------------------------------------------------------------------
\* How far Execute has come: places filled, then Inits that succeeded.
Total == Cardinality(Enabled)
Progress == CASE phase = "check" -> 0
              [] phase = "sort"  -> 1 + Len(ordered)
              [] phase = "init"  -> 2 + Total + inits
              [] phase = "done"  -> 3 + 2 * Total

\* A module has one place at most.
Bounded == Total \in Nat /\ Len(ordered) \in Nat /\ Len(ordered) <= Total
LEMMA NoMorePlaces == IInv => Bounded
<1> SUFFICES ASSUME IInv PROVE Bounded
  OBVIOUS
<1>1. Len(ordered) \in Nat /\ ordered \in [1 .. Len(ordered) -> Enabled]
  BY DEF IInv, TypeOK
<1>2. IsFiniteSet(Enabled) /\ Total \in Nat
  BY EnabledFinite, FS_CardinalityType DEF IInv, Total
<1>3. \A j, k \in 1 .. Len(ordered) : ordered[j] = ordered[k] => j = k
  <2>1. \A k \in 1 .. Len(ordered) : \A j \in 1 .. k - 1 : ordered[j] # ordered[k]
    BY DEF IInv, Distinct, Before
  <2> SUFFICES ASSUME NEW j \in 1 .. Len(ordered), NEW k \in 1 .. Len(ordered),
                      ordered[j] = ordered[k], j # k
               PROVE  FALSE
    OBVIOUS
  <2>2. j \in 1 .. k - 1 \/ k \in 1 .. j - 1
    BY <1>1
  <2> QED
    BY <2>1, <2>2
<1>4. ordered \in Injection(1 .. Len(ordered), Enabled)
  BY <1>1, <1>3 DEF Injection, IsInjective
<1>5. IsFiniteSet(1 .. Len(ordered)) /\ Cardinality(1 .. Len(ordered)) = Len(ordered)
  BY <1>1, FS_Interval
<1>6. Cardinality(1 .. Len(ordered)) <= Cardinality(Enabled)
  <2>1. IsFiniteSet(Enabled)
    BY <1>2
  <2> QED
    BY <1>4, <2>1, FS_Injection
<1> QED
  BY <1>1, <1>2, <1>5, <1>6 DEF Total, Bounded

\* Every step of Execute brings it forward, and there is an end to that: a
\* registration is worked off in at most 3 + 2 * Total steps, cycles and
\* failing Inits included (api.go:115, 152).  That Execute can always take a
\* step until it has returned is left to the run (ExecuteReturns).
THEOREM AlwaysForward ==
    Spec => [][Progress < Progress' /\ Progress' <= 3 + 2 * Total]_vars
<1>1. IInv /\ Bounded /\ Bounded' /\ [Next]_vars => [Progress < Progress' /\ Progress' <= 3 + 2 * Total]_vars
  <2> SUFFICES ASSUME IInv, Bounded, Bounded', Next, vars' # vars
               PROVE  Progress < Progress' /\ Progress' <= 3 + 2 * Total
    OBVIOUS
  <2>1. /\ Total \in Nat /\ Len(ordered) \in Nat /\ Len(ordered) <= Total
        /\ inits \in Nat /\ inits <= Len(ordered)
    BY DEF IInv, TypeOK, Bounded
  <2>2. modules' = modules
    BY DEF Next, vars, Reject, Count, Pop, SortDone, InitModule, Finish, Returned
  <2>3. Total' = Total
    BY <2>2 DEF Total, Enabled, Indices
  <2>4. CASE Reject
    BY <2>1, <2>3, <2>4 DEF Reject, End, Progress
  <2>5. CASE Count
    <3>1. ordered = <<>> /\ ordered' = <<>>
      BY <2>5 DEF Count, IInv, NothingYet
    <3> QED
      BY <2>1, <2>3, <2>5, <3>1 DEF Count, Progress
  <2>6. CASE Pop
    <3>1. Len(ordered') = Len(ordered) + 1
      BY <2>6, AppendPlaces DEF Pop, IInv, TypeOK
    <3>2. Len(ordered') <= Total
      BY <2>3 DEF Bounded
    <3> QED
      BY <2>1, <2>3, <2>6, <3>1, <3>2 DEF Pop, Progress
  <2>7. CASE SortDone
    <3>1. inits = 0 /\ inits' = inits /\ phase = "sort" /\ phase' \in {"init", "done"}
      BY <2>7 DEF SortDone, End, IInv, NothingYet
    <3> QED
      BY <2>1, <2>3, <3>1 DEF Progress
  <2>8. CASE InitModule
    <3>1. inits < Len(ordered) /\ phase = "init"
      BY <2>8 DEF InitModule, MoreToInit
    <3>2. \/ phase' = "init" /\ inits' = inits + 1
          \/ phase' = "done"
      BY <2>8 DEF InitModule, End
    <3> QED
      BY <2>1, <2>3, <3>1, <3>2 DEF Progress
  <2>9. CASE Finish
    <3>1. phase = "init" /\ phase' = "done"
      BY <2>9 DEF Finish, End
    <3> QED
      BY <2>1, <2>3, <3>1 DEF Progress
  <2> QED
    BY <2>4, <2>5, <2>6, <2>7, <2>8, <2>9 DEF Next, Returned
<1> QED
  BY <1>1, NoMorePlaces, Invariance, PTL DEF Spec
=============================================================================
