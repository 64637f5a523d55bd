----------------------------- MODULE ModuleInit -----------------------------
(***************************************************************************)
(* module/api.go: Execute sorts the registered modules by dependency       *)
(* (Kahn's algorithm, the earliest registered ready module first) and runs *)
(* their Init functions in that order up to the first error.               *)
(*                                                                         *)
(* A module is known by its index in the registration.  A nil module is    *)
(* skipped like a disabled one and is not told apart from it.  Which of    *)
(* the registration errors is reported is left out: all are "rejected".    *)
(***************************************************************************)
EXTENDS Naturals, Sequences, FiniteSets

CONSTANTS
    Names,          \* module names, trimmed
    NoName,         \* the empty name
    Registrations   \* the arguments Execute may be called with

Modules == [name : Names \cup {NoName}, enabled : BOOLEAN, deps : SUBSET (Names \cup {NoName})]
ASSUME NamesAssumption == NoName \notin Names
ASSUME RegistrationsAssumption == Registrations \subseteq Seq(Modules)

VARIABLES
    modules,    \* the registration
    phase,      \* "check", "sort", "init" or "done"
    inDegree,   \* node.inDegree
    ready,      \* the ready queue; sorted whenever it grows, so a set
    ordered,    \* the result of Sort
    inits,      \* how many Init calls returned nil
    result      \* "none", or what Execute returns

vars == <<modules, phase, inDegree, ready, ordered, inits, result>>

Indices == DOMAIN modules
Enabled == {i \in Indices : modules[i].enabled}

\* normalizeDependencies drops empty and repeated names.
NormalDeps(i) == modules[i].deps \ {NoName}
\* nodesByName, once names are known to be unique.
DependsOn(i)  == {j \in Enabled : modules[j].name \in NormalDeps(i)}
Dependents(i) == {j \in Enabled : i \in DependsOn(j)}

TypeOK ==
    /\ modules \in Seq(Modules)
    /\ phase \in {"check", "sort", "init", "done"}
    /\ inDegree \in [Enabled -> Nat]
    /\ ready \subseteq Enabled
    /\ ordered \in Seq(Enabled)
    /\ inits \in 0 .. Len(ordered)
    /\ result \in {"none", "rejected", "cycle", "initFailed", "ok"}

Init ==
    /\ modules \in Registrations
    /\ phase = "check"
    /\ inDegree = [i \in Enabled |-> 0]
    /\ ready = {}
    /\ ordered = <<>>
    /\ inits = 0
    /\ result = "none"

-----------------------------------------------------------------------------
WellNamed ==
    /\ \A i \in Enabled : modules[i].name # NoName
    /\ \A i, j \in Enabled : modules[i].name = modules[j].name => i = j

KnownDependencies ==
    \A i \in Enabled : \A d \in NormalDeps(i) :
        /\ d # modules[i].name
        /\ \E j \in Enabled : modules[j].name = d

End(r) == phase' = "done" /\ result' = r

Reject ==
    /\ phase = "check"
    /\ ~(WellNamed /\ KnownDependencies)
    /\ End("rejected")
    /\ UNCHANGED <<modules, inDegree, ready, ordered, inits>>

\* Count the prerequisites of each node and queue the nodes that have none.
PrerequisitesFlag(i) == IF DependsOn(i) = {} THEN 0 ELSE 1  \* mutant: not counted
Prerequisites(i) == Cardinality(DependsOn(i))

Count ==
    /\ phase = "check"
    /\ WellNamed /\ KnownDependencies
    /\ inDegree' = [i \in Enabled |-> Prerequisites(i)]
    /\ ready' = {i \in Enabled : DependsOn(i) = {}}
    /\ phase' = "sort"
    /\ UNCHANGED <<modules, ordered, inits, result>>

\* Take the first of the queue and release its dependents.
FirstUnsorted(i) == i \in ready  \* mutant: the queue is not kept sorted
First(i) == i \in ready /\ \A j \in ready : i <= j

Released(i) == {j \in Dependents(i) : inDegree[j] = 1}

Pop ==
    /\ phase = "sort"
    /\ \E i \in ready :
        /\ First(i)
        /\ ordered' = Append(ordered, i)
        /\ inDegree' = [j \in Enabled |->
                IF j \in Dependents(i) THEN inDegree[j] - 1 ELSE inDegree[j]]
        /\ ready' = (ready \ {i}) \cup Released(i)
    /\ UNCHANGED <<modules, phase, inits, result>>

SortedAllUnchecked == TRUE  \* mutant: the lengths are not compared
SortedAll == Len(ordered) = Cardinality(Enabled)

\* Nodes left over are on a cycle or behind one.
SortDone ==
    /\ phase = "sort"
    /\ ready = {}
    /\ \/ SortedAll /\ phase' = "init" /\ UNCHANGED result
       \/ ~SortedAll /\ End("cycle")
    /\ UNCHANGED <<modules, inDegree, ready, ordered, inits>>

-----------------------------------------------------------------------------
\* Execute: the next Init in order, which may fail.
NextToInit == ordered[inits + 1]

MoreToInitPastEnd  == inits <= Len(ordered)      \* mutant
MoreToInitButLast  == inits + 1 < Len(ordered)   \* mutant
MoreToInit == inits < Len(ordered)

InitModule ==
    /\ phase = "init"
    /\ MoreToInit
    /\ \/ /\ inits' = inits + 1
          /\ UNCHANGED <<phase, result>>
       \/ /\ End("initFailed")
          /\ UNCHANGED inits
    /\ UNCHANGED <<modules, inDegree, ready, ordered>>

Finish ==
    /\ phase = "init"
    /\ inits = Len(ordered)
    /\ End("ok")
    /\ UNCHANGED <<modules, inDegree, ready, ordered, inits>>

\* Execute has returned.
Returned == phase = "done" /\ UNCHANGED vars

Next == Reject \/ Count \/ Pop \/ SortDone \/ InitModule \/ Finish \/ Returned

Spec == Init /\ [][Next]_vars
FairSpec == Spec /\ WF_vars(Next)

-----------------------------------------------------------------------------
\* The modules placed before position k, and those whose Init returned nil.
Before(k) == {ordered[j] : j \in 1 .. k - 1}
Succeeded == Before(inits + 1)

(***************************************************************************)
(* A module is initialised only after every module it depends on, and only *)
(* when those succeeded (api.go:115-130, 152-157): the set of modules that *)
(* succeeded is closed under dependency, and the one whose Init is called  *)
(* next depends on none outside it.                                        *)
(***************************************************************************)
DependenciesFirst ==
    /\ \A i \in Succeeded : DependsOn(i) \subseteq Succeeded
    /\ phase = "init" /\ inits < Len(ordered) => DependsOn(NextToInit) \subseteq Succeeded

(***************************************************************************)
(* Sort refuses exactly the cyclic graphs.  The reference: a graph has a   *)
(* cycle when some modules all depend on one of themselves.  An accepted   *)
(* graph has all its modules in the order, each once, and "ok" means every *)
(* enabled module was initialised (api.go:132-143, 152-159).               *)
(***************************************************************************)
Cyclic == \E S \in (SUBSET Enabled) \ {{}} : \A i \in S : DependsOn(i) \cap S # {}
CyclesRefused ==
    /\ result = "cycle" => Cyclic
    /\ phase = "init" => ~Cyclic /\ Before(Len(ordered) + 1) = Enabled
    /\ result = "ok" => Succeeded = Enabled
    /\ result \in {"rejected", "cycle"} => Succeeded = {}

(***************************************************************************)
(* The order is the one a reader can predict from the registration: at     *)
(* each place stands the earliest registered module whose dependencies all *)
(* come before it (api.go:104-130).                                        *)
(***************************************************************************)
EarliestRegisteredFirst ==
    \A k \in DOMAIN ordered :
        LET could == {i \in Enabled \ Before(k) : DependsOn(i) \subseteq Before(k)}
        IN  ordered[k] \in could /\ \A i \in could : ordered[k] <= i

\* Execute returns on every registration (api.go:115, 152).
ExecuteReturns == <>(phase = "done")
=============================================================================
