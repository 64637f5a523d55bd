--------------------------- MODULE RequestCounter ---------------------------
(***************************************************************************)
(* What interceptor/counter.go promises: a counter per procedure, and each *)
(* request that passes is added to the counter of its procedure once, in a *)
(* single step.  Nothing else changes a counter.                           *)
(***************************************************************************)
EXTENDS Naturals

CONSTANTS Requests, Methods

VARIABLES
    method,     \* the procedure of a request
    total,      \* the number of requests of a procedure
    counted     \* the requests that have been added

Init ==
    /\ method \in [Requests -> Methods]
    /\ total = [m \in Methods |-> 0]
    /\ counted = {}

Count(r) ==
    /\ r \notin counted
    /\ counted' = counted \cup {r}
    /\ total' = [total EXCEPT ![method[r]] = @ + 1]
    /\ UNCHANGED method

Next == \E r \in Requests : Count(r)
Spec == Init /\ [][Next]_<<method, total, counted>>
=============================================================================
