------------------------- MODULE AtLeastOnceDelivery -------------------------
(***************************************************************************)
(* What the Kafka consumer promises about the messages of a topic, seen    *)
(* from the handler and the broker alone: the messages of a partition reach*)
(* the handler in order and at least once, the committed offset only moves *)
(* forward and never past one that has not, and what is committed does not *)
(* come again.                                                             *)
(***************************************************************************)
EXTENDS Naturals

CONSTANTS Partitions, Messages

VARIABLES
    committed,  \* the group's offset of each partition
    handled     \* offsets that have been through the handler

Init ==
    /\ committed = [p \in Partitions |-> 0]
    /\ handled = [p \in Partitions |-> {}]

HandledBelow(p, o) == \A below \in 0 .. Messages : below < o => below \in handled[p]

\* The first time, or again as long as it is not committed.
HandleMessage(p, o) ==
    /\ committed[p] <= o
    /\ HandledBelow(p, o)
    /\ handled' = [handled EXCEPT ![p] = @ \cup {o}]
    /\ UNCHANGED committed

CommitOffsets ==
    /\ committed' \in [Partitions -> 0 .. Messages]
    /\ \A p \in Partitions : committed[p] <= committed'[p] /\ HandledBelow(p, committed'[p])
    /\ UNCHANGED handled

Next ==
    \/ \E p \in Partitions : \E o \in 0 .. Messages : o < Messages /\ HandleMessage(p, o)
    \/ CommitOffsets
Spec == Init /\ [][Next]_<<committed, handled>>
=============================================================================
