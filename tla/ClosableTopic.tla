---------------------------- MODULE ClosableTopic ----------------------------
(***************************************************************************)
(* What kafka/producer.go promises to those who share a producer, without  *)
(* its field and the locks: a topic that is open, is being closed by one   *)
(* Close, and is closed for all, with no connection left.  Until then each *)
(* Publish stores its record at most once per try; from then on it stores  *)
(* nothing, and one that begins is told so.                                *)
(***************************************************************************)
EXTENDS Sequences, Naturals

CONSTANT Publishers

VARIABLES
    stage,      \* "unmade", "open", "closing" or "closed"
    connected,  \* the producer holds a connection to the broker
    answer,     \* of each Publish: "none", "pending", or what its caller got
    log         \* whose records the broker has stored

topicVars == <<stage, connected, answer, log>>

Init ==
    /\ stage = "unmade" /\ connected = FALSE
    /\ answer = [p \in Publishers |-> "none"]
    /\ log = <<>>

\* A producer that could not be made is nil, and acts as a closed one.  No Close
\* returns before the connection is given up.
Move == \/ stage = "unmade" /\ stage' = "open" /\ connected' = TRUE
        \/ stage = "unmade" /\ stage' = "closed" /\ UNCHANGED connected
        \/ stage = "open" /\ stage' = "closing" /\ UNCHANGED connected
        \/ stage = "closing" /\ connected /\ connected' = FALSE /\ UNCHANGED stage
        \/ stage = "closing" /\ ~connected /\ stage' = "closed" /\ UNCHANGED connected
AdvanceStage == Move /\ UNCHANGED <<answer, log>>

Logged(p) == \E i \in DOMAIN log : log[i] = p
Give(p, a) == answer' = [answer EXCEPT ![p] = a] /\ UNCHANGED <<stage, connected, log>>

Begin(p)  == answer[p] = "none" /\ stage \in {"open", "closing"} /\ Give(p, "pending")
Refuse(p) == answer[p] = "none" /\ stage = "closed" /\ Give(p, "closed")

\* The client sends a record again when it has lost the broker's answer.
StoreRecord(p) ==
    /\ answer[p] = "pending" /\ connected /\ ~Logged(p)
    /\ \E copies \in 1 .. 2 : log' = log \o [i \in 1 .. copies |-> p]
    /\ UNCHANGED <<stage, connected, answer>>

AnswerPublish(p) ==
    /\ answer[p] = "pending"
    /\ \/ Logged(p) /\ Give(p, "ok")
       \/ Give(p, "error")
       \/ ~Logged(p) /\ stage # "open" /\ Give(p, "panic")

Next == AdvanceStage
        \/ \E p \in Publishers : Begin(p) \/ Refuse(p) \/ StoreRecord(p) \/ AnswerPublish(p)
Spec == Init /\ [][Next]_topicVars
=============================================================================
