----------------------------- MODULE KafkaHeaders -----------------------------
(***************************************************************************)
(* kafka/instrumentation.go: the headers of a Kafka message as the carrier *)
(* of a trace context, written by the producer and read by the consumer,   *)
(* and producer.go: the headers of the caller copied into the message.     *)
(*                                                                         *)
(* Only equality of keys matters, as they are trimmed and as they are      *)
(* compared: strings.TrimSpace and strings.EqualFold are given by          *)
(* functions.                                                              *)
(***************************************************************************)
EXTENDS Naturals, Sequences, FiniteSets

CONSTANTS
    TrimSpace,      \* key of Message.Headers to the key that is sent
    Fold,           \* key that is sent to what EqualFold compares
    BlankKey,       \* what a key of spaces is trimmed to
    NoValue         \* the answer of Get for a key that is not there

EqualFold(a, b) == Fold[a] = Fold[b]

\* Where a key is found, the first place first.
Places(headers, key) == {i \in DOMAIN headers : EqualFold(headers[i].key, key)}
Place(headers, key) ==
    CHOOSE i \in Places(headers, key) : \A j \in Places(headers, key) : i <= j

Get(headers, key) ==
    IF Places(headers, key) = {} THEN NoValue ELSE headers[Place(headers, key)].value

\* The header that is found is overwritten, one that is not is appended.
SetAppending(headers, key, value) ==  \* mutant: it is not looked for
    Append(headers, [key |-> key, value |-> value])
Set(headers, key, value) ==
    IF Places(headers, key) = {}
    THEN Append(headers, [key |-> key, value |-> value])
    ELSE [headers EXCEPT ![Place(headers, key)].value = value]

\* Publish ranges over a map, in any order, and leaves out blank keys; keys
\* that are the same when trimmed are sent twice.
Sent(user) == {k \in DOMAIN user : TrimSpace[k] # BlankKey}
Orders(S) ==
    {order \in [1 .. Cardinality(S) -> S] : \A k \in S : \E i \in DOMAIN order : order[i] = k}
Copies(user) ==
    {[i \in DOMAIN order |-> [key |-> TrimSpace[order[i]], value |-> user[order[i]]]] :
        order \in Orders(Sent(user))}
=============================================================================
