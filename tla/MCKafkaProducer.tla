--------------------------- MODULE MCKafkaProducer ---------------------------
\* Instance of KafkaProducer for TLC.
EXTENDS KafkaProducer, TLC
CONSTANTS Stale, Older

\* Keys with and without spaces around them, in two spellings.
TrimmedKeys ==
    " Traceparent" :> "Traceparent" @@ " traceparent" :> "traceparent" @@
    "tenant" :> "tenant" @@ "  " :> ""
FoldedKeys ==
    "traceparent" :> "traceparent" @@ "Traceparent" :> "traceparent" @@ "tenant" :> "tenant"

\* No headers, those of an ordinary caller, a blank one among them, and those
\* of callers that copy what they have received: the context of an earlier
\* trace, in one spelling or two.
SomeHeaders ==
    {<<>>, "  " :> "x" @@ "tenant" :> "t",
     " Traceparent" :> Stale @@ "tenant" :> "t",
     " Traceparent" :> Stale @@ " traceparent" :> Older @@ "tenant" :> "t"}
SomeBrokers == {<<"">>, <<"", "b1">>}
SomeTopics  == {"", "t1"}
PublisherSymmetry == Permutations(Publishers)
=============================================================================
