------------------------------ MODULE MCService ------------------------------
\* Instance of Service for TLC.
EXTENDS Service, TLC

Instance  == [addr |-> "r", port |-> 6379, db |-> 0]
Database  == [host |-> "m", port |-> 3306, user |-> "u", database |-> "d"]
Databases(instances) == [open |-> 200, idle |-> 100, idleTime |-> 0, instances |-> instances]
NoKafka   == [producer |-> <<>>, consumer |-> <<>>]

\* The routes of pprof, tracing on, no backend.
DynamicFile ==
    [text  |-> "fields known", name |-> "app", level |-> "info",
     trace |-> [enabled |-> TRUE, protocol |-> "http", rate |-> 10,
                endpoint |-> "", tracesEndpoint |-> "http://host"],
     pprof |-> [enabled |-> TRUE, mode |-> "dynamic"],
     redis |-> <<>>, mysql |-> Databases(<<>>), kafka |-> NoKafka]

\* The static pprof server, and a backend of each kind.
StaticFile ==
    [DynamicFile EXCEPT !.pprof.mode = "server", !.trace.rate = 10000,
                        !.redis = "default" :> Instance,
                        !.mysql = Databases("only" :> Database)]

StaticFiles ==
    LET f == StaticFile
        two == "a" :> Instance @@ "b" :> Instance
        producer == [brokers |-> <<"b1">>, topic |-> "t", acks |-> "all"]
        consumer == [brokers |-> <<"b1">>, topic |-> "t", group |-> "g"]
    IN  {f,
         [f EXCEPT !.text = "unreadable"],
         [f EXCEPT !.name = ""],
         [f EXCEPT !.level = "trace"],
         [f EXCEPT !.trace.protocol = "grpc"],
         [f EXCEPT !.trace.rate = 0], [f EXCEPT !.trace.rate = 15],
         [f EXCEPT !.trace.rate = 10010],
         [f EXCEPT !.trace.tracesEndpoint = "grpc://host"],
         [f EXCEPT !.trace.enabled = FALSE],
         [f EXCEPT !.pprof.mode = "static"],
         [f EXCEPT !.redis = two], [f EXCEPT !.redis = two @@ @],
         [f EXCEPT !.redis = "only" :> Instance],
         [f EXCEPT !.redis["default"].port = 0],
         [f EXCEPT !.mysql.instances = "a" :> Database @@ "b" :> Database],
         [f EXCEPT !.mysql.instances = <<>>],
         [f EXCEPT !.mysql.open = 10],
         [f EXCEPT !.kafka.producer = "p" :> producer, !.kafka.consumer = "c" :> consumer],
         [f EXCEPT !.kafka.producer = "p" :> [producer EXCEPT !.brokers = <<"">>]],
         [f EXCEPT !.kafka.consumer = "c" :> [consumer EXCEPT !.group = ""]]}
SomeFiles == {DynamicFile, [DynamicFile EXCEPT !.pprof.enabled = FALSE]} \cup StaticFiles
=============================================================================
