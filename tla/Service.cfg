\* Two connections of either protocol; files that are refused, and files with
\* and without pprof, tracing and backends; the ping tried again twice, as Run does.
CONSTANTS
    Clients = {c1, c2}
    Main = Main
    ConfigFiles <- SomeFiles
    RedisRetries = 2
    MaxTime = 1
    NoCaller = NoCaller
    NoSession = NoSession
    Absent = Absent
SPECIFICATION FairSpec
INVARIANTS
    TypeOK
    ShutdownStopsPprof
    NoRequestCut
    ServesWhatIsConfigured
PROPERTIES
    RunEnds
