------------------------------- MODULE AppConfig -------------------------------
(***************************************************************************)
(* The application configuration: what config.LoadFromBytes accepts        *)
(* (config, redis, mysql and kafka sections) and what the service makes of *)
(* it (service/setup.go, infra/trace.go).                                  *)
(*                                                                         *)
(* A file is a record of its settings as Normalize leaves them, trimmed and*)
(* in lower case, with the defaults filled in.  Rates are counted in ten-  *)
(* thousandths.  A problem is named by the path of its setting.            *)
(***************************************************************************)
EXTENDS Integers, Sequences

Blank == ""
NoInstance == ""

\* Problems of one instance are those of its section.
AppProblems(f) ==
    {path \in {"app_name", "level", "protocol", "rate", "mode"} :
        \/ path = "app_name" /\ f.name = Blank
        \/ path = "level"    /\ f.level \notin {"debug", "info", "warn", "error"}
        \/ path = "protocol" /\ f.trace.protocol # "http"
        \/ path = "rate"     /\ \/ f.trace.rate < 10 \/ f.trace.rate > 10000
                                \/ f.trace.rate % 10 # 0
        \/ path = "mode"     /\ f.pprof.mode \notin {"server", "dynamic"}}

ValidPort(port) == port \in 1 .. 65535

RedisProblems(redis) ==
    {name \in DOMAIN redis :
        redis[name].addr = Blank \/ ~ValidPort(redis[name].port) \/ redis[name].db < 0}

MySQLProblems(mysql) ==
    {name \in DOMAIN mysql.instances :
        LET instance == mysql.instances[name]
        IN  Blank \in {instance.host, instance.user, instance.database} \/ ~ValidPort(instance.port)}
    \cup {path \in {"max_open_conns", "max_idle_conns", "max_idle_time"} :
        \/ path = "max_open_conns" /\ mysql.open <= 0
        \/ path = "max_idle_conns" /\ (mysql.idle < 0 \/ mysql.idle > mysql.open)
        \/ path = "max_idle_time"  /\ mysql.idleTime < 0}

ValidBrokers(brokers) == brokers # <<>> /\ \A i \in DOMAIN brokers : brokers[i] # Blank

KafkaProblems(kafka) ==
    {name \in DOMAIN kafka.producer :
        \/ ~ValidBrokers(kafka.producer[name].brokers) \/ kafka.producer[name].topic = Blank
        \/ kafka.producer[name].acks \notin {"0", "1", "all"}}
    \cup {name \in DOMAIN kafka.consumer :
        \/ ~ValidBrokers(kafka.consumer[name].brokers)
        \/ Blank \in {kafka.consumer[name].topic, kafka.consumer[name].group}}

\* The file can be read, is TOML, has no unknown field, and has no problem.
Accepted(f) ==
    /\ f.text = "fields known"
    /\ AppProblems(f) \cup RedisProblems(f.redis) \cup MySQLProblems(f.mysql)
         \cup KafkaProblems(f.kafka) = {}

-----------------------------------------------------------------------------
\* selectBootstrapInstance: "default", or the only one there is.
Ambiguous(instances) == "default" \notin DOMAIN instances /\ \E a, b \in DOMAIN instances : a # b
SelectInstance(instances) ==
    IF DOMAIN instances = {} THEN NoInstance
    ELSE IF "default" \in DOMAIN instances THEN "default"
    ELSE CHOOSE name \in DOMAIN instances : TRUE

\* traceConfigFromAppConfig, with its fall-backs.
DefaultRate == 10
TraceConfig(f) ==
    [enabled  |-> f.trace.enabled,
     endpoint |-> IF f.trace.tracesEndpoint # Blank THEN f.trace.tracesEndpoint ELSE f.trace.endpoint,
     protocol |-> IF f.trace.protocol \in {Blank, "http"} THEN "http/protobuf" ELSE f.trace.protocol,
     rate     |-> IF f.trace.rate <= 0 THEN DefaultRate ELSE f.trace.rate]

\* otlpHTTPOptions: an endpoint is a URL with a host, "http" unless it says
\* otherwise; without one the local collector is used.
EndpointUsable(endpoint) == endpoint \in {Blank, "host", "http://host", "https://host"}

\* InitTracing gets as far as the exporter.
Traceable(conf) ==
    conf.enabled /\ conf.protocol \in {Blank, "http/protobuf"} /\ EndpointUsable(conf.endpoint)

\* clampSamplerRate.
SamplerRate(conf) ==
    IF conf.rate < 0 THEN 0 ELSE IF conf.rate > 10000 THEN 10000 ELSE conf.rate

\* initPprof is given a manager to stop unless the mode is "server".
HasManager(f) == f.pprof.enabled /\ f.pprof.mode # "server"
=============================================================================
