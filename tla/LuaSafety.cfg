\* Two requests, with and without respFn, two tries per command and two losses
\* of the script cache.
CONSTANTS
    Requests = {r1, r2}
    Nobody = Nobody
    RespFns = {TRUE, FALSE}
    ClientTries = 2
    MaxFlushes = 2
SPECIFICATION FairSpec
INVARIANTS
    TypeOK
    RunsExplained
    ScriptNotForgotten
PROPERTIES
    EveryCallReturns
    
