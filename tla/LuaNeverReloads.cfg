\* An executor built with a respFn.
CONSTANTS
    Requests = {r1, r2}
    Nobody = Nobody
    RespFns = {TRUE}
    ClientTries = 1
    MaxFlushes = 1
SPECIFICATION FairSpec
PROPERTIES
    ReloadedAfterNoScript
