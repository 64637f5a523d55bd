\* A single request, one try per command, no respFn: the executor's own
\* fallback is all that can run the script again.
CONSTANTS
    Requests = {r1}
    Nobody = Nobody
    RespFns = {FALSE}
    ClientTries = 1
    MaxFlushes = 0
SPECIFICATION Spec
INVARIANTS
    SuccessRunsOnce
