\* Two callers, two calls each, within two seconds, with nothing that keeps a
\* Stop from overtaking a Start.
CONSTANTS
    Callers = {c1, c2}
    MaxCalls = 2
    MaxTime = 2
    NoCaller = NoCaller
    NoSession = NoSession
    Absent = Absent
    StopMayOvertakeStart = TRUE
SPECIFICATION Spec
INVARIANTS
    StoppedMeansReleased
