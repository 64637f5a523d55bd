\* Two callers, two calls each, where no Stop is issued while a Start is
\* between its CAS and its Unlock.
CONSTANTS
    Callers = {c1, c2}
    MaxCalls = 2
    MaxTime = 2
    NoCaller = NoCaller
    NoSession = NoSession
    Absent = Absent
    StopMayOvertakeStart = FALSE
SPECIFICATION FairSpec
INVARIANTS
    StoppedMeansReleased
PROPERTIES
    ImplementsLifecycle
