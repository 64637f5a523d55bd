\* Two partitions of two messages, two sessions per process, one restart.
CONSTANTS
    Partitions = {p1, p2}
    Messages = 2
    MaxSessions = 2
    MaxRestarts = 1
SPECIFICATION FairSpec
INVARIANTS
    TypeOK
    ReadyIsFresh
    NothingLeftRunning
PROPERTIES
    DeliversAtLeastOnce
    EndsWhenTold
    CleanInSessionOnly
    RejoinsAfterRebalance
