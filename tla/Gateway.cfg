SPECIFICATION FairSpec
CONSTANTS
    c1 = c1
    c2 = c2
    Clients <- MCOne
    NWorkers = 2
    MaxFaults = 2
    RouteLimit = 1
    Threads = 1
    Queue = 0
    MaxSessions = 2
    MaxEvents = 1
CHECK_DEADLOCK FALSE
INVARIANTS
    CloseLeavesAtMostOne
    AffinityKept
PROPERTIES
    ScorerReplaced
