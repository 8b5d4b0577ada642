SPECIFICATION Spec
CONSTANTS
    c1 = c1
    c2 = c2
    Clients <- MCClients
    NWorkers = 2
    MaxFaults = 0
    RouteLimit = 1
    Threads = 2
    Queue = 0
    MaxSessions = 2
    MaxEvents = 1
CHECK_DEADLOCK FALSE
INVARIANT StateAgrees
