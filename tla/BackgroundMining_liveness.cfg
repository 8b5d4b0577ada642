SPECIFICATION FairSpec
CONSTANTS
    w1 = w1
    cleanup = cleanup
    e1 = e1
    e2 = e2
    None = None
    Worker <- MCWorker
    Waiter <- MCWaiter
    TimedWaiter <- MCTimedWaiter
    Engine <- MCEngine
    Fault <- MCFault
    Config <- MCConfig
    Interval <- MCInterval
    MiningKey <- MCMiningKey
    LabFault <- EveryFault
    MaxEpoch = 2
    MaxEvents = 2
    MaxVersion = 2
    MaxReconfig = 1
CHECK_DEADLOCK FALSE
PROPERTIES
    DueIsMined
    CloseReleases
