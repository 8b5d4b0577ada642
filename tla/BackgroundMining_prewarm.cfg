SPECIFICATION Spec
CONSTANTS
    w1 = w1
    cleanup = cleanup
    e1 = e1
    e2 = e2
    None = None
    Worker <- MCWorker
    Waiter <- MCWaiter
    TimedWaiter <- MCTimedWaiter
    Engine <- MCEngine
    Fault <- MCFault
    Config <- MCConfig
    Interval <- MCInterval
    MiningKey <- MCMiningKey
    LabFault <- PrewarmFault
    MaxEpoch = 2
    MaxEvents = 2
    MaxVersion = 2
    MaxReconfig = 0
CHECK_DEADLOCK FALSE
INVARIANT ModelCoherent
