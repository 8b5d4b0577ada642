SPECIFICATION CoordFairSpec
CONSTANTS
    w1 = w1
    w2 = w2
    plain = plain
    timed = timed
    Worker <- MCWorker
    Waiter <- MCWaiter
    TimedWaiter <- MCTimedWaiter
    Fault <- MCFault
    MaxEpoch = 3
CHECK_DEADLOCK FALSE
INVARIANTS
    SingleFlight
    FailuresBounded
    NoLeakedBuild
    NoStrandedWaiter
PROPERTIES
    ClosedQuiesces
    RequestAnswered
