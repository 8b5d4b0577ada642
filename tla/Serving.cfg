SPECIFICATION ServingSpec
CONSTANTS
    \* FeedSession
    Article <- MCArticle
    Limit <- MCLimit
    FeedWindow = 2
    HistoryLimit = 2
    RowLimit = 2
    None = None
    MaxSessions = 2
    MaxFeedback = 2
    MaxVersion = 2
    \* ProofCache
    PointCase = {"x", "y"}
    PairCase = {"u"}
    PointChannel = {"a", "b"}
    PairChannel = {"p"}
    Active <- MCActive
    WarmPoint = {"y"}
    WarmPair = {"u"}
    Slate = {A, B}
    CacheLimit = 2
    RankLimit = 1
    NoSlate = NoSlate
    NoRules = NoRules
    MaxRules = 2
    MaxProfile = 1
    MaxFailures = 1
    \* ControlPlane
    Client = {A, B}
    LabId = {l1, l2, l3}
    FirstLab = l1
    NoLab = NoLab
    Setting = {"s", "t"}
    DefaultSetting = "s"
    Nobody = Nobody
    MaxTrials = 1
    MaxRequests = 4
CHECK_DEADLOCK FALSE
SYMMETRY ModelSymmetry
INVARIANTS
    RowsConserved
    DeliveriesReplayable
    QueueRankedInForce
    ProofCachesSound
    ControlSound
