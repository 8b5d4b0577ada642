SPECIFICATION LabSpec
CONSTANTS
    \* BackgroundMining
    w1 = w1
    cleanup = cleanup
    e1 = e1
    e2 = e2
    None = None
    Worker <- MCWorker
    Waiter <- MCWaiter
    TimedWaiter <- MCTimedWaiter
    Engine <- MCEngine
    Fault <- MCFault
    Config <- MCConfig
    Interval <- MCInterval
    MiningKey <- MCMiningKey
    LabFault <- AllLabFaults
    MaxEpoch = 3
    MaxEvents = 3
    MaxVersion = 2
    MaxReconfig = 2
    \* PairTournament
    Pool <- MCPool
    TopicOf <- MCTopicOf
    SubcategoryOf <- MCSubcategoryOf
    TextGrade <- MCTextGrade
    RulesOf <- MCRulesOf
    PointScore <- MCPointScore
    SkipScore <- MCSkipScore
    PageSize = 1
    ArrivalWindow = 4
    NegativeLimit = 2
    NegativeWindow = 1
    NoReplay = NoReplay
    MaxActions = 3
    \* SemanticPreview
    Reader = {e1, e2}
    Content = {e1, e2, C, NoText}
    NoText = NoText
    Sizes = {1, 3}
    MaxEntries = 2
    MaxBytes = 3
    TTL = 2
    MaxLabs = 2
    MaxClock = 2
    MaxAsks = 4
    \* FrozenModel
    Process = {e1, e2}
    Path = {file}
    Setup = {"s", "t"}
    DefaultSetup = "s"
    NoSetup = "default"
    NoPath = NoPath
    MaxMinings = 2
    MaxMishaps = 2
    \* RelationalProjection
    EvidenceOf <- MCEvidenceOf
    DataSet <- MCDataSet
    Unobserved = Unobserved
    RecentHistory = 1
    QueryBatch = 1
    ShardSize = 2
    ShardWorkers = 2
    MaxWrong = 1
SYMMETRY ModelSymmetry
CHECK_DEADLOCK FALSE
INVARIANTS
    PendingExact
    ModelCoherent
    ModelMatchesState
    DueImpliesWork
    EnginesOwned
    NoBuildAfterRelease
    ReplayIsTournament
    PreviewsSound
    FrozenSound
    ProjectionSound
PROPERTIES
    ImplementsServedModel
