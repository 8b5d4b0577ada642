SPECIFICATION LearningSpec
CONSTANTS
    \* MiningCache
    Unit = {A, B}
    PointPlan = {P, Q}
    PairPlan = {pair}
    FactVersion = {1}
    MaxUnits = 2
    MaxCases = 2
    MaxPlans = 2
    NoEntry = NoEntry
    MaxEvents = 3
    MaxMines = 3
    MaxErrors = 1
    \* RuleSelection
    Intervals <- MCIntervals
    OpenImpression = OpenImpression
    SemanticPredicates = {"llm", "quantile"}
    ContextPredicates = {"scope"}
    EvidenceOwner <- MCEvidenceOwner
    MinerSupport = 2
    TargetSupport = 2
    MinEffect = 0
    RuleCaps = {1, 2, 3, 4}
    MaxImpressions = 9
    NotMined = NotMined
    \* TrainingAttempt
    Run = {r1, r2}
    Cohort = {x, y}
    Output = {o, p}
    Key = {"declared", "other"}
    DeclaredKey = {"declared"}
    NoRun = NoRun
    MaxFaults = 2
    \* TrainingGate
    Host = {A, B}
    Dataset = {"given", "copy", "grown"}
    CohortOf <- MCCohortOf
    Design = {"champion", "other", "third"}
    FirstDesign = "champion"
    MaxAsked = 3
    \* ConfirmationSplit
    Impression = {i, j, k}
    LastTime = 3
    MaxLog = 4
    \* ExtractionBatch
    Text = {1, 2, 3, 4, 5}
    EmptyText = {4}
    ShardOf <- MCShardOf
    ExtractRuns = 2
    Workers = 2
    BatchSize = 2
    MaxNew = 4
    MaxCalls = 3
    MaxDeaths = 1
    \* MindReplay
    News = {"n1", "n2", "n3"}
    Subcategory <- MCSubcategory
    TrainRow <- MCTrainRow
    ValidRow <- MCValidRow
    NewsHis <- MCNewsHis
    SamplePriority <- MCSamplePriority
    ReplayLimits <- MCReplayLimits
    NoLimit = NoLimit
    Recent = 2
    MaxRows = 5
    NoImpression = NoImpression
CHECK_DEADLOCK FALSE
SYMMETRY ModelSymmetry
INVARIANTS
    MiningSound
    SelectionSound
    AttemptsDurable
    GateSound
    SplitSound
    ExtractionSound
    ReplaySound
