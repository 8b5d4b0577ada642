SPECIFICATION FairSpec
CONSTANTS
    Article <- MCArticle
    Limit = {1}
    FeedWindow = 2
    HistoryLimit = 3
    RowLimit = 3
    None = None
    Failed = Failed
    MaxSessions = 2
    MaxFeedback = 1
    MaxVersion = 2
    MaxDropped = 1
CHECK_DEADLOCK FALSE
INVARIANTS
    AcceptedRowsShownUnlessFailed
    FeedbackFits
PROPERTIES
    ReaderReachesEnd
