SPECIFICATION Spec
CONSTANTS
    Article <- MCArticle
    Limit = {1}
    FeedWindow = 2
    HistoryLimit = 3
    RowLimit = 3
    None = None
    Failed = Failed
    MaxSessions = 1
    MaxFeedback = 1
    MaxVersion = 1
    MaxDropped = 1
CHECK_DEADLOCK FALSE
INVARIANTS
    AcceptedRowsShown
