SPECIFICATION FairSpec
CONSTANTS
    Caller <- MCCaller
    Mutation <- MCMutation
    Units <- MCUnits
    Query = "query_many"
    Snapshot <- MCSnapshot
    None = None
    MaxMutations = 2
    MaxStatements = 3
INVARIANTS
    WorkerHoldsJournal
PROPERTIES
    ImplementsAtomStore
    CallsReturn
