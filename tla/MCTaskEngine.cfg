SPECIFICATION FairSpec
CONSTANTS
    Task <- MCTask
    Deps <- MCDeps
    Resource = {"mouse"}
    Needs <- MCNeeds
    Rank <- MCRank
    MaxRetries = 1
    Limit = 2
    Operable = {"b"}
    Writer = {"voice"}
    MaxAlarms = 1
INVARIANTS
    TypeOK
    DependencyOrder
    NoConflict
    CompletedNeverRerun
    NoneStranded
    BlockedHasCause
PROPERTIES
    RunEnds
    KeepsPromise
CHECK_DEADLOCK FALSE
