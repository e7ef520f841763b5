SPECIFICATION FairSpec
CONSTANTS
    Mission = {m1, m2}
    None = None
    Capacity = 2
INVARIANTS
    TypeOK
    RunningIsReal
PROPERTIES
    DecisionSticks
    TakeoverHonoured
    WaitingIsVisited
