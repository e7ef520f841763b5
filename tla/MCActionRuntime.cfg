SPECIFICATION FairSpec
CONSTANTS
    Run = {"r1", "r2", "r3"}
    Agent = {"a1"}
    None = "none"
    MissionId = "m"
    Contracted = {"r1", "r2"}
    ThroughGraph = FALSE
    ActionBudget = 1
    FailureBudget = 1
    Mode = "allow"
    PolicyAsks = {"r2", "r3"}
    MaxSteps = 2
    MaxFailures = 1
INVARIANTS
    TypeOK
    OwnApproval
    OneShot
    OneRun
    BudgetBounded
PROPERTIES
    TerminatedIsFinal
    RunIsBounded
CHECK_DEADLOCK FALSE
