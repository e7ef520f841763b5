SPECIFICATION Spec
CONSTANTS
    Run = {"r1", "r2"}
    Agent = {"a1", "a2"}
    None = "none"
    MissionId = "m"
    Contracted = {"r1"}
    ThroughGraph = TRUE
    ActionBudget = 1
    FailureBudget = 1
    Mode = "approval"
    PolicyAsks = {}
    MaxSteps = 3
    MaxFailures = 1
INVARIANTS
    BudgetBounded
CHECK_DEADLOCK FALSE
