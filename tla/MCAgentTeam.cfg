SPECIFICATION Spec
CONSTANTS
    Root = root
    Agent = {root, a, b}
    Perm = {"observe", "click"}
    Screen = "observe"
    RootPerms = {"observe"}
    Tool = {"look"}
    Needs <- MCNeeds
    Task = {t1, t2}
    Caller = {t1, t2}
    Conv <- MCConv
    Main = Main
    Nobody = Nobody
    None = None
    ReqTools <- MCReqTools
    MaxSteps = 2
    MaxEdits = 1
INVARIANTS
    TypeOK
    AuthorityFlowsDown
    NoForeignAction
    OneMissionPerAgent
SYMMETRY MCSymmetry
CHECK_DEADLOCK FALSE
