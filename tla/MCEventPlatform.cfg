SPECIFICATION FairSpec
CONSTANTS
    None = None
    Modifier = {"CTRL", "ALT"}
    Printable = {"A"}
    World <- MCWorld
    Senses <- MCSenses
    Timer = {"t1", "t2"}
    MaxTime = 3
    MaxAstray = 2
    OnBus = {"network"}
    Subs <- MCSubs
    Wants <- MCWants
    Dispatcher = "agents"
    Subscribed <- MCSubscribed
    Retained = 1
    Concurrent = 1
    Retries = 1
    ChainSteps = 2
    MaxEvents = 2
    MaxStops = 1
    MaxCalls = 1
INVARIANTS
    TypeOK
    Mirrors
    DragsEnd
    NoEventForgotten
    StopIsBounded
PROPERTIES
    RoutingEnds
CHECK_DEADLOCK FALSE
