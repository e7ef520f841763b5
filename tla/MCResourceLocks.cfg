SPECIFICATION FairSpec
CONSTANTS
    Context <- MCContext
    Agent = {"a1", "a2"}
    None = "none"
    AgentOf <- MCAgentOf
    Resource <- MCResource
    Wanted <- MCWanted
    Order <- MCOrder
INVARIANTS
    TypeOK
    Exclusive
    OwnersAccurate
    NoCircularWait
PROPERTIES
    EveryoneServed
