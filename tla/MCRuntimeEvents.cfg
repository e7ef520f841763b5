SPECIFICATION FairSpec
CONSTANTS
    Timed = {alarm}
    Reacting = {echo}
    ReactsTo <- MCReactsTo
    AgentTypes = {"agent_failed"}
    Capacity = 1
    Retention = 3
    Limit = 2
    Nobody = Nobody
    MaxEvents = 3
    MaxRecords = 2
    MaxRestarts = 1
INVARIANTS
    ToldOnce
PROPERTIES
    NewestIsSeen
CHECK_DEADLOCK FALSE
