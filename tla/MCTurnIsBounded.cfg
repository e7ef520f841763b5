SPECIFICATION FairSpec
CONSTANTS
    Mission = {m1, m2}
    None = None
    Capacity = 1
PROPERTIES
    TurnIsBounded
