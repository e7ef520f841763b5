SPECIFICATION FairSpec
CONSTANTS
    Provider = {"chatgpt", "claude", "gemini"}
    Preferred = "chatgpt"
    Optional = "claude"
    Selections <- MCSelections
    MaxActions = 26
    MaxRetries = 1
    MaxRuns = 1
    MaxToggles = 1
INVARIANTS
    StopIsPrompt
    Accounted
PROPERTIES
    RunEnds
CHECK_DEADLOCK FALSE
