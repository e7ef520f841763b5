SPECIFICATION FairSpec
CONSTANTS
    Provider = {"chatgpt", "claude", "gemini"}
    Preferred = "chatgpt"
    Optional = "claude"
    Selections <- MCSelections
    MaxActions = 26
    MaxRetries = 1
    MaxRuns = 1
    MaxToggles = 1
INVARIANT StopIsRecorded
CHECK_DEADLOCK FALSE
