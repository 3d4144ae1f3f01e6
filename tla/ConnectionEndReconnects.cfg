SPECIFICATION PromptSpec
CONSTANTS
    Calls = {}
    MaxCalls = 0
    MaxFaults = 1
    SupportsPush = TRUE
INVARIANTS EndReconnects
CHECK_DEADLOCK FALSE
