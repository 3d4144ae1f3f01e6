SPECIFICATION Spec
CONSTANTS
    Calls = {"foreground", "ping", "wake", "suspend", "logout"}
    MaxCalls = 1
    MaxFaults = 1
    SupportsPush = TRUE
INVARIANTS ScheduledMeansPending
CHECK_DEADLOCK FALSE
