SPECIFICATION FairSpec
CONSTANTS
    Calls = {"foreground", "ping", "wake", "suspend", "logout"}
    MaxCalls = 2
    MaxFaults = 2
    SupportsPush = FALSE
INVARIANTS TypeOK KeepsTrying BoundHasStream
PROPERTIES SettlesConnected
CHECK_DEADLOCK FALSE
