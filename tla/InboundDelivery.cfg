CONSTANTS
    Newest = 1
    Encrypted = {1}
    Untraceable = {}
    MaxFaults = 3
    MaxCrashes = 1
    Nil = Nil
SPECIFICATION FairSpec
INVARIANT TypeOK
PROPERTY InboxSpec
CHECK_DEADLOCK FALSE
