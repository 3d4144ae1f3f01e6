CONSTANTS
    Newest = 2
    Encrypted = {1}
    Untraceable = {2}
    MaxFaults = 1
    MaxCrashes = 1
    Nil = Nil
SPECIFICATION Spec
INVARIANTS
    NeverOverclaims
    DuplicateNeedsOverlap
    UnreadableNeedsRace
PROPERTY InboxSafety
CHECK_DEADLOCK FALSE
