CONSTANTS
    Shares = {s1, s2}
    Commented = {s1}
    MaxRuns = 3
    MaxCrashes = 1
    Nil = Nil
SPECIFICATION Spec
INVARIANTS
    TypeOK
    OutboxOnce
    CommentFollowsRow
CHECK_DEADLOCK FALSE
