CONSTANTS
    Resources = {r1, r2}
    Threads = {t1, t2}
    Cleanup = Cleanup
    MaxEvents = 2
    Nil = Nil
SPECIFICATION Spec
INVARIANTS
    TypeOK
    OnlineIsTrue
    MissingNeedsReset
SYMMETRY Interchangeable
CONSTRAINT AtTwoPlaces
CHECK_DEADLOCK FALSE
