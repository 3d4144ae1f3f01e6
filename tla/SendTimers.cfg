CONSTANTS
    Chats = {m1}
    Links = {m2}
    MaxRetries = 1
    MaxResends = 1
    MaxCrashes = 1
    Nil = Nil
SPECIFICATION FairSpec
INVARIANTS
    TypeOK
    DeliveredIsWritten
    FailedIsUnwritten
PROPERTY OutcomeShows
CHECK_DEADLOCK FALSE
