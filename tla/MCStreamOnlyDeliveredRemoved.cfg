CONSTANTS
    disco = disco
    presence = presence
    Nil = Nil
    Msgs = {m1, m2}
    Control <- NoControl
    Cleanable <- NoControl
    SessionStanzas <- NoStanzas
    ResumeStanzas <- NoStanzas
    FollowUp <- NoFollow
    ResendLimit = 1
    MaxQueries = 0
    MaxConnects = 2
SPECIFICATION Spec
PROPERTY OnlyDeliveredRemoved
