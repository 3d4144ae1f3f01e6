CONSTANTS
    disco = disco
    presence = presence
    Nil = Nil
    Msgs = {m1}
    Control <- TwoControls
    Cleanable <- OneCleanable
    SessionStanzas <- NoStanzas
    ResumeStanzas <- NoStanzas
    FollowUp <- PresenceFollows
    ResendLimit = 1
    MaxQueries = 1
    MaxConnects = 3
SPECIFICATION Spec
INVARIANTS TypeOK NumberingSound TrackFindsCounter SavedNumbering 
PROPERTIES  HandshakeKeepsMessages
