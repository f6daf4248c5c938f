SPECIFICATION FairSpec
CONSTANTS
    Clients = {c1, c2}
    Writers = {w1, w2}
    NoWriter = NoWriter
    ConversationIds = {1, 2}
    InitParent <- MCInitParent
    Roots = {2}
    Changes <- MCChanges
    MaxChanges = 2
CHECK_DEADLOCK FALSE
INVARIANTS
    TypeOK
    StreamsKeepSessions
    ChangesAreTold
PROPERTY
    EveryChangeIsAnnounced
