SPECIFICATION FairSpec
CONSTANTS
    c1 = c1
    l1 = l1
    l2 = l2
    Connections = {c1}
    Lanes = {l1, l2}
    NoThread = NoThread
    NoJob = NoJob
    MaxPending = 2
    SingleRequest = FALSE
    MaxRequests = 4
INVARIANTS
    TypeOK
    FreedIsUnused
    PendingCounts
    FramesAreWhole
    LaneOrder
PROPERTY
    EveryRequestAnswered
