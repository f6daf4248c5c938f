SPECIFICATION FairSpec
CONSTANTS
    MaxQueueBytes = 3
    ChunkSizes = {1, 2}
    MaxChunks = 5
CHECK_DEADLOCK FALSE
INVARIANTS
    TypeOK
    LossIsAnnounced
    ExitDrains
PROPERTY
    ClosedStreamEnds
