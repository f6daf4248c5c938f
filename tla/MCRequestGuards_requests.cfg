SPECIFICATION FairSpec
CONSTANTS
    r1 = r1
    r2 = r2
    r3 = r3
    Requests = {r1, r2, r3}
    NoRequest = NoRequest
    NoOperation = NoOperation
    Operations <- MCOperations
    InitParent <- MCInitParent
    InitKind <- MCInitKind
    MaxContentBytes = 2
    DynamicGuardRetryLimit = 2
INVARIANTS
    TypeOK
    WritersExcluded
    GrantedPlanHolds
    NoOrphans
    ContentAccounted
    ReadersExcludeKnownDomains
PROPERTIES
    EveryRequestFinishes
    WritesAreAtomic
