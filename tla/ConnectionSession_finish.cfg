SPECIFICATION Spec
CONSTANTS
    c1 = c1
    l1 = l1
    Connections = {c1}
    Lanes = {l1}
    NoThread = NoThread
    NoJob = NoJob
    MaxPending = 2
    SingleRequest = TRUE
    MaxRequests = 1
INVARIANT
    AssertionHolds
