SPECIFICATION Spec
CONSTANTS
    Titles <- MCTitles
    NewNames <- MCNewNames
    NewSources = {"tty"}
    MaxContentBytes = 1
    MaxChunk = 1
    MaxId = 4
    MaxElided = 2
CHECK_DEADLOCK FALSE
INVARIANTS
    TypeOK
    Validates
    NamedPathsResolve
