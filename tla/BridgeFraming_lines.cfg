SPECIFICATION Framing
CONSTANTS
    Cap = 4
    MaxBytes = 7
    MaxChunk = 3
CHECK_DEADLOCK FALSE
INVARIANTS ReadersAreExact RequestIsFirstLine
