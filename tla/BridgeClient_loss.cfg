SPECIFICATION Spec
CONSTANTS
    Commands = {"http-client", "h2-client", "h3wt-client", "h2-session-client", "h3wt-session-client"}
    Submitted = 2
    Pieces = 2
    MaxLines = 2
    Nobody = Nobody
CHECK_DEADLOCK FALSE
INVARIANT OpenedAsSubmitted
