CONSTANTS
    Callers = {c1, c2}
    Closer = closer
    Lengths = {1, 2}
    Malformed = TRUE
    MaxCalls = 3
    None = None
SPECIFICATION FairSpec
CHECK_DEADLOCK FALSE
INVARIANTS OwnResponse IdleBetweenCalls SessionEndsIdle
PROPERTIES CloseUnblocks
