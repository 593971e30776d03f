CONSTANTS
    Callers = {c1, c2}
    Closer = closer
    Lengths = {1, 2}
    Malformed = FALSE
    MaxCalls = 2
    None = None
SPECIFICATION Spec
CHECK_DEADLOCK FALSE
INVARIANT NoMixedCommand
