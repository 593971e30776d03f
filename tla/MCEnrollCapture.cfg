CONSTANTS
    Callers = {c1, c2}
    MaxCreds = 1
    MaxBio = 1
    MaxCommands = 3
    CaptureReportsTemplate = FALSE
    None = None
SPECIFICATION Spec
CHECK_DEADLOCK FALSE
INVARIANT InfoFresh
