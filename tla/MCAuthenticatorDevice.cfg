CONSTANTS
    Callers = {c1, c2}
    MaxCreds = 1
    MaxBio = 1
    MaxCommands = 5
    CaptureReportsTemplate = TRUE
    None = None
SPECIFICATION Spec
SYMMETRY CallerSymmetry
CHECK_DEADLOCK FALSE
INVARIANTS InfoFresh ChecksCurrent
