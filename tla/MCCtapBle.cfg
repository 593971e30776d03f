CONSTANTS
    Callers = {c1}
    Closer = closer
    Kinds = {"MSG", "PING"}
    RespLens = {1, 2}
    MaxCalls = 2
    MaxBusy = 1
    None = None
SPECIFICATION FairSpec
CHECK_DEADLOCK FALSE
INVARIANTS FrameIntact OwnResponse CleanBetweenCalls InvalidatedIsClosed
PROPERTIES CloseUnblocks CancelReturns
