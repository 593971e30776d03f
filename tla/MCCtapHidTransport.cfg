CONSTANTS
    Callers = {c1}
    Closer = closer
    Kinds = {"CBOR", "OTHER"}
    RespLens = {1, 3}
    MaxCalls = 2
    MaxBusy = 1
    None = None
SPECIFICATION FairSpec
CHECK_DEADLOCK FALSE
INVARIANTS CBORNotInterleaved OwnResponse CleanBetweenCalls CancelOnlyCanceled
PROPERTIES CanceledCallReturns CloseUnblocks
