CONSTANTS
    Callers = {c1}
    Closer = closer
    Kinds = {"CBOR"}
    RespLens = {3}
    MaxCalls = 1
    MaxBusy = 0
    None = None
SPECIFICATION Spec
CHECK_DEADLOCK FALSE
INVARIANT CanceledCBORDrained
