CONSTANTS
    Channels = {bcast, own}
    BROADCAST_CID = bcast
    Closers = {p1, p2}
    MaxReports = 3
    None = None
SPECIFICATION FairSpec
CHECK_DEADLOCK FALSE
INVARIANTS TypeOK NoLostWakeup InOrderOnce Ownership CloseIsNotCancellation
PROPERTIES TerminalErrorIsFinal ReadReturns ShutdownCompletes ImplementsChannel
