SPECIFICATION Spec
CONSTANTS
    NoRP = NoRP
    NoPIN = NoPIN
    FIPS = FALSE
    Infos <- MCInfos
    Pins <- MCPins
    PermSets <- MCPermSets
    RPs = {NoRP, rp}
    PreviewProtocols <- ProtocolOne
    MaxRetries = 2
    MaxTokens = 2
    MaxKeys = 2
INVARIANTS AuthParamVerifies GrantHonoured
PROPERTY CorrectPINSpendsNoRetry
