SPECIFICATION Spec
CONSTANTS
    NoRP = NoRP
    NoPIN = NoPIN
    FIPS = FALSE
    Infos <- MCInfos
    Pins <- MCPins
    PermSets <- MCPermSets
    RPs = {NoRP, rp}
    PreviewProtocols <- TwoThenOne
    MaxRetries = 2
    MaxTokens = 2
    MaxKeys = 1
INVARIANT LegacyTokenAuthorises
