SPECIFICATION Spec
CONSTANTS
    c1 = c1
    c2 = c2
    k1 = k1
    k2 = k2
    k3 = k3
    k4 = k4
    in1 = in1
    in2 = in2
    old = old
    new = new
    other = other
    NoRP = NoRP
    NoInput = NoInput
    None = None
    FIPS = FALSE
    Approved = {}
    Callers = {c1, c2}
    RPList <- MCRPs
    CredsOf <- MCCredsOf
    CallsOf <- MCCallsOf
    Infos <- MCInfos
    Arrays <- MCArrays
    Fragment = 2
    MaxOthers = 1
INVARIANTS EnumerationWhole BlobReadWhole WrittenBlobStays PRFPerCredential OutputsAsAsked
