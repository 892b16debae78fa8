SPECIFICATION Spec
CONSTANTS
    Proc = {p1}
    Slot = {s1, s2}
    Role = {"callee", "caller"}
    PubKey = {k1}
    Nonce = {v1}
    None = None
    Failed = Failed
    NvSize = 3
    ChunkMax = 2
    AiaMaxDepth = 3
    PathLength = 2
    MaxBundle = 2
    MaxExtends = 2
    MaxRenewals = 1
    MaxCalls = 3
INVARIANTS
    MeasurementIsSteady
    NoKeyLeaks
    TpmVerifiedAsCollected
PROPERTY
    AttestReturns
CHECK_DEADLOCK FALSE
