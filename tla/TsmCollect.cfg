SPECIFICATION Spec
CONSTANTS
    Proc = {p1, p2}
    EntryName = {n1, n2}
    PubKey = {k1, k2}
    Nonce = {v1}
    None = None
    Failed = Failed
    MaxCalls = 3
SYMMETRY NameSymmetry
INVARIANTS
    ReportIsOwn
    OnlyExpectedProviderSigns
    NoEntryLeaks
    VerifiedAsCollected
CHECK_DEADLOCK FALSE
