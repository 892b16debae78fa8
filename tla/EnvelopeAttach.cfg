SPECIFICATION Spec
CONSTANTS
    kr = kr
    ka = ka
    c1 = c1
    read = read
    call1 = call1
    call2 = call2
    None = None
    Rubbish = Rubbish
    MaxSafeInteger = 1000
    Key <- MCKey
    Cap <- MCCap
    CredId <- MCCredId
    TrustedRoots <- MCTrustedRoots
    MaxDepth = 8
    MaxStaleness = None
    TTL = 1
    Requirement = "none"
    Verifier = None
    Requests <- MCRequests
INVARIANT
    EnvelopeRoundTrip
CHECK_DEADLOCK FALSE
