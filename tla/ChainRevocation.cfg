SPECIFICATION Spec
CONSTANTS
    None = None
    kr = kr
    ka = ka
    kb = kb
    c1 = c1
    c2 = c2
    c3 = c3
    c4 = c4
    read = read
    write = write
    Key <- MCKey
    Cap <- MCCap
    CredId <- MCCredId
    TrustedRoots <- MCTrustedRoots
    Chains <- TwoHops
    Thread = {t1, t2}
    MaxDepth = 2
    MaxStaleness = 0
    MaxClock = 1
    MaxStatements = 1
    MaxDecisions = 2
SYMMETRY ThreadSymmetry
INVARIANTS
    StatusKnownWhenRequired
    RevocationByIssuersOnly
    RevokedStaysRevoked
    AuditNotRewritten
    LoopComputesVerdict
