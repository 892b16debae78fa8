SPECIFICATION Spec
CONSTANTS
    None = None
    kr = kr
    ka = ka
    kb = kb
    c1 = c1
    c2 = c2
    c3 = c3
    c4 = c4
    read = read
    write = write
    Key <- MCKey
    Cap <- MCCap
    CredId <- MCCredId
    TrustedRoots <- MCTrustedRoots
    Chains <- FaultyChains
    Thread = {t1}
    MaxDepth = 2
    MaxStaleness = None
    MaxClock = 3
    MaxStatements = 0
    MaxDecisions = 1
INVARIANTS
    TypeOK
    AcceptedChainAuthorizes
