SPECIFICATION Spec
CONSTANTS
    kr = kr
    ka = ka
    kb = kb
    c1 = c1
    c2 = c2
    read = read
    write = write
    call1 = call1
    call2 = call2
    None = None
    Rubbish = Rubbish
    MaxSafeInteger = 1000
    Key <- MCKey
    Cap <- MCCap
    CredId <- MCCredId
    TrustedRoots <- MCTrustedRoots
    MaxDepth = 8
    MaxStaleness = None
    TTL = 1
    Call <- MCCall
    Plans <- MCPlans
    Policy = {read}
    READ = read
    Widget = "widget"
    Requirements = {"none", "any"}
    Templates <- MCTemplates
    MaxClock = 1
    MaxEpoch = 2
    MaxWire = 1
    MaxFaults = 1
    MaxLookups = 2
INVARIANTS
    AttachThenParse
    LookupWasAuthorized
    NoSilentFallback
    CardTellsNode
CHECK_DEADLOCK FALSE
