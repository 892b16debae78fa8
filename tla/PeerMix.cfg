SPECIFICATION Spec
CONSTANTS
    kr = kr
    ka = ka
    kb = kb
    c1 = c1
    c2 = c2
    read = read
    write = write
    call1 = call1
    call2 = call2
    None = None
    Rubbish = Rubbish
    PyTrue = PyTrue
    Refused = Refused
    Key <- MCKey
    Cap <- MCCap
    CredId <- MCCredId
    MaxStaleness = None
    Call <- MCCall
    Thread = {t1}
    Plans <- MixedPlans
    Snapshots <- NoSnapshots
    Configured = {}
    Embedded <- Permissive
    MaxClock = 1
    MaxEpoch = 2
    MaxMixed = 1
INVARIANTS
    RecordedCallWasMade
    AllowRecordTellsRuntime
    ProofIsFresh
    OpensAsCommitted
