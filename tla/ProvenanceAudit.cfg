SPECIFICATION Spec
CONSTANTS
    kr = kr
    ka = ka
    kb = kb
    c1 = c1
    c2 = c2
    read = read
    None = None
    Key <- MCKey
    Cap = {read}
    CredId <- MCCredId
    TrustedRoots = {kr}
    MaxDepth = 2
    MaxStaleness = None
    Chain <- MCChain
    RecordId = {id1, id2, id3}
    MaxRecords = 3
    MaxPaths = 3
SYMMETRY IdSymmetry
INVARIANTS
    VerifiedPathIsUnaltered
    CrossCheckedFollowsChain
    FullWorkflowVerifies
