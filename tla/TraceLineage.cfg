SPECIFICATION Spec
CONSTANTS
    kr = kr
    ka = ka
    kb = kb
    kx = kx
    c1 = c1
    c2 = c2
    read = read
    write = write
    b1 = b1
    b2 = b2
    None = None
    Key <- MCKey
    Cap = {read, write}
    CredId <- MCCredId
    TrustedRoots = {kr}
    MaxDepth = 2
    MaxStaleness = None
    Chain <- MCChain
    Body = {b1, b2}
    ChildForm <- MCChildForm
    MaxSigned = 3
    MaxPath = 2
INVARIANTS
    VerifiedLineageWasMade
    LeafCommitsToPath
    EmittedDagVerifies
