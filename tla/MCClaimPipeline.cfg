SPECIFICATION FairSpec
CONSTANTS
    n1 = n1
    rc1 = rc1
    rc2 = rc2
    x1 = x1
    x2 = x2
    x3 = x3
    x4 = x4
    Nullifiers = {n1}
    Commitments = {rc1, rc2}
    Drafted <- MCDrafted
    Artifacts = {x1, x2, x3, x4}
    Shape <- MCShape
    Jobs = {j1, j2}
    Uploaders = {u1, u2}
    MaxFaults = 1
    None = None
    W = 4
INVARIANTS
    TypeOK
    VerifyingIsCarried
    BindingNeverOverclaims
    DraftedCommitmentKept
PROPERTIES
    SucceededIsFinal
    VerificationEnds
CHECK_DEADLOCK FALSE
