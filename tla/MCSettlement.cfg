SPECIFICATION Spec
CONSTANTS
    n1 = n1
    alice = alice
    rc1 = rc1
    rc2 = rc2
    cc1 = cc1
    Hashes = {h1, h2}
    Researchers = {alice}
    Commitments = {rc1, rc2}
    ClaimCommitments = {cc1}
    Nullifiers = {n1}
    Call <- MCCall
    Drafts <- MCDrafts
    Api = {a1, a2}
    Workers = {w1}
    MaxAttempts = 2
    MaxFaults = 1
    None = None
SYMMETRY Symmetry
INVARIANTS
    TypeOK
    SettledStatusTrue
    ReceiptBacked
    ClaimStatusTrue
    UnfinishedWorkIsCarried
    VerdictsTrue
    AllIdentifiersAgree
PROPERTIES
    ImplementsReceiptLedger
CHECK_DEADLOCK FALSE
