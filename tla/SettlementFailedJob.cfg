SPECIFICATION Spec
CONSTANTS
    n1 = n1
    alice = alice
    rc1 = rc1
    rc2 = rc2
    cc1 = cc1
    Hashes = {h1}
    Researchers = {alice}
    Commitments = {rc1, rc2}
    ClaimCommitments = {cc1}
    Nullifiers = {n1}
    Call <- MCCall
    Drafts <- OwnDrafts
    Api = {a1}
    Workers = {w1}
    MaxAttempts = 2
    MaxFaults = 1
    None = None
PROPERTIES
    RecoveryRequeues
CHECK_DEADLOCK FALSE
