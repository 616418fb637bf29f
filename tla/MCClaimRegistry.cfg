SPECIFICATION Spec
CONSTANTS
    Researchers = {alice, bob}
    Commitments = {rc1, rc2}
    ClaimCommitments = {cc1, cc2, cc3}
    Nullifiers = {n1, n2, n3}
    Zero = Zero
    None = None
    MaxLedger = 3
SYMMETRY Symmetry
INVARIANTS
    TypeOK
    FlagsMatchReceipts
    ReceiptsNeverConflict
    BoundByAcceptedClaim
PROPERTIES
    StampsAreFinal
    ImplementsClaimLedger
