\* Safety of the wizard.  It may stop: nobody has to press a button.
SPECIFICATION Spec
CONSTANTS
    alice = alice
    bob = bob
    h1 = h1
    h2 = h2
    None = None
    Wallets <- MCWallets
    Handlers <- MCHandlers
    MaxSeals = 2
    MaxSent = 2
    MaxVisits = 1
    MaxAttempts = 2
    MaxFaults = 1
SYMMETRY Symmetry
CHECK_DEADLOCK FALSE
INVARIANTS
    ReviewShowsPrepared
    ClaimOfItsWallet
    DisabledIsCarried
    LatestConfirmedKept
    RetryOffered
