\* A reload, or a wallet that disconnects, between the ledger's answer and the
\* receipt, and a user who keeps pressing what the screen offers and never
\* throws the draft away.
SPECIFICATION ResumeSpec
CONSTANTS
    alice = alice
    bob = bob
    h1 = h1
    h2 = h2
    None = None
    Wallets = {alice}
    Handlers = {h1}
    MaxSeals = 2
    MaxSent = 1
    MaxVisits = 1
    MaxAttempts = 1
    MaxFaults = 1
CHECK_DEADLOCK FALSE
PROPERTIES
    PendingSyncResumes
