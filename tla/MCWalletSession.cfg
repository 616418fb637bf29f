SPECIFICATION FairSpec
CONSTANTS
    a1 = a1
    a2 = a2
    None = None
    Accounts = {a1, a2}
    MaxStrays = 1
INVARIANTS
    AddressOnTestnet
    ConnectingIsCarried
    DisconnectHolds
PROPERTIES
    FollowsAccount
