SPECIFICATION SideSpec
CONSTANTS
    Tokens = {t1, t2}
    Requests = {r1, r2, r3, r4}
    TTL = 2
    MaxTime = 3
    Never = Never
    Accounts = {a1, a2}
    Hashes = {h1, h2}
    Tabs = {left, right}
    MaxSaves = 2
    Wallets = {w1, w2}
    Identifiers = {i1, i2}
    MaxFlights = 2
    None = None
    Blank = Blank
SYMMETRY Symmetry
INVARIANTS
    RefusedOnlyWhenSpent
    KeptStampIsFound
    BoardIsOfWallet
    ReceiptIsOfLink
    VerdictIsOfLastAsked
PROPERTIES
    ImplementsOneShotLink
CHECK_DEADLOCK FALSE
