SPECIFICATION Spec
CONSTANTS
    t1 = t1
    t2 = t2
    e1 = e1
    Texts = {t1, t2}
    Evidence = {e1}
    Blank = Blank
    MaxSeals = 2
    MaxRunning = 2
    None = None
INVARIANTS
    StateIsTrue
    ApprovedTogether
    ClearedStaysClear
