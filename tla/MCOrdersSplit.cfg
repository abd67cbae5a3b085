SPECIFICATION Spec
CONSTANTS
    w1 = w1
    w2 = w2
    m1 = m1
    c1 = c1
    t1 = t1
    t2 = t2
    k1 = k1
    None = None
    Waiters = {}
    Managers = {m1}
    Cooks = {}
    Tables = {t1}
    Menu = {"tea"}
    Prices = {1, 2}
    Keys = {}
    MaxOrders = 3
    MaxLines = 1
    MaxQty = 2
    NChecks = 2
    ItemRequests = {}
    Overrides = FALSE
    SelfMoves = TRUE
    PartialSplits = FALSE
INVARIANTS TypeOK BilledAsListed
PROPERTIES SplitKeepsOwed
CHECK_DEADLOCK FALSE
