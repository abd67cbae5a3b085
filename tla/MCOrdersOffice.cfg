SPECIFICATION Spec
CONSTANTS
    w1 = w1
    w2 = w2
    m1 = m1
    c1 = c1
    t1 = t1
    t2 = t2
    k1 = k1
    None = None
    Waiters = {}
    Managers = {m1}
    Cooks = {c1}
    Tables = {t1}
    Menu = {"tea"}
    Prices = {1}
    Keys = {}
    MaxOrders = 2
    MaxLines = 1
    MaxQty = 1
    NChecks = 2
    ItemRequests = {"ready", "served"}
    Overrides = TRUE
    SelfMoves = TRUE
    PartialSplits = TRUE
INVARIANTS StampsFollowStatus
PROPERTIES UnloggedOnlyBySplit
CHECK_DEADLOCK FALSE
