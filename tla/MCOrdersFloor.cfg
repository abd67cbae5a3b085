\* Two waiters and the kitchen work two tables; nobody overrides the workflow.
SPECIFICATION Spec
CONSTANTS
    w1 = w1
    w2 = w2
    m1 = m1
    c1 = c1
    t1 = t1
    t2 = t2
    k1 = k1
    None = None
    Waiters = {w1, w2}
    Managers = {}
    Cooks = {c1}
    Tables = {t1, t2}
    Menu = {"tea"}
    Prices = {1}
    Keys = {k1}
    MaxOrders = 2
    MaxLines = 1
    MaxQty = 2
    NChecks = 2
    ItemRequests = {"pending", "ready", "served"}
    Overrides = FALSE
    SelfMoves = FALSE
    PartialSplits = FALSE
SYMMETRY Symmetric
INVARIANTS OneOrderPerRequest OccupiedWhileActive FreeWhenDone
PROPERTIES NeverBackwards
\* Every order may be closed and the bound on rows reached: nothing is left to do.
CHECK_DEADLOCK FALSE
