SPECIFICATION FairSpec
CONSTANTS
    w = w
    v = v
    c = c
    o1 = o1
    i1 = i1
    None = None
    Failed = Failed
    Users = {w, v, c}
    RoleOf <- OneOfEach
    Orders = {o1}
    WaiterOf <- ByTheFirst
    Items = {i1}
    MaxMoves = 3
    MaxRequests = 2
INVARIANTS TypeOK
PROPERTIES CalmReconnect SocketSettles StoreFollows KitchenHeals SeenIsMoved
CHECK_DEADLOCK FALSE
