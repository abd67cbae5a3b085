\* One API process: payments, cancellations and new orders of one table, while shifts, discounts
\* and refunds go on in two threads.
SPECIFICATION Spec
CONSTANTS
    l1 = l1
    l2 = l2
    h1 = h1
    h2 = h2
    o1 = o1
    o2 = o2
    t1 = t1
    Loops = {l1}
    Threads = {h1, h2}
    OrderIds = {o1, o2}
    Tables = {t1}
    TableOf <- TheTable
    Subtotal <- Amounts
    DiscountRequests <- JustOne
    Fees = {1}
    Tendered = {2, 9}
    RefundAmounts = {3}
    MaxShifts = 1
    MaxDiscounts = 1
    Overrides = FALSE
    None = None
SYMMETRY Symmetric
INVARIANTS TableFollowsOrders RefundsBounded
\* Every order may be closed and every bound reached: nothing is left to do.
CHECK_DEADLOCK FALSE
