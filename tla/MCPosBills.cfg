\* Managers enter discounts, also while the guest pays; shares of odd amounts are rounded.
SPECIFICATION Spec
CONSTANTS
    l1 = l1
    l2 = l2
    h1 = h1
    h2 = h2
    o1 = o1
    o2 = o2
    t1 = t1
    Loops = {l1, l2}
    Threads = {h1}
    OrderIds = {o1}
    Tables = {t1}
    TableOf <- TheTable
    Subtotal <- Amounts
    DiscountRequests <- AllKinds
    Fees = {0, 1}
    Tendered = {1, 6}
    RefundAmounts = {}
    MaxShifts = 1
    MaxDiscounts = 3
    Overrides = FALSE
    None = None
SYMMETRY Symmetric
INVARIANTS TypeOK DeductsRecordedDiscounts FairBill
PROPERTIES PaymentsAreFinal
\* Every order may be closed and every bound reached: nothing is left to do.
CHECK_DEADLOCK FALSE
