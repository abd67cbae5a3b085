SPECIFICATION Spec
CONSTANTS
    tea = tea
    None = None
    Dishes = {tea}
    Price <- Prices
    Opening <- TwoTeas
    Extra <- OneTea
    Rate = 10
    Typed = {3}
    Tendered = {80}
    SumsAbove = {130}
    SumsBelow = {}
    TiesLost = {}
    MaxOrders = 4
    MaxChecks = 3
    MaxJobs = 2
    MaxMoves = 1
INVARIANTS TypeOK UnitsConserved AsksTheBill OneJobPerScreen ReceiptNearCharge
PROPERTIES SaysPaidWhenPaid SplitKeepsUnits
CHECK_DEADLOCK FALSE
