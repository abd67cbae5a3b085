--------------------------------- MODULE Pos ---------------------------------
(***************************************************************************)
(* The cash desk (app/routers/pos.py): shifts, discounts, payments and     *)
(* refunds, with the order handlers that write the same order and table    *)
(* rows (app/routers/orders.py), as concurrent requests.                   *)
(*                                                                         *)
(* A handler reads what it needs, decides, and commits once.  Sessions run *)
(* at READ COMMITTED without row locks, so what a request read may be      *)
(* stale when it commits.  How much may come in between depends on who     *)
(* runs the handler:                                                       *)
(*   - coroutines (payments, order statuses, new orders) do not await      *)
(*     before their commit: an event loop runs one of them at a time, so   *)
(*     they interleave only when there are several API processes;          *)
(*   - plain functions (shifts, discounts, refunds) run in the thread pool *)
(*     and interleave with everything, in one process too.                 *)
(* A request that is refused ends without a trace.                         *)
(***************************************************************************)
EXTENDS Integers, FiniteSets, SequencesExt, Workflow

CONSTANTS
    Loops,              \* event loops: one per API process
    Threads,            \* thread-pool requests in flight at once
    OrderIds,           \* the orders of the evening
    Tables, TableOf,    \* cafe tables, and the table of each order
    Subtotal,           \* total_amount of each order, in hundredths
    DiscountRequests,   \* what managers may enter as a discount
    Fees,               \* tax_amount + service_fee_amount of a payment
    Tendered,           \* amount_received of a payment
    RefundAmounts,      \* what managers may refund
    None,               \* no payment
    MaxShifts,          \* bound: no shift is opened when there are that many
    MaxDiscounts,       \* bound: no discount is entered when the order has that many
    Overrides           \* may managers override the workflow?

\* Discounts are amounts or percentages, both with two decimals.
Discount == [type : {"amount", "percent"}, value : Nat \ {0}]

ASSUME DeskConstants ==
    /\ Loops \cap Threads = {}
    /\ IsFiniteSet(Threads)
    /\ TableOf \in [OrderIds -> Tables]
    /\ Subtotal \in [OrderIds -> Nat]
    /\ DiscountRequests \subseteq Discount
    /\ Fees \subseteq Nat
    /\ Tendered \subseteq Nat \ {0}
    /\ RefundAmounts \subseteq Nat \ {0}
    /\ {MaxShifts, MaxDiscounts} \subseteq Nat
    /\ Overrides \in BOOLEAN

VARIABLES
    status,     \* orders.status, "absent" before the order is created
    table,      \* cafe_tables.status
    shifts,     \* staff_shifts.status; a shift's id is its position
    discounts,  \* order_discounts of each order, in order of creation
    payments,   \* the row of payments for each order (order_id is unique)
    refunded,   \* sum of the refunds of each order's payment
    request     \* what each running request has read and is about to write

vars == <<status, table, shifts, discounts, payments, refunded, request>>

-----------------------------------------------------------------------------
Payment ==
    [shift : Nat \ {0}, discount : Nat, fee : Fees, final : Nat]

Idle == [op |-> "idle"]

Request ==
    {Idle}
    \cup [op : {"open_shift"}]
    \cup [op : {"close_shift"}, shift : Nat \ {0}]
    \cup [op : {"discount"}, order : OrderIds, discount : DiscountRequests]
    \cup [op : {"refund"}, order : OrderIds, amount : RefundAmounts]
    \cup [op : {"create"}, order : OrderIds, occupies : BOOLEAN]
    \cup [op : {"status"}, order : OrderIds, from : OrderStatuses, to : OrderStatuses, frees : BOOLEAN]
    \cup [op : {"in_shift"}, order : OrderIds, shift : Nat \ {0}, fee : Fees, received : Tendered]
    \cup [op : {"pay"}, order : OrderIds, payment : Payment, frees : BOOLEAN]

IsActive(o) == status[o] \in ActiveStatuses

LeavesFreeRegardless(o) == table[TableOf[o]] # "free"

\* The handlers free a table when no OTHER order of it is active; the column is
\* written only when that changes what was read.
LeavesFree(o) ==
    /\ \A p \in OrderIds \ {o} : TableOf[p] = TableOf[o] => ~IsActive(p)
    /\ table[TableOf[o]] # "free"

Freed(o, frees) == IF frees THEN [table EXCEPT ![TableOf[o]] = "free"] ELSE table

OpenShifts == {s \in DOMAIN shifts : shifts[s] = "open"}

\* _open_shift: the newest of them.
CurrentShift == CHOOSE s \in OpenShifts : \A r \in OpenShifts : r <= s

RoundedDown(n, d) == n \div d

\* Decimal.quantize rounds half to even.
Rounded(n, d) ==
    LET q == n \div d
        twice == 2 * (n % d)
    IN  IF twice > d \/ (twice = d /\ q % 2 = 1) THEN q + 1 ELSE q

\* One discount in hundredths: percentages are rounded one by one.
DiscountAmount(o, d) ==
    IF d.type = "percent" THEN Rounded(Subtotal[o] * d.value, 10000) ELSE d.value

Least(a, b) == IF a < b THEN a ELSE b

DiscountTotalUncapped(o, ds) == SumFunction([i \in DOMAIN ds |-> DiscountAmount(o, ds[i])])

\* _discount_total: at most the subtotal.
DiscountTotal(o, ds) ==
    Least(SumFunction([i \in DOMAIN ds |-> DiscountAmount(o, ds[i])]), Subtotal[o])

-----------------------------------------------------------------------------
(* Requests.                                                               *)

Ends(r) == request' = [request EXCEPT ![r] = Idle]
Awaits(r, read) == request[r] = Idle /\ request' = [request EXCEPT ![r] = read]

DeskUnchanged == UNCHANGED <<shifts, discounts, payments, refunded>>
RowsUnchanged == DeskUnchanged /\ UNCHANGED <<status, table>>

-----------------------------------------------------------------------------
(* Shifts, discounts and refunds: in the thread pool.                      *)

BeginOpenShift(r) ==
    /\ Len(shifts) < MaxShifts
    /\ OpenShifts = {}
    /\ Awaits(r, [op |-> "open_shift"])
    /\ RowsUnchanged

EndOpenShift(r) ==
    /\ request[r].op = "open_shift"
    /\ shifts' = Append(shifts, "open")
    /\ Ends(r)
    /\ UNCHANGED <<status, table, discounts, payments, refunded>>

BeginCloseShift(r, s) ==
    /\ shifts[s] = "open"
    /\ Awaits(r, [op |-> "close_shift", shift |-> s])
    /\ RowsUnchanged

EndCloseShift(r) ==
    /\ request[r].op = "close_shift"
    /\ shifts' = [shifts EXCEPT ![request[r].shift] = "closed"]
    /\ Ends(r)
    /\ UNCHANGED <<status, table, discounts, payments, refunded>>

BeginDiscount(r, o, d) ==
    /\ Len(discounts[o]) < MaxDiscounts
    /\ status[o] \in ActiveStatuses
    /\ Awaits(r, [op |-> "discount", order |-> o, discount |-> d])
    /\ RowsUnchanged

EndDiscountReplaces(r) ==
    /\ request[r].op = "discount"
    /\ discounts' = [discounts EXCEPT ![request[r].order] = <<request[r].discount>>]
    /\ Ends(r)
    /\ UNCHANGED <<status, table, shifts, payments, refunded>>

EndDiscount(r) ==
    /\ request[r].op = "discount"
    /\ LET o == request[r].order
       IN  discounts' = [discounts EXCEPT ![o] = Append(discounts[o], request[r].discount)]
    /\ Ends(r)
    /\ UNCHANGED <<status, table, shifts, payments, refunded>>

BeginRefundUnchecked(r, o, amount) ==
    /\ payments[o] # None
    /\ amount <= payments[o].final
    /\ Awaits(r, [op |-> "refund", order |-> o, amount |-> amount])
    /\ RowsUnchanged

BeginRefund(r, o, amount) ==
    /\ payments[o] # None
    /\ refunded[o] + amount <= payments[o].final
    /\ Awaits(r, [op |-> "refund", order |-> o, amount |-> amount])
    /\ RowsUnchanged

EndRefund(r) ==
    /\ request[r].op = "refund"
    /\ refunded' = [refunded EXCEPT ![request[r].order] = @ + request[r].amount]
    /\ Ends(r)
    /\ UNCHANGED <<status, table, shifts, discounts, payments>>

-----------------------------------------------------------------------------
(* Payments: on an event loop.                                             *)

\* The amounts that create_payment puts in the row.  (Its max(0, ...) never
\* binds: the discount is at most the subtotal.)
Charged(o, shift, fee) ==
    LET discount == DiscountTotal(o, discounts[o])
    IN  [shift |-> shift, discount |-> discount, fee |-> fee,
         final |-> Subtotal[o] - discount + fee]

BeginPayment(r, o, fee, received) ==
    /\ OpenShifts # {}
    /\ Awaits(r, [op |-> "in_shift", order |-> o, shift |-> CurrentShift,
                  fee |-> fee, received |-> received])
    /\ RowsUnchanged

\* The order, its payment and its discounts are read after the shift.
CheckPayment(r) ==
    /\ request[r].op = "in_shift"
    /\ LET o == request[r].order
           payment == Charged(o, request[r].shift, request[r].fee)
           payable == /\ status[o] \in {"served", "ready"}
                      /\ payments[o] = None
                      /\ request[r].received >= payment.final
       IN  request' = [request EXCEPT ![r] =
              IF payable
              THEN [op |-> "pay", order |-> o, payment |-> payment, frees |-> LeavesFree(o)]
              ELSE Idle]
    /\ RowsUnchanged

EndPaymentTwice(r) ==
    /\ request[r].op = "pay"
    /\ LET o == request[r].order
       IN  /\ payments' = [payments EXCEPT ![o] = request[r].payment]
           /\ status' = [status EXCEPT ![o] = "paid"]
           /\ table' = Freed(o, request[r].frees)
    /\ Ends(r)
    /\ UNCHANGED <<shifts, discounts, refunded>>

\* The unique index on payments.order_id makes a second commit fail as a whole.
EndPayment(r) ==
    /\ request[r].op = "pay"
    /\ LET o == request[r].order
       IN  IF payments[o] = None
           THEN /\ payments' = [payments EXCEPT ![o] = request[r].payment]
                /\ status' = [status EXCEPT ![o] = "paid"]
                /\ table' = Freed(o, request[r].frees)
           ELSE UNCHANGED <<payments, status, table>>
    /\ Ends(r)
    /\ UNCHANGED <<shifts, discounts, refunded>>

-----------------------------------------------------------------------------
(* The order handlers that write the same rows: on an event loop.          *)

BeginCreate(r, o) ==
    /\ status[o] = "absent"
    /\ \A l \in Loops : request[l].op = "create" => request[l].order # o
    /\ Awaits(r, [op |-> "create", order |-> o, occupies |-> table[TableOf[o]] # "occupied"])
    /\ RowsUnchanged

EndCreate(r) ==
    /\ request[r].op = "create"
    /\ LET o == request[r].order
       IN  /\ status' = [status EXCEPT ![o] = "pending"]
           /\ table' = IF request[r].occupies THEN [table EXCEPT ![TableOf[o]] = "occupied"] ELSE table
    /\ Ends(r)
    /\ DeskUnchanged

\* The statuses an order may be given: along the workflow, "served" when its
\* items are, any when a manager overrides.
Settable(o) ==
    IF Overrides THEN OrderStatuses
    ELSE TRANSITIONS[status[o]] \cup {s \in {"served"} : IsActive(o)}

BeginStatus(r, o, s) ==
    /\ status[o] # "absent"
    /\ s \in Settable(o)
    /\ Awaits(r, [op |-> "status", order |-> o, from |-> status[o], to |-> s,
                  frees |-> s \in FinalStatuses /\ LeavesFree(o)])
    /\ RowsUnchanged

\* The row is written when the status differs from the one read, whatever it is by now.
EndStatus(r) ==
    /\ request[r].op = "status"
    /\ LET q == request[r]
       IN  /\ status' = IF q.to # q.from THEN [status EXCEPT ![q.order] = q.to] ELSE status
           /\ table' = Freed(q.order, q.frees)
    /\ Ends(r)
    /\ DeskUnchanged

-----------------------------------------------------------------------------
Init ==
    /\ status = [o \in OrderIds |-> "absent"]
    /\ table = [t \in Tables |-> "free"]
    /\ shifts = <<>>
    /\ discounts = [o \in OrderIds |-> <<>>]
    /\ payments = [o \in OrderIds |-> None]
    /\ refunded = [o \in OrderIds |-> 0]
    /\ request = [r \in Loops \cup Threads |-> Idle]

ThreadStep(r) ==
    \/ BeginOpenShift(r) \/ EndOpenShift(r)
    \/ \E s \in DOMAIN shifts : BeginCloseShift(r, s)
    \/ EndCloseShift(r)
    \/ \E o \in OrderIds, d \in DiscountRequests : BeginDiscount(r, o, d)
    \/ EndDiscount(r)
    \/ \E o \in OrderIds, amount \in RefundAmounts : BeginRefund(r, o, amount)
    \/ EndRefund(r)

LoopStep(r) ==
    \/ \E o \in OrderIds, fee \in Fees, received \in Tendered : BeginPayment(r, o, fee, received)
    \/ CheckPayment(r) \/ EndPayment(r)
    \/ \E o \in OrderIds : BeginCreate(r, o)
    \/ EndCreate(r)
    \/ \E o \in OrderIds, s \in OrderStatuses : BeginStatus(r, o, s)
    \/ EndStatus(r)

Next == (\E r \in Threads : ThreadStep(r)) \/ (\E r \in Loops : LoopStep(r))

Spec == Init /\ [][Next]_vars

-----------------------------------------------------------------------------
(* Properties.                                                             *)

\* Type invariant.
TypeOK ==
    /\ status \in [OrderIds -> OrderStatuses \cup {"absent"}]
    /\ table \in [Tables -> TableStatuses]
    /\ shifts \in Seq({"open", "closed"})
    /\ discounts \in [OrderIds -> Seq(DiscountRequests)]
    /\ payments \in [OrderIds -> Payment \cup {None}]
    /\ refunded \in [OrderIds -> Nat]
    /\ request \in [Loops \cup Threads -> Request]

\* A table whose orders are all paid or cancelled is free, and one with an
\* active order is not, however payments, cancellations and new orders follow
\* one another.  It holds with one event loop and no overrides.
TableFollowsOrders ==
    \A t \in Tables :
        table[t] = "occupied" <=> \E o \in OrderIds : TableOf[o] = t /\ IsActive(o)

\* A payment once recorded is never replaced, however many API processes take
\* payments for the same order at once.
PaymentsAreFinal ==
    [][\A o \in OrderIds : payments[o] # None => payments'[o] = payments[o]]_vars

\* What a payment deducts is the total of discounts that are on record for the
\* order, in the order they were entered: none is deducted that has not been
\* granted, whatever managers enter while the guest pays.
DeductsRecordedDiscounts ==
    \A o \in OrderIds : payments[o] # None =>
        \E k \in 0 .. Len(discounts[o]) :
            payments[o].discount = DiscountTotal(o, SubSeq(discounts[o], 1, k))

\* In ten-thousandths of a hundredth: what the first k discounts of an order are exactly.
ExactDiscount(o, k) ==
    SumFunction([i \in 1 .. k |->
        discounts[o][i].value * (IF discounts[o][i].type = "percent" THEN Subtotal[o] ELSE 10000)])

\* The bill is fair: fees are charged in full, the discounts never turn it
\* negative, and rounding moves it by at most half a hundredth per discount.
FairBill ==
    \A o \in OrderIds : payments[o] # None =>
        LET p == payments[o]
            full == 10000 * Subtotal[o]
        IN  \E k \in 0 .. Len(discounts[o]) :
               LET due == full - Least(ExactDiscount(o, k), full)
                   error == 10000 * (p.final - p.fee) - due
               IN  2 * error <= 10000 * k /\ -2 * error <= 10000 * k

\* Refunds of one payment that overlap may exceed it together, since each is
\* checked against the refunds on record only; but no refund is on record without
\* a payment, and the excess is bounded: however refunds overlap and follow one
\* another, what is paid back is at most the payment once per thread.  One
\* request at a time (one thread) never exceeds it.
RefundsBounded ==
    \A o \in OrderIds : refunded[o] > 0 =>
        payments[o] # None /\ refunded[o] <= payments[o].final * Cardinality(Threads)

=============================================================================
