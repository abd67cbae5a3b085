------------------------------ MODULE PosProofs ------------------------------
(***************************************************************************)
(* Theorems about the cash desk, for any orders, tables, users, amounts    *)
(* and bounds.                                                             *)
(***************************************************************************)
EXTENDS Pos, SequenceTheorems, SumLemmas

-----------------------------------------------------------------------------
(* The shape of the state.  Amounts are left open: they are sums, into     *)
(* which only the types and the fairness of bills, further down, look.     *)

RequestOK(q) ==
    /\ q.op \in {"discount", "refund", "create", "status", "in_shift", "pay"} => q.order \in OrderIds
    /\ q.op = "discount" => q.discount \in DiscountRequests
    /\ q.op = "refund" => q.amount \in RefundAmounts
    /\ q.op = "status" => q.from \in OrderStatuses /\ q.to \in OrderStatuses

Shape ==
    /\ status \in [OrderIds -> OrderStatuses \cup {"absent"}]
    /\ table \in [Tables -> TableStatuses]
    /\ discounts \in [OrderIds -> Seq(DiscountRequests)]
    /\ payments = [o \in OrderIds |-> payments[o]]
    /\ refunded \in [OrderIds -> Nat]
    /\ request = [r \in Loops \cup Threads |-> request[r]]
    /\ \A r \in Loops \cup Threads : RequestOK(request[r])
    /\ \A l \in Loops : request[l].op \in {"idle", "create", "status", "in_shift", "pay"}
    /\ \A h \in Threads : request[h].op \in {"idle", "open_shift", "close_shift", "discount", "refund"}

\* The columns and requests keep their shape under every request.
LEMMA ShapeHolds == Spec => []Shape
<1>1. Init => Shape
  BY DeskConstants DEF Init, Shape, RequestOK, Idle, TableStatuses, OrderStatuses
<1>2. Shape /\ [Next]_vars => Shape'
  <2> SUFFICES ASSUME Shape, [Next]_vars PROVE Shape'
    OBVIOUS
  <2> USE DeskConstants DEF Shape, RequestOK, Awaits, Ends, Idle
  <2>1. ASSUME NEW r \in Threads, BeginOpenShift(r) PROVE Shape'
    BY <2>1 DEF BeginOpenShift, RowsUnchanged, DeskUnchanged
  <2>2. ASSUME NEW r \in Threads, EndOpenShift(r) PROVE Shape'
    BY <2>2 DEF EndOpenShift
  <2>3. ASSUME NEW r \in Threads, NEW s \in DOMAIN shifts, BeginCloseShift(r, s) PROVE Shape'
    BY <2>3 DEF BeginCloseShift, RowsUnchanged, DeskUnchanged
  <2>4. ASSUME NEW r \in Threads, EndCloseShift(r) PROVE Shape'
    BY <2>4 DEF EndCloseShift
  <2>5. ASSUME NEW r \in Threads, NEW o \in OrderIds, NEW d \in DiscountRequests, BeginDiscount(r, o, d)
        PROVE Shape'
    BY <2>5 DEF BeginDiscount, RowsUnchanged, DeskUnchanged
  <2>6. ASSUME NEW r \in Threads, EndDiscount(r) PROVE Shape'
    <3>1. request[r].order \in OrderIds /\ request[r].discount \in DiscountRequests
      BY <2>6 DEF EndDiscount
    <3>2. discounts' \in [OrderIds -> Seq(DiscountRequests)]
      BY <2>6, <3>1 DEF EndDiscount
    <3>3. QED
      BY <2>6, <3>2 DEF EndDiscount
  <2>7. ASSUME NEW r \in Threads, NEW o \in OrderIds, NEW amount \in RefundAmounts, BeginRefund(r, o, amount)
        PROVE Shape'
    BY <2>7 DEF BeginRefund, RowsUnchanged, DeskUnchanged
  <2>8. ASSUME NEW r \in Threads, EndRefund(r) PROVE Shape'
    <3>1. request[r].order \in OrderIds /\ request[r].amount \in Nat
      BY <2>8 DEF EndRefund
    <3>2. refunded' \in [OrderIds -> Nat]
      BY <2>8, <3>1 DEF EndRefund
    <3>3. QED
      BY <2>8, <3>2 DEF EndRefund
  <2>9. ASSUME NEW r \in Loops, NEW o \in OrderIds, NEW fee \in Fees, NEW received \in Tendered,
               BeginPayment(r, o, fee, received)
        PROVE Shape'
    BY <2>9 DEF BeginPayment, RowsUnchanged, DeskUnchanged
  <2>10. ASSUME NEW r \in Loops, CheckPayment(r) PROVE Shape'
    <3> DEFINE o == request[r].order
               p == Charged(o, request[r].shift, request[r].fee)
               q == [op |-> "pay", order |-> o, payment |-> p, frees |-> LeavesFree(o)]
    <3>1. o \in OrderIds
      BY <2>10 DEF CheckPayment
    <3>2. PICK x \in {q, Idle} : request' = [request EXCEPT ![r] = x]
      BY <2>10 DEF CheckPayment
    <3>3. x.op \in {"idle", "pay"} /\ (x.op = "pay" => x.order \in OrderIds)
      <4> HIDE DEF o, p
      <4>1. QED
        BY <3>1
    <3> HIDE DEF o, p, q
    <3>4. UNCHANGED <<status, table, discounts, payments, refunded>>
      BY <2>10 DEF CheckPayment, RowsUnchanged, DeskUnchanged
    <3>5. QED
      BY <3>2, <3>3, <3>4
  <2>11. ASSUME NEW r \in Loops, EndPayment(r) PROVE Shape'
    <3>1. request' = [request EXCEPT ![r] = Idle] /\ UNCHANGED <<discounts, refunded>>
      BY <2>11 DEF EndPayment
    <3>2. status' \in [OrderIds -> OrderStatuses \cup {"absent"}]
      BY <2>11 DEF EndPayment, OrderStatuses, FinalStatuses
    <3>3. table' \in [Tables -> TableStatuses]
      BY <2>11 DEF EndPayment, Freed, TableStatuses
    <3>4. payments' = [o \in OrderIds |-> payments'[o]]
      BY <2>11 DEF EndPayment
    <3>5. QED
      BY <3>1, <3>2, <3>3, <3>4
  <2>12. ASSUME NEW r \in Loops, NEW o \in OrderIds, BeginCreate(r, o) PROVE Shape'
    BY <2>12 DEF BeginCreate, RowsUnchanged, DeskUnchanged
  <2>13. ASSUME NEW r \in Loops, EndCreate(r) PROVE Shape'
    BY <2>13 DEF EndCreate, DeskUnchanged, OrderStatuses, ActiveStatuses, TableStatuses
  <2>14. ASSUME NEW r \in Loops, NEW o \in OrderIds, NEW s \in OrderStatuses, BeginStatus(r, o, s)
         PROVE Shape'
    BY <2>14 DEF BeginStatus, RowsUnchanged, DeskUnchanged
  <2>15. ASSUME NEW r \in Loops, EndStatus(r) PROVE Shape'
    BY <2>15 DEF EndStatus, Freed, DeskUnchanged, TableStatuses
  <2>16. CASE UNCHANGED vars
    BY <2>16 DEF vars
  <2>17. QED
    BY <2>1, <2>2, <2>3, <2>4, <2>5, <2>6, <2>7, <2>8, <2>9, <2>10, <2>11, <2>12, <2>13, <2>14, <2>15, <2>16
       DEF Next, ThreadStep, LoopStep
<1>3. QED
  BY <1>1, <1>2, PTL DEF Spec

-----------------------------------------------------------------------------
(* Payments and discounts, with any number of processes and threads.       *)

\* A payment once recorded is never replaced: the unique index on
\* payments.order_id decides between the processes.
THEOREM PaymentsNeverReplaced == Spec => PaymentsAreFinal
<1>1. ASSUME Shape, [Next]_vars
      PROVE [\A o \in OrderIds : payments[o] # None => payments'[o] = payments[o]]_vars
  <2>1. CASE UNCHANGED payments
    BY <2>1
  <2>2. ASSUME NEW r \in Loops, EndPayment(r)
        PROVE \A o \in OrderIds : payments[o] # None => payments'[o] = payments[o]
    BY <1>1, <2>2 DEF Shape, EndPayment
  <2>3. CASE UNCHANGED vars
    BY <2>3
  <2>4. QED
    BY <1>1, <2>1, <2>2, <2>3
       DEF Next, ThreadStep, LoopStep, RowsUnchanged, DeskUnchanged, BeginOpenShift, EndOpenShift,
           BeginCloseShift, EndCloseShift, BeginDiscount, EndDiscount, BeginRefund, EndRefund,
           BeginPayment, CheckPayment, BeginCreate, EndCreate, BeginStatus, EndStatus
<1>2. QED
  BY <1>1, ShapeHolds, PTL DEF Spec, PaymentsAreFinal

\* A deduction is on record when it is the total of a prefix of the discounts.
OnRecord(o, deducted, ds) ==
    \E k \in 0 .. Len(ds) : deducted = DiscountTotal(o, SubSeq(ds, 1, k))

\* Deductions stay on record: discounts are only added at the end.
LEMMA RecordGrows ==
    ASSUME NEW o, NEW deducted, NEW S, NEW ds \in Seq(S), NEW d \in S, OnRecord(o, deducted, ds)
    PROVE  OnRecord(o, deducted, Append(ds, d))
<1>1. PICK k \in 0 .. Len(ds) : deducted = DiscountTotal(o, SubSeq(ds, 1, k))
  BY DEF OnRecord
<1>2. SubSeq(Append(ds, d), 1, k) = SubSeq(ds, 1, k)
  OBVIOUS
<1>3. k \in 0 .. Len(Append(ds, d))
  OBVIOUS
<1>4. QED
  BY <1>1, <1>2, <1>3 DEF OnRecord

LEMMA WholeRecord ==
    ASSUME NEW o, NEW S, NEW ds \in Seq(S)
    PROVE  OnRecord(o, DiscountTotal(o, ds), ds)
<1>1. SubSeq(ds, 1, Len(ds)) = ds
  OBVIOUS
<1>2. Len(ds) \in 0 .. Len(ds)
  OBVIOUS
<1>3. QED
  BY <1>1, <1>2 DEF OnRecord

DeductionsOnRecord ==
    /\ \A o \in OrderIds : payments[o] # None => OnRecord(o, payments[o].discount, discounts[o])
    /\ \A l \in Loops : request[l].op = "pay" =>
          OnRecord(request[l].order, request[l].payment.discount, discounts[request[l].order])

\* No other step on the loop is about to record a payment.
LEMMA OtherStepsPayNothing ==
    ASSUME Shape, NEW r \in Loops, LoopStep(r), ~CheckPayment(r), ~EndPayment(r)
    PROVE  \A l \in Loops : request'[l] = request[l] \/ request'[l].op # "pay"
<1> USE DeskConstants DEF Shape
<1>1. CASE EndCreate(r) \/ EndStatus(r)
  <2>1. request' = [request EXCEPT ![r] = Idle]
    BY <1>1 DEF EndCreate, EndStatus, Ends
  <2>2. QED
    BY <2>1 DEF Idle
<1>2. ASSUME NEW o \in OrderIds, NEW fee \in Fees, NEW received \in Tendered,
             BeginPayment(r, o, fee, received)
      PROVE  \A l \in Loops : request'[l] = request[l] \/ request'[l].op # "pay"
  BY <1>2 DEF BeginPayment, Awaits
<1>3. ASSUME NEW o \in OrderIds, BeginCreate(r, o)
      PROVE  \A l \in Loops : request'[l] = request[l] \/ request'[l].op # "pay"
  BY <1>3 DEF BeginCreate, Awaits
<1>4. ASSUME NEW o \in OrderIds, NEW s \in OrderStatuses, BeginStatus(r, o, s)
      PROVE  \A l \in Loops : request'[l] = request[l] \/ request'[l].op # "pay"
  BY <1>4 DEF BeginStatus, Awaits
<1>5. QED
  BY <1>1, <1>2, <1>3, <1>4 DEF LoopStep

LEMMA AllOnRecord == Spec => []DeductionsOnRecord
<1>1. Init => DeductionsOnRecord
  BY DEF Init, DeductionsOnRecord, Idle
<1>2. Shape /\ DeductionsOnRecord /\ [Next]_vars => DeductionsOnRecord'
  <2> SUFFICES ASSUME Shape, DeductionsOnRecord, [Next]_vars PROVE DeductionsOnRecord'
    OBVIOUS
  <2> USE DeskConstants DEF Shape, RequestOK
  <2>1. ASSUME UNCHANGED <<payments, discounts>>,
               \A l \in Loops : request'[l] = request[l] \/ request'[l].op # "pay"
        PROVE DeductionsOnRecord'
    BY <2>1 DEF DeductionsOnRecord
  <2>2. ASSUME NEW r \in Threads, EndDiscount(r) PROVE DeductionsOnRecord'
    <3> DEFINE o == request[r].order
               d == request[r].discount
    <3>1. o \in OrderIds /\ d \in DiscountRequests
      BY <2>2 DEF EndDiscount
    <3>2. discounts' = [discounts EXCEPT ![o] = Append(discounts[o], d)] /\ payments' = payments
      BY <2>2 DEF EndDiscount
    <3>3. \A l \in Loops : request'[l] = request[l]
      BY <2>2 DEF EndDiscount, Ends
    <3>4. \A p \in OrderIds : discounts'[p] = discounts[p] \/ discounts'[p] = Append(discounts[p], d)
      BY <3>1, <3>2
    <3>5. ASSUME NEW p \in OrderIds, NEW x, OnRecord(p, x, discounts[p]) PROVE OnRecord(p, x, discounts'[p])
      <4>1. CASE discounts'[p] = discounts[p]
        BY <3>5, <4>1
      <4>2. CASE discounts'[p] = Append(discounts[p], d)
        <5>1. discounts[p] \in Seq(DiscountRequests)
          OBVIOUS
        <5> HIDE DEF o, d
        <5>2. QED
          BY <3>1, <3>5, <4>2, <5>1, RecordGrows
      <4>3. QED
        BY <3>4, <4>1, <4>2
    <3> HIDE DEF o, d
    <3>6. QED
      BY <3>2, <3>3, <3>5 DEF DeductionsOnRecord
  <2>3. ASSUME NEW r \in Loops, CheckPayment(r) PROVE DeductionsOnRecord'
    <3> DEFINE o == request[r].order
    <3>1. o \in OrderIds /\ UNCHANGED <<payments, discounts>>
      BY <2>3 DEF CheckPayment, RowsUnchanged, DeskUnchanged
    <3>2. \A l \in Loops \ {r} : request'[l] = request[l]
      BY <2>3 DEF CheckPayment
    <3>3. request'[r].op = "pay" =>
             /\ request'[r].order = o
             /\ request'[r].payment.discount = DiscountTotal(o, discounts[o])
      BY <2>3 DEF CheckPayment, Charged, Idle
    <3>4. OnRecord(o, DiscountTotal(o, discounts[o]), discounts[o])
      BY <3>1, WholeRecord
    <3> HIDE DEF o
    <3>5. ASSUME NEW l \in Loops, request'[l].op = "pay"
          PROVE  OnRecord(request'[l].order, request'[l].payment.discount, discounts[request'[l].order])
      <4>1. CASE l = r
        BY <3>3, <3>4, <3>5, <4>1
      <4>2. CASE l # r
        BY <3>2, <3>5, <4>2 DEF DeductionsOnRecord
      <4>3. QED
        BY <4>1, <4>2
    <3>6. QED
      BY <3>1, <3>5 DEF DeductionsOnRecord
  <2>4. ASSUME NEW r \in Loops, EndPayment(r) PROVE DeductionsOnRecord'
    <3>1. request[r].op = "pay" /\ request[r].order \in OrderIds /\ discounts' = discounts
      BY <2>4 DEF EndPayment
    <3>2. \A o \in OrderIds : payments'[o] # payments[o] =>
             o = request[r].order /\ payments'[o] = request[r].payment
      BY <2>4, <3>1 DEF EndPayment
    <3>3. \A l \in Loops : request'[l] = request[l] \/ request'[l].op # "pay"
      BY <2>4 DEF EndPayment, Ends, Idle
    <3>4. ASSUME NEW o \in OrderIds, payments'[o] # None
          PROVE  OnRecord(o, payments'[o].discount, discounts[o])
      <4>1. CASE payments'[o] = payments[o]
        BY <3>4, <4>1 DEF DeductionsOnRecord
      <4>2. CASE payments'[o] # payments[o]
        <5>1. OnRecord(request[r].order, request[r].payment.discount, discounts[request[r].order])
          BY <3>1 DEF DeductionsOnRecord
        <5>2. o = request[r].order /\ payments'[o] = request[r].payment
          BY <3>2, <4>2
        <5>3. QED
          BY <5>1, <5>2
      <4>3. QED
        BY <4>1, <4>2
    <3>5. QED
      BY <3>1, <3>3, <3>4 DEF DeductionsOnRecord
  <2>5. CASE UNCHANGED vars
    BY <2>5 DEF vars, DeductionsOnRecord
  <2>6. ASSUME NEW r \in Threads, ThreadStep(r), ~EndDiscount(r) PROVE DeductionsOnRecord'
    <3>1. UNCHANGED <<payments, discounts>>
      BY <2>6
         DEF ThreadStep, RowsUnchanged, DeskUnchanged, BeginOpenShift, EndOpenShift, BeginCloseShift,
             EndCloseShift, BeginDiscount, BeginRefund, EndRefund
    <3>2. \A l \in Loops : request'[l] = request[l]
      BY <2>6
         DEF ThreadStep, Awaits, Ends, BeginOpenShift, EndOpenShift, BeginCloseShift, EndCloseShift,
             BeginDiscount, BeginRefund, EndRefund
    <3>3. QED
      BY <2>1, <3>1, <3>2
  <2>7. ASSUME NEW r \in Loops, LoopStep(r), ~CheckPayment(r), ~EndPayment(r) PROVE DeductionsOnRecord'
    <3>1. UNCHANGED <<payments, discounts>>
      BY <2>7
         DEF LoopStep, RowsUnchanged, DeskUnchanged, BeginPayment, BeginCreate, EndCreate, BeginStatus,
             EndStatus
    <3>2. \A l \in Loops : request'[l] = request[l] \/ request'[l].op # "pay"
      BY <2>7, OtherStepsPayNothing
    <3>3. QED
      BY <2>1, <3>1, <3>2
  <2>8. QED
    BY <2>2, <2>3, <2>4, <2>5, <2>6, <2>7 DEF Next
<1>3. QED
  BY <1>1, <1>2, ShapeHolds, PTL DEF Spec

\* No payment deducts a discount that is not on record for its order, with any
\* number of managers entering discounts while any number of processes take payments.
THEOREM DeductionsAreRecorded == Spec => []DeductsRecordedDiscounts
<1>1. DeductionsOnRecord => DeductsRecordedDiscounts
  BY DEF DeductionsOnRecord, DeductsRecordedDiscounts, OnRecord
<1>2. QED
  BY <1>1, AllOnRecord, PTL

-----------------------------------------------------------------------------
(* Orders and tables, with one event loop and no overrides: nobody else     *)
(* writes these rows, so what a request on the loop has read still holds.   *)

OneLoop == \A k, l \in Loops : k = l

StatusesOf(q) == q.op = "status" =>
    /\ q.from = status[q.order]
    /\ q.from \in ActiveStatuses
    /\ q.frees <=> q.to \in FinalStatuses /\ LeavesFree(q.order)

PaysOf(q) == q.op = "pay" =>
    /\ status[q.order] \in {"served", "ready"}
    /\ q.frees <=> LeavesFree(q.order)

CreatesOf(q) == q.op = "create" =>
    /\ status[q.order] = "absent"
    /\ q.occupies <=> table[TableOf[q.order]] # "occupied"

PaidForIsPaid == \A o \in OrderIds : payments[o] # None => status[o] = "paid"

ReadsAreCurrent == \A l \in Loops : StatusesOf(request[l]) /\ PaysOf(request[l]) /\ CreatesOf(request[l])

FloorInv ==
    /\ ReadsAreCurrent
    /\ PaidForIsPaid
    /\ TableFollowsOrders
    /\ table \in [Tables -> {"free", "occupied"}]

\* A step that leaves the rows alone and the requests on the loop that check
\* what they have read keeps the invariant.
LEMMA FloorUntouched ==
    ASSUME Shape, FloorInv, UNCHANGED <<status, table, payments>>,
           \A l \in Loops :
              \/ request'[l] = request[l]
              \/ StatusesOf(request'[l]) /\ PaysOf(request'[l]) /\ CreatesOf(request'[l])
    PROVE  FloorInv'
<1>1. ReadsAreCurrent'
  BY DEF FloorInv, ReadsAreCurrent, StatusesOf, PaysOf, CreatesOf, LeavesFree, IsActive
<1>2. PaidForIsPaid' /\ TableFollowsOrders'
  BY DEF FloorInv, PaidForIsPaid, TableFollowsOrders, IsActive
<1>3. QED
  BY <1>1, <1>2 DEF FloorInv

\* When an order leaves for good, its table is freed exactly if it was the last
\* active one there.
LEMMA LeavingKeepsTables ==
    ASSUME Shape, FloorInv, NEW o \in OrderIds, status[o] \in ActiveStatuses,
           NEW s \in FinalStatuses, status' = [status EXCEPT ![o] = s],
           table' = IF LeavesFree(o) THEN [table EXCEPT ![TableOf[o]] = "free"] ELSE table
    PROVE  TableFollowsOrders' /\ table' \in [Tables -> {"free", "occupied"}]
<1> USE DeskConstants DEF Shape, FloorInv
<1>1. TableOf[o] \in Tables /\ table[TableOf[o]] = "occupied"
  BY DEF TableFollowsOrders, IsActive
<1>2. \A p \in OrderIds : IsActive(p)' <=> p # o /\ IsActive(p)
  BY DEF IsActive, ActiveStatuses, FinalStatuses
<1>3. \A t \in Tables \ {TableOf[o]} : table'[t] = table[t]
  BY <1>1
<1>4. table'[TableOf[o]] = "occupied" <=> \E p \in OrderIds : TableOf[p] = TableOf[o] /\ p # o /\ IsActive(p)
  <2>1. CASE LeavesFree(o)
    <3>1. table'[TableOf[o]] = "free"
      BY <1>1, <2>1
    <3>2. QED
      BY <2>1, <3>1 DEF LeavesFree
  <2>2. CASE ~LeavesFree(o)
    BY <1>1, <2>2 DEF LeavesFree
  <2>3. QED
    BY <2>1, <2>2
<1>5. TableFollowsOrders'
  <2> SUFFICES ASSUME NEW t \in Tables
               PROVE  table'[t] = "occupied" <=> \E p \in OrderIds : TableOf[p] = t /\ IsActive(p)'
    BY DEF TableFollowsOrders
  <2>1. CASE t = TableOf[o]
    BY <1>2, <1>4, <2>1
  <2>2. CASE t # TableOf[o]
    BY <1>2, <1>3, <2>2 DEF TableFollowsOrders
  <2>3. QED
    BY <2>1, <2>2
<1>6. QED
  BY <1>1, <1>5

\* With one process and no overrides, tables are occupied exactly while they have
\* active orders, through any sequence of payments, cancellations and new orders,
\* and whatever shifts, discounts and refunds go on at the same time.
THEOREM OneProcessKeepsFloor ==
    ASSUME OneLoop, ~Overrides
    PROVE  Spec => []TableFollowsOrders
<1> USE DeskConstants
<1>1. Init => FloorInv
  BY DEF Init, FloorInv, ReadsAreCurrent, StatusesOf, PaysOf, CreatesOf, PaidForIsPaid, TableFollowsOrders,
         IsActive, ActiveStatuses, Idle
<1>2. Shape /\ FloorInv /\ [Next]_vars => FloorInv'
  <2> SUFFICES ASSUME Shape, FloorInv, [Next]_vars PROVE FloorInv'
    OBVIOUS
  <2> USE OneLoop DEF OneLoop
  <2>1. ASSUME NEW r \in Threads, ThreadStep(r) PROVE FloorInv'
    <3>1. UNCHANGED <<status, table, payments>>
      BY <2>1
         DEF ThreadStep, RowsUnchanged, DeskUnchanged, BeginOpenShift, EndOpenShift, BeginCloseShift,
             EndCloseShift, BeginDiscount, EndDiscount, BeginRefund, EndRefund
    <3>2. \A l \in Loops : request'[l] = request[l]
      BY <2>1
         DEF ThreadStep, Awaits, Ends, BeginOpenShift, EndOpenShift, BeginCloseShift, EndCloseShift,
             BeginDiscount, EndDiscount, BeginRefund, EndRefund, Shape
    <3>3. QED
      BY <3>1, <3>2, FloorUntouched
  <2>2. ASSUME NEW r \in Loops, NEW o \in OrderIds, NEW fee \in Fees, NEW received \in Tendered,
               BeginPayment(r, o, fee, received)
        PROVE  FloorInv'
    <3>1. UNCHANGED <<status, table, payments>>
      BY <2>2 DEF BeginPayment, RowsUnchanged, DeskUnchanged
    <3>2. request'[r].op = "in_shift"
      BY <2>2 DEF BeginPayment, Awaits, Shape
    <3>3. StatusesOf(request'[r]) /\ PaysOf(request'[r]) /\ CreatesOf(request'[r])
      BY <3>2 DEF StatusesOf, PaysOf, CreatesOf
    <3>4. QED
      BY <3>1, <3>3, FloorUntouched
  <2>3. ASSUME NEW r \in Loops, CheckPayment(r) PROVE FloorInv'
    <3> DEFINE o == request[r].order
               q == request'[r]
    <3>1. UNCHANGED <<status, table, payments>>
      BY <2>3 DEF CheckPayment, RowsUnchanged, DeskUnchanged
    <3>2. \/ q.op = "idle"
          \/ /\ q.op = "pay"
             /\ q.order = o
             /\ status[o] \in {"served", "ready"}
             /\ q.frees <=> LeavesFree(o)
      BY <2>3 DEF CheckPayment, Idle, Shape
    <3>3. StatusesOf(q) /\ PaysOf(q) /\ CreatesOf(q)
      BY <3>2 DEF StatusesOf, PaysOf, CreatesOf
    <3>4. QED
      BY <3>1, <3>3, FloorUntouched
  <2>4. ASSUME NEW r \in Loops, EndPayment(r) PROVE FloorInv'
    <3> DEFINE o == request[r].order
    <3>1. o \in OrderIds /\ request[r].op = "pay"
      BY <2>4 DEF EndPayment, Shape, RequestOK
    <3>2. status[o] \in {"served", "ready"} /\ (request[r].frees <=> LeavesFree(o))
      BY <3>1 DEF FloorInv, ReadsAreCurrent, PaysOf
    <3>3. payments[o] = None
      BY <3>1, <3>2 DEF FloorInv, PaidForIsPaid
    <3>4. /\ status' = [status EXCEPT ![o] = "paid"]
          /\ table' = Freed(o, request[r].frees)
          /\ payments' = [payments EXCEPT ![o] = request[r].payment]
      BY <2>4, <3>3 DEF EndPayment
    <3>5. \A l \in Loops : request'[l].op = "idle"
      BY <2>4 DEF EndPayment, Ends, Idle, Shape
    <3>6. TableFollowsOrders' /\ table' \in [Tables -> {"free", "occupied"}]
      <4>1. status[o] \in ActiveStatuses /\ "paid" \in FinalStatuses
        BY <3>2 DEF ActiveStatuses, FinalStatuses
      <4>2. table' = IF LeavesFree(o) THEN [table EXCEPT ![TableOf[o]] = "free"] ELSE table
        BY <3>2, <3>4 DEF Freed
      <4> HIDE DEF o
      <4>3. QED
        BY <3>1, <3>4, <4>1, <4>2, LeavingKeepsTables
    <3>7. PaidForIsPaid'
      BY <3>1, <3>4 DEF Shape, FloorInv, PaidForIsPaid
    <3>8. QED
      BY <3>5, <3>6, <3>7 DEF FloorInv, ReadsAreCurrent, StatusesOf, PaysOf, CreatesOf
  <2>5. ASSUME NEW r \in Loops, NEW o \in OrderIds, BeginCreate(r, o) PROVE FloorInv'
    <3> DEFINE q == request'[r]
    <3>1. UNCHANGED <<status, table, payments>>
      BY <2>5 DEF BeginCreate, RowsUnchanged, DeskUnchanged
    <3>2. /\ q.op = "create"
          /\ q.order = o
          /\ status[o] = "absent"
          /\ q.occupies <=> table[TableOf[o]] # "occupied"
      BY <2>5 DEF BeginCreate, Awaits, Shape
    <3>3. StatusesOf(q) /\ PaysOf(q) /\ CreatesOf(q)
      BY <3>2 DEF StatusesOf, PaysOf, CreatesOf
    <3>4. QED
      BY <3>1, <3>3, FloorUntouched
  <2>6. ASSUME NEW r \in Loops, EndCreate(r) PROVE FloorInv'
    <3> DEFINE o == request[r].order
               t == TableOf[o]
    <3>1. o \in OrderIds /\ request[r].op = "create" /\ payments' = payments
      BY <2>6 DEF EndCreate, DeskUnchanged, Shape, RequestOK
    <3>2. status[o] = "absent" /\ (request[r].occupies <=> table[t] # "occupied") /\ t \in Tables
      BY <3>1 DEF FloorInv, ReadsAreCurrent, CreatesOf
    <3>3. status' = [status EXCEPT ![o] = "pending"]
      BY <2>6 DEF EndCreate
    <3>4. table' = [table EXCEPT ![t] = "occupied"]
      <4>1. table' = IF request[r].occupies THEN [table EXCEPT ![t] = "occupied"] ELSE table
        BY <2>6 DEF EndCreate
      <4>2. CASE request[r].occupies
        BY <4>1, <4>2
      <4>3. CASE ~request[r].occupies
        BY <3>2, <4>1, <4>3 DEF FloorInv
      <4>4. QED
        BY <4>2, <4>3
    <3>5. \A l \in Loops : request'[l].op = "idle"
      BY <2>6 DEF EndCreate, Ends, Idle, Shape
    <3>6. \A p \in OrderIds : IsActive(p)' <=> p = o \/ IsActive(p)
      BY <3>1, <3>3 DEF IsActive, ActiveStatuses, Shape
    <3>7. TableFollowsOrders' /\ table' \in [Tables -> {"free", "occupied"}]
      BY <3>1, <3>2, <3>4, <3>6 DEF FloorInv, TableFollowsOrders
    <3>8. PaidForIsPaid'
      BY <3>1, <3>2, <3>3 DEF Shape, FloorInv, PaidForIsPaid
    <3>9. QED
      BY <3>5, <3>7, <3>8 DEF FloorInv, ReadsAreCurrent, StatusesOf, PaysOf, CreatesOf
  <2>7. ASSUME NEW r \in Loops, NEW o \in OrderIds, NEW s \in OrderStatuses, BeginStatus(r, o, s)
        PROVE  FloorInv'
    <3> DEFINE q == request'[r]
    <3>1. UNCHANGED <<status, table, payments>>
      BY <2>7 DEF BeginStatus, RowsUnchanged, DeskUnchanged
    <3>2. /\ q.op = "status"
          /\ q.order = o
          /\ q.from = status[o]
          /\ q.to = s
          /\ q.frees <=> s \in FinalStatuses /\ LeavesFree(o)
      BY <2>7 DEF BeginStatus, Awaits, Shape
    <3>3. status[o] \in ActiveStatuses
      <4>1. s \in TRANSITIONS[status[o]] \/ IsActive(o)
        BY <2>7 DEF BeginStatus, Settable
      <4>2. status[o] \in OrderStatuses
        BY <2>7 DEF BeginStatus, Shape
      <4>3. QED
        BY <4>1, <4>2 DEF IsActive, OrderStatuses, ActiveStatuses, FinalStatuses, TRANSITIONS
    <3>4. StatusesOf(q) /\ PaysOf(q) /\ CreatesOf(q)
      BY <3>2, <3>3 DEF StatusesOf, PaysOf, CreatesOf
    <3>5. QED
      BY <3>1, <3>4, FloorUntouched
  <2>8. ASSUME NEW r \in Loops, EndStatus(r) PROVE FloorInv'
    <3> DEFINE q == request[r]
               o == q.order
    <3>1. o \in OrderIds /\ q.op = "status" /\ q.to \in OrderStatuses /\ payments' = payments
      BY <2>8 DEF EndStatus, DeskUnchanged, Shape, RequestOK
    <3>2. /\ q.from = status[o]
          /\ status[o] \in ActiveStatuses
          /\ q.frees <=> q.to \in FinalStatuses /\ LeavesFree(o)
      BY <3>1 DEF FloorInv, ReadsAreCurrent, StatusesOf
    <3>3. status' = [status EXCEPT ![o] = q.to]
      BY <2>8, <3>2 DEF EndStatus, Shape
    <3>4. table' = Freed(o, q.frees)
      BY <2>8 DEF EndStatus
    <3>5. \A l \in Loops : request'[l].op = "idle"
      BY <2>8 DEF EndStatus, Ends, Idle, Shape
    <3>6. TableFollowsOrders' /\ table' \in [Tables -> {"free", "occupied"}]
      <4>1. CASE q.to \in FinalStatuses
        <5> DEFINE s == q.to
        <5>1. table' = IF LeavesFree(o) THEN [table EXCEPT ![TableOf[o]] = "free"] ELSE table
          BY <3>2, <3>4, <4>1 DEF Freed
        <5>2. s \in FinalStatuses /\ status' = [status EXCEPT ![o] = s]
          BY <3>3, <4>1
        <5>3. o \in OrderIds /\ status[o] \in ActiveStatuses
          BY <3>1, <3>2
        <5> HIDE DEF o, s
        <5>4. QED
          BY <5>1, <5>2, <5>3, LeavingKeepsTables
      <4>2. CASE q.to \in ActiveStatuses
        <5>1. ~q.frees
          BY <3>2, <4>2 DEF ActiveStatuses, FinalStatuses
        <5>2. table' = table
          BY <3>4, <5>1 DEF Freed
        <5>3. \A p \in OrderIds : IsActive(p)' <=> IsActive(p)
          BY <3>1, <3>2, <3>3, <4>2 DEF IsActive, Shape
        <5>4. QED
          BY <5>2, <5>3 DEF FloorInv, TableFollowsOrders
      <4>3. QED
        BY <3>1, <4>1, <4>2 DEF OrderStatuses
    <3>7. PaidForIsPaid'
      <4>1. status[o] # "paid"
        BY <3>2 DEF ActiveStatuses
      <4>2. QED
        BY <3>1, <3>3, <4>1 DEF Shape, FloorInv, PaidForIsPaid
    <3>8. QED
      BY <3>5, <3>6, <3>7 DEF FloorInv, ReadsAreCurrent, StatusesOf, PaysOf, CreatesOf
  <2>9. CASE UNCHANGED vars
    BY <2>9, FloorUntouched DEF vars
  <2>10. QED
    BY <2>1, <2>2, <2>3, <2>4, <2>5, <2>6, <2>7, <2>8, <2>9 DEF Next, LoopStep
<1>3. QED
  BY <1>1, <1>2, ShapeHolds, PTL DEF Spec, FloorInv

-----------------------------------------------------------------------------
(* Amounts: what a discount deducts, and what a payment is made of.         *)

\* The newest open shift is one of them.
LEMMA CurrentShiftType ==
    ASSUME shifts \in Seq({"open", "closed"}), OpenShifts # {}
    PROVE  CurrentShift \in OpenShifts /\ CurrentShift \in Nat \ {0}
<1>1. Len(shifts) \in Int /\ DOMAIN shifts = 1 .. Len(shifts)
  OBVIOUS
<1>2. IsFiniteSet(OpenShifts)
  BY <1>1, Positions, FS_Subset DEF OpenShifts
<1>3. OpenShifts \subseteq Int /\ \A s \in OpenShifts : s \in Nat \ {0}
  BY <1>1 DEF OpenShifts
<1>4. \E s \in OpenShifts : \A r \in OpenShifts : r <= s
  <2> DEFINE id == [s \in OpenShifts |-> s]
  <2>1. PICK s \in OpenShifts : \A r \in OpenShifts : id[r] < id[s] \/ (id[r] = id[s] /\ s <= r)
    <3>1. \A s \in OpenShifts : id[s] \in Int
      BY <1>3
    <3> HIDE DEF id
    <3>2. QED
      BY <1>2, <1>3, <3>1, GreatestExists
  <2>2. QED
    BY <1>3, <2>1
<1>5. CurrentShift \in OpenShifts
  BY <1>4 DEF CurrentShift
<1>6. QED
  BY <1>3, <1>5

\* A discount is no negative amount.
LEMMA DiscountNat ==
    ASSUME NEW o \in OrderIds, NEW d \in DiscountRequests
    PROVE  DiscountAmount(o, d) \in Nat
<1>1. Subtotal[o] \in Nat /\ d.value \in Nat
  BY DeskConstants DEF Discount
<1>2. Subtotal[o] * d.value \in Nat
  BY <1>1
<1>3. \A n \in Nat : Rounded(n, 10000) \in Nat
  BY DEF Rounded
<1>4. QED
  BY <1>1, <1>2, <1>3 DEF DiscountAmount

\* The discounts of an order, summed and capped.
LEMMA DiscountTotalType ==
    ASSUME NEW o \in OrderIds, NEW ds \in Seq(DiscountRequests)
    PROVE  /\ IsFiniteSet(DOMAIN ds)
           /\ DiscountTotalUncapped(o, ds) \in Nat
           /\ DiscountTotal(o, ds) = Least(DiscountTotalUncapped(o, ds), Subtotal[o])
           /\ DiscountTotal(o, ds) \in Nat
           /\ DiscountTotal(o, ds) <= Subtotal[o]
<1> DEFINE amounts == [i \in DOMAIN ds |-> DiscountAmount(o, ds[i])]
           D == DOMAIN ds
<1>1. Len(ds) \in Int /\ D = 1 .. Len(ds)
  OBVIOUS
<1>2. IsFiniteSet(D)
  BY <1>1, Positions
<1>3. \A i \in D : amounts[i] \in Nat
  <2> SUFFICES ASSUME NEW i \in D PROVE DiscountAmount(o, ds[i]) \in Nat
    OBVIOUS
  <2>1. ds[i] \in DiscountRequests
    BY <1>1
  <2>2. QED
    BY <2>1, DiscountNat
<1>4. DiscountTotalUncapped(o, ds) = SumFunctionOnSet(amounts, D)
  BY DEF DiscountTotalUncapped, SumFunction
<1>5. DiscountTotal(o, ds) = Least(DiscountTotalUncapped(o, ds), Subtotal[o])
  BY DEF DiscountTotal, DiscountTotalUncapped
<1> HIDE DEF amounts, D
<1>6. DiscountTotalUncapped(o, ds) \in Nat
  BY <1>2, <1>3, <1>4, SumNat
<1>7. Subtotal[o] \in Nat
  BY DeskConstants
<1>8. QED
  BY <1>2, <1>5, <1>6, <1>7 DEF Least, D

LEMMA ChargedType ==
    ASSUME NEW o \in OrderIds, discounts[o] \in Seq(DiscountRequests),
           NEW shift \in Nat \ {0}, NEW fee \in Fees
    PROVE  Charged(o, shift, fee) \in Payment
<1>1. Subtotal[o] \in Nat /\ fee \in Nat
  BY DeskConstants
<1>2. DiscountTotal(o, discounts[o]) \in Nat /\ DiscountTotal(o, discounts[o]) <= Subtotal[o]
  BY DiscountTotalType
<1>3. QED
  BY <1>1, <1>2 DEF Charged, Payment

-----------------------------------------------------------------------------
(* Type correctness.                                                       *)

\* What each kind of request has read, by the name of its handler.
LEMMA RequestFields ==
    ASSUME NEW q \in Request
    PROVE  /\ q.op = "discount" => q.order \in OrderIds /\ q.discount \in DiscountRequests
           /\ q.op = "refund" => q.order \in OrderIds /\ q.amount \in RefundAmounts
           /\ q.op = "status" => q.order \in OrderIds /\ q.to \in OrderStatuses
           /\ q.op = "in_shift" => q.order \in OrderIds /\ q.shift \in Nat \ {0} /\ q.fee \in Fees
           /\ q.op = "pay" => q.order \in OrderIds /\ q.payment \in Payment
<1>1. CASE q = Idle
  BY <1>1 DEF Idle
<1>2. CASE q \in [op : {"open_shift"}]
  BY <1>2
<1>3. CASE q \in [op : {"close_shift"}, shift : Nat \ {0}]
  BY <1>3
<1>4. CASE q \in [op : {"discount"}, order : OrderIds, discount : DiscountRequests]
  BY <1>4
<1>5. CASE q \in [op : {"refund"}, order : OrderIds, amount : RefundAmounts]
  BY <1>5
<1>6. CASE q \in [op : {"create"}, order : OrderIds, occupies : BOOLEAN]
  BY <1>6
<1>7. CASE q \in [op : {"status"}, order : OrderIds, from : OrderStatuses, to : OrderStatuses, frees : BOOLEAN]
  BY <1>7
<1>8. CASE q \in [op : {"in_shift"}, order : OrderIds, shift : Nat \ {0}, fee : Fees, received : Tendered]
  BY <1>8
<1>9. CASE q \in [op : {"pay"}, order : OrderIds, payment : Payment, frees : BOOLEAN]
  BY <1>9
<1>10. QED
  BY <1>1, <1>2, <1>3, <1>4, <1>5, <1>6, <1>7, <1>8, <1>9 DEF Request

\* The rows and the requests are of the types the code gives them: amounts are
\* never negative, whatever is discounted, charged and paid back
\* (app/models.py, app/routers/pos.py).
THEOREM DeskTypes == Spec => []TypeOK
<1>1. Init => TypeOK
  BY DeskConstants DEF Init, TypeOK, Request, Idle, TableStatuses
<1>2. TypeOK /\ [Next]_vars => TypeOK'
  <2> SUFFICES ASSUME TypeOK, [Next]_vars PROVE TypeOK'
    OBVIOUS
  <2> DEFINE Processes == Loops \cup Threads
  <2>0. ASSUME NEW r \in Processes, NEW q \in Request, request' = [request EXCEPT ![r] = q]
        PROVE  request' \in [Processes -> Request]
    BY <2>0 DEF TypeOK
  <2>1. Idle \in Request
    BY DEF Request
  <2>2. ASSUME UNCHANGED <<status, table, shifts, discounts, payments, refunded>>,
               request' \in [Processes -> Request]
        PROVE  TypeOK'
    BY <2>2 DEF TypeOK
  <2>3. ASSUME NEW r \in Threads, BeginOpenShift(r) PROVE TypeOK'
    <3>1. [op |-> "open_shift"] \in Request
      BY DEF Request
    <3>2. QED
      BY <2>0, <2>2, <2>3, <3>1 DEF BeginOpenShift, RowsUnchanged, DeskUnchanged, Awaits
  <2>4. ASSUME NEW r \in Threads, EndOpenShift(r) PROVE TypeOK'
    <3>1. shifts' \in Seq({"open", "closed"})
      BY <2>4 DEF EndOpenShift, TypeOK
    <3>2. QED
      BY <2>0, <2>1, <2>4, <3>1 DEF EndOpenShift, Ends, TypeOK
  <2>5. ASSUME NEW r \in Threads, NEW s \in DOMAIN shifts, BeginCloseShift(r, s) PROVE TypeOK'
    <3>1. s \in Nat \ {0}
      BY DEF TypeOK
    <3>2. [op |-> "close_shift", shift |-> s] \in Request
      BY <3>1 DEF Request
    <3>3. QED
      BY <2>0, <2>2, <2>5, <3>2 DEF BeginCloseShift, RowsUnchanged, DeskUnchanged, Awaits
  <2>6. ASSUME NEW r \in Threads, EndCloseShift(r) PROVE TypeOK'
    <3>1. shifts' \in Seq({"open", "closed"})
      <4> DEFINE s == request[r].shift
      <4>1. shifts' = [shifts EXCEPT ![s] = "closed"]
        BY <2>6 DEF EndCloseShift
      <4> HIDE DEF s
      <4>2. CASE s \in 1 .. Len(shifts)
        BY <4>1, <4>2, ExceptSeq DEF TypeOK
      <4>3. CASE s \notin 1 .. Len(shifts)
        <5>1. shifts' = shifts
          BY <4>1, <4>3 DEF TypeOK
        <5>2. QED
          BY <5>1 DEF TypeOK
      <4>4. QED
        BY <4>2, <4>3
    <3>2. QED
      BY <2>0, <2>1, <2>6, <3>1 DEF EndCloseShift, Ends, TypeOK
  <2>7. ASSUME NEW r \in Threads, NEW o \in OrderIds, NEW d \in DiscountRequests, BeginDiscount(r, o, d)
        PROVE  TypeOK'
    <3>1. [op |-> "discount", order |-> o, discount |-> d] \in Request
      BY DEF Request
    <3>2. QED
      BY <2>0, <2>2, <2>7, <3>1 DEF BeginDiscount, RowsUnchanged, DeskUnchanged, Awaits
  <2>8. ASSUME NEW r \in Threads, EndDiscount(r) PROVE TypeOK'
    <3>1. request[r].order \in OrderIds /\ request[r].discount \in DiscountRequests
      BY <2>8, RequestFields DEF EndDiscount, TypeOK
    <3>2. discounts' \in [OrderIds -> Seq(DiscountRequests)]
      BY <2>8, <3>1 DEF EndDiscount, TypeOK
    <3>3. QED
      BY <2>0, <2>1, <2>8, <3>2 DEF EndDiscount, Ends, TypeOK
  <2>9. ASSUME NEW r \in Threads, NEW o \in OrderIds, NEW amount \in RefundAmounts, BeginRefund(r, o, amount)
        PROVE  TypeOK'
    <3>1. [op |-> "refund", order |-> o, amount |-> amount] \in Request
      BY DEF Request
    <3>2. QED
      BY <2>0, <2>2, <2>9, <3>1 DEF BeginRefund, RowsUnchanged, DeskUnchanged, Awaits
  <2>10. ASSUME NEW r \in Threads, EndRefund(r) PROVE TypeOK'
    <3>1. request[r].order \in OrderIds /\ request[r].amount \in Nat
      BY <2>10, RequestFields, DeskConstants DEF EndRefund, TypeOK
    <3>2. refunded' \in [OrderIds -> Nat]
      BY <2>10, <3>1 DEF EndRefund, TypeOK
    <3>3. QED
      BY <2>0, <2>1, <2>10, <3>2 DEF EndRefund, Ends, TypeOK
  <2>11. ASSUME NEW r \in Loops, NEW o \in OrderIds, NEW fee \in Fees, NEW received \in Tendered,
                BeginPayment(r, o, fee, received)
         PROVE  TypeOK'
    <3>1. CurrentShift \in Nat \ {0}
      BY <2>11, CurrentShiftType DEF BeginPayment, TypeOK
    <3>2. [op |-> "in_shift", order |-> o, shift |-> CurrentShift, fee |-> fee, received |-> received]
             \in Request
      BY <3>1 DEF Request
    <3>3. QED
      BY <2>0, <2>2, <2>11, <3>2 DEF BeginPayment, RowsUnchanged, DeskUnchanged, Awaits
  <2>12. ASSUME NEW r \in Loops, CheckPayment(r) PROVE TypeOK'
    <3> DEFINE o == request[r].order
               payment == Charged(o, request[r].shift, request[r].fee)
               pay == [op |-> "pay", order |-> o, payment |-> payment, frees |-> LeavesFree(o)]
    <3>1. o \in OrderIds /\ request[r].shift \in Nat \ {0} /\ request[r].fee \in Fees
      BY <2>12, RequestFields DEF CheckPayment, TypeOK
    <3>2. payment \in Payment
      <4>1. discounts[o] \in Seq(DiscountRequests)
        BY <3>1 DEF TypeOK
      <4> HIDE DEF o
      <4>2. QED
        BY <3>1, <4>1, ChargedType
    <3>3. LeavesFree(o) \in BOOLEAN
      BY DEF LeavesFree
    <3>4. pay \in Request
      <4> HIDE DEF payment, o
      <4>1. QED
        BY <3>1, <3>2, <3>3 DEF Request
    <3>5. request' = [request EXCEPT ![r] = pay] \/ request' = [request EXCEPT ![r] = Idle]
      BY <2>12 DEF CheckPayment
    <3> HIDE DEF pay
    <3>6. QED
      BY <2>0, <2>1, <2>2, <2>12, <3>4, <3>5 DEF CheckPayment, RowsUnchanged, DeskUnchanged
  <2>13. ASSUME NEW r \in Loops, EndPayment(r) PROVE TypeOK'
    <3>1. request[r].order \in OrderIds /\ request[r].payment \in Payment
      BY <2>13, RequestFields DEF EndPayment, TypeOK
    <3>2. /\ payments' \in [OrderIds -> Payment \cup {None}]
          /\ status' \in [OrderIds -> OrderStatuses \cup {"absent"}]
          /\ table' \in [Tables -> TableStatuses]
      BY <2>13, <3>1
         DEF EndPayment, TypeOK, Freed, OrderStatuses, FinalStatuses, TableStatuses
    <3>3. QED
      BY <2>0, <2>1, <2>13, <3>2 DEF EndPayment, Ends, TypeOK
  <2>14. ASSUME NEW r \in Loops, NEW o \in OrderIds, BeginCreate(r, o) PROVE TypeOK'
    <3>1. [op |-> "create", order |-> o, occupies |-> table[TableOf[o]] # "occupied"] \in Request
      BY DEF Request
    <3>2. QED
      BY <2>0, <2>2, <2>14, <3>1 DEF BeginCreate, RowsUnchanged, DeskUnchanged, Awaits
  <2>15. ASSUME NEW r \in Loops, EndCreate(r) PROVE TypeOK'
    <3>1. /\ status' \in [OrderIds -> OrderStatuses \cup {"absent"}]
          /\ table' \in [Tables -> TableStatuses]
      BY <2>15 DEF EndCreate, TypeOK, OrderStatuses, ActiveStatuses, TableStatuses
    <3>2. QED
      BY <2>0, <2>1, <2>15, <3>1 DEF EndCreate, DeskUnchanged, Ends, TypeOK
  <2>16. ASSUME NEW r \in Loops, NEW o \in OrderIds, NEW s \in OrderStatuses, BeginStatus(r, o, s)
         PROVE  TypeOK'
    <3>1. status[o] \in OrderStatuses
      BY <2>16 DEF BeginStatus, TypeOK
    <3>2. (s \in FinalStatuses /\ LeavesFree(o)) \in BOOLEAN
      OBVIOUS
    <3>3. [op |-> "status", order |-> o, from |-> status[o], to |-> s,
           frees |-> s \in FinalStatuses /\ LeavesFree(o)] \in Request
      BY <3>1, <3>2 DEF Request
    <3>4. QED
      BY <2>0, <2>2, <2>16, <3>3 DEF BeginStatus, RowsUnchanged, DeskUnchanged, Awaits
  <2>17. ASSUME NEW r \in Loops, EndStatus(r) PROVE TypeOK'
    <3>1. request[r].order \in OrderIds /\ request[r].to \in OrderStatuses
      BY <2>17, RequestFields DEF EndStatus, TypeOK
    <3>2. /\ status' \in [OrderIds -> OrderStatuses \cup {"absent"}]
          /\ table' \in [Tables -> TableStatuses]
      BY <2>17, <3>1 DEF EndStatus, TypeOK, Freed, TableStatuses
    <3>3. QED
      BY <2>0, <2>1, <2>17, <3>2 DEF EndStatus, DeskUnchanged, Ends, TypeOK
  <2>18. CASE UNCHANGED vars
    BY <2>18 DEF vars, TypeOK, Request, Payment
  <2>19. QED
    BY <2>3, <2>4, <2>5, <2>6, <2>7, <2>8, <2>9, <2>10, <2>11, <2>12, <2>13, <2>14, <2>15, <2>16, <2>17, <2>18
       DEF Next, ThreadStep, LoopStep
<1>3. QED
  BY <1>1, <1>2, PTL DEF Spec

-----------------------------------------------------------------------------
(* Fair bills: what is charged, and how far rounding moves it.             *)

\* Half to even moves an amount by at most a half.
LEMMA RoundingIsClose ==
    ASSUME NEW n \in Nat
    PROVE  /\ 10000 * Rounded(n, 10000) - n <= 5000
           /\ n - 10000 * Rounded(n, 10000) <= 5000
  BY DEF Rounded

\* In ten-thousandths, what a discount takes off before it is rounded.
Exact(o, d) == d.value * (IF d.type = "percent" THEN Subtotal[o] ELSE 10000)

LEMMA DiscountIsClose ==
    ASSUME NEW o \in OrderIds, NEW d \in DiscountRequests
    PROVE  /\ Exact(o, d) \in Nat
           /\ DiscountAmount(o, d) * 10000 - Exact(o, d) <= 5000
           /\ Exact(o, d) - DiscountAmount(o, d) * 10000 <= 5000
<1> DEFINE n == Subtotal[o] * d.value
           v == d.value
<1>1. Subtotal[o] \in Nat /\ v \in Nat /\ d.type \in {"amount", "percent"}
  BY DeskConstants DEF Discount
<1>2. n \in Nat /\ n = v * Subtotal[o]
  BY <1>1
<1> HIDE DEF n, v
<1>3. CASE d.type = "percent"
  <2>1. Exact(o, d) = n /\ DiscountAmount(o, d) = Rounded(n, 10000)
    BY <1>2, <1>3 DEF Exact, DiscountAmount, n, v
  <2>2. Rounded(n, 10000) \in Nat
    BY <1>2 DEF Rounded
  <2>3. QED
    BY <1>2, <2>1, <2>2, RoundingIsClose
<1>4. CASE d.type # "percent"
  <2>1. Exact(o, d) = v * 10000 /\ DiscountAmount(o, d) = v
    BY <1>4 DEF Exact, DiscountAmount, v
  <2>2. QED
    BY <1>1, <2>1
<1>5. QED
  BY <1>3, <1>4

\* The capped total of the first k discounts is as close to the exact one as k
\* roundings allow.
LEMMA TotalIsClose ==
    ASSUME NEW o \in OrderIds, discounts[o] \in Seq(DiscountRequests), NEW k \in 0 .. Len(discounts[o])
    PROVE  LET charged == 10000 * (Subtotal[o] - DiscountTotal(o, SubSeq(discounts[o], 1, k)))
               full == 10000 * Subtotal[o]
               due == full - Least(ExactDiscount(o, k), full)
           IN  2 * (charged - due) <= 10000 * k /\ -2 * (charged - due) <= 10000 * k
<1> DEFINE ds == SubSeq(discounts[o], 1, k)
           amounts == [i \in DOMAIN ds |-> DiscountAmount(o, ds[i])]
           times == [i \in DOMAIN ds |-> amounts[i] * 10000]
           exacts == [i \in 1 .. k |->
                        discounts[o][i].value
                          * (IF discounts[o][i].type = "percent" THEN Subtotal[o] ELSE 10000)]
           T == DiscountTotalUncapped(o, ds)
           E == ExactDiscount(o, k)
           S == Subtotal[o]
           K == 1 .. k
<1>1. k \in Nat /\ S \in Nat
  BY DeskConstants
<1>2. /\ ds \in Seq(DiscountRequests) /\ DOMAIN ds = K
      /\ \A i \in K : ds[i] = discounts[o][i] /\ ds[i] \in DiscountRequests
  OBVIOUS
<1>3. \A i \in K : /\ amounts[i] \in Nat
                   /\ exacts[i] \in Nat
                   /\ times[i] = amounts[i] * 10000
                   /\ times[i] - exacts[i] <= 5000
                   /\ exacts[i] - times[i] <= 5000
  <2> SUFFICES ASSUME NEW i \in K
               PROVE  /\ DiscountAmount(o, ds[i]) \in Nat
                      /\ exacts[i] \in Nat
                      /\ DiscountAmount(o, ds[i]) * 10000 - exacts[i] <= 5000
                      /\ exacts[i] - DiscountAmount(o, ds[i]) * 10000 <= 5000
    BY <1>2
  <2> DEFINE d == ds[i]
  <2>1. d \in DiscountRequests /\ d = discounts[o][i]
    BY <1>2
  <2>2. exacts[i] = Exact(o, d)
    BY <2>1 DEF Exact
  <2>3. DiscountAmount(o, d) \in Nat
    BY <2>1, DiscountNat
  <2>4. /\ Exact(o, d) \in Nat
        /\ DiscountAmount(o, d) * 10000 - Exact(o, d) <= 5000
        /\ Exact(o, d) - DiscountAmount(o, d) * 10000 <= 5000
    BY <2>1, DiscountIsClose
  <2> HIDE DEF exacts
  <2>5. QED
    BY <2>2, <2>3, <2>4
<1>4. T = SumFunctionOnSet(amounts, K) /\ E = SumFunctionOnSet(exacts, K)
  <2>1. T = SumFunctionOnSet(amounts, DOMAIN amounts)
    <3> HIDE DEF ds
    <3>1. QED
      BY DEF DiscountTotalUncapped, SumFunction
  <2>2. E = SumFunctionOnSet(exacts, DOMAIN exacts)
    <3>1. E = SumFunction(exacts)
      BY DEF ExactDiscount
    <3> HIDE DEF exacts, E
    <3>2. QED
      BY <3>1, Zenon DEF SumFunction
  <2>3. DOMAIN amounts = K /\ DOMAIN exacts = K
    BY <1>2
  <2> HIDE DEF T, E, K, ds, amounts, exacts
  <2>4. QED
    BY <2>1, <2>2, <2>3
<1>5. DiscountTotal(o, ds) = Least(T, S) /\ T \in Nat
  BY <1>2, DiscountTotalType
<1> HIDE DEF ds, amounts, times, exacts, T, E, S
<1>6. IsFiniteSet(K)
  BY <1>1, Positions
<1>7. ASSUME NEW i \in K PROVE times[i] \in Int /\ exacts[i] \in Int
  <2>1. amounts[i] \in Nat /\ exacts[i] \in Nat /\ times[i] = amounts[i] * 10000
    BY <1>3
  <2>2. QED
    BY <2>1
<1>8. SumFunctionOnSet(times, K) = T * 10000
  <2>1. \A i \in K : amounts[i] \in Int /\ times[i] = amounts[i] * 10000
    BY <1>3
  <2> HIDE DEF K
  <2>2. SumFunctionOnSet(times, K) = SumFunctionOnSet(amounts, K) * 10000
    BY <1>6, <2>1, SumTimes
  <2>3. QED
    BY <1>4, <2>2
<1>9. T * 10000 - E <= 5000 * k /\ E - T * 10000 <= 5000 * k
  <2> DEFINE c == 5000
  <2>1. c \in Nat /\ \A i \in K : times[i] - exacts[i] <= c /\ exacts[i] - times[i] <= c
    BY <1>3
  <2>2. Cardinality(K) = k
    BY <1>1, FS_Interval
  <2> HIDE DEF c, K
  <2>3. /\ SumFunctionOnSet(times, K) - SumFunctionOnSet(exacts, K) <= c * Cardinality(K)
        /\ SumFunctionOnSet(exacts, K) - SumFunctionOnSet(times, K) <= c * Cardinality(K)
    BY <1>6, <1>7, <2>1, SumWithin
  <2>4. QED
    BY <1>4, <1>8, <2>2, <2>3 DEF c
<1>10. E \in Nat
  BY <1>3, <1>4, <1>6, SumNat
<1>11. QED
  <2> DEFINE full == 10000 * S
             error == 10000 * (S - Least(T, S)) - (full - Least(E, full))
  <2>1. error = Least(E, full) - 10000 * Least(T, S)
    BY <1>1, <1>5, <1>10 DEF Least
  <2>2. error <= 5000 * k /\ -error <= 5000 * k
    BY <1>1, <1>5, <1>9, <1>10, <2>1 DEF Least
  <2>3. 2 * error <= 10000 * k /\ -2 * error <= 10000 * k
    <3>1. error \in Int
      BY <1>1, <1>5, <1>10, <2>1 DEF Least
    <3> HIDE DEF error
    <3>2. QED
      BY <1>1, <2>2, <3>1
  <2>4. error = 10000 * (Subtotal[o] - DiscountTotal(o, SubSeq(discounts[o], 1, k)))
                 - (10000 * Subtotal[o] - Least(ExactDiscount(o, k), 10000 * Subtotal[o]))
    BY <1>5 DEF ds, E, S
  <2> HIDE DEF error, full
  <2>5. QED
    BY <2>3, <2>4

\* A bill adds up when what is charged is the subtotal less the discount, plus the fee.
AddsUp(o, p) == p.final = Subtotal[o] - p.discount + p.fee

BillsAddUp ==
    /\ \A o \in OrderIds : payments[o] # None => AddsUp(o, payments[o])
    /\ \A l \in Loops : request[l].op = "pay" => AddsUp(request[l].order, request[l].payment)

LEMMA AllBillsAddUp == Spec => []BillsAddUp
<1>1. Init => BillsAddUp
  BY DEF Init, BillsAddUp, Idle
<1>2. Shape /\ BillsAddUp /\ [Next]_vars => BillsAddUp'
  <2> SUFFICES ASSUME Shape, BillsAddUp, [Next]_vars PROVE BillsAddUp'
    OBVIOUS
  <2> USE DEF Shape, RequestOK
  <2>1. ASSUME payments' = payments, \A l \in Loops : request'[l] = request[l] \/ request'[l].op # "pay"
        PROVE  BillsAddUp'
    BY <2>1 DEF BillsAddUp, AddsUp
  <2>2. ASSUME NEW r \in Loops, CheckPayment(r) PROVE BillsAddUp'
    <3> DEFINE o == request[r].order
               payment == Charged(o, request[r].shift, request[r].fee)
    <3>1. payments' = payments /\ \A l \in Loops \ {r} : request'[l] = request[l]
      BY <2>2 DEF CheckPayment, RowsUnchanged, DeskUnchanged
    <3>2. request'[r].op = "pay" => request'[r].order = o /\ request'[r].payment = payment
      BY <2>2 DEF CheckPayment, Idle
    <3>3. AddsUp(o, payment)
      BY DEF AddsUp, Charged
    <3> HIDE DEF o, payment
    <3>4. QED
      BY <3>1, <3>2, <3>3 DEF BillsAddUp, AddsUp
  <2>3. ASSUME NEW r \in Loops, EndPayment(r) PROVE BillsAddUp'
    <3>1. request[r].op = "pay" /\ request[r].order \in OrderIds
      BY <2>3 DEF EndPayment
    <3>2. \A o \in OrderIds : payments'[o] # payments[o] =>
             o = request[r].order /\ payments'[o] = request[r].payment
      BY <2>3, <3>1 DEF EndPayment
    <3>3. \A l \in Loops : request'[l] = request[l] \/ request'[l].op # "pay"
      BY <2>3 DEF EndPayment, Ends, Idle
    <3>4. AddsUp(request[r].order, request[r].payment)
      BY <3>1 DEF BillsAddUp
    <3>5. QED
      BY <3>2, <3>3, <3>4 DEF BillsAddUp, AddsUp
  <2>4. CASE UNCHANGED vars
    BY <2>1, <2>4 DEF vars
  <2>5. ASSUME NEW r \in Threads, ThreadStep(r) PROVE BillsAddUp'
    <3>1. payments' = payments
      BY <2>5
         DEF ThreadStep, RowsUnchanged, DeskUnchanged, BeginOpenShift, EndOpenShift, BeginCloseShift,
             EndCloseShift, BeginDiscount, EndDiscount, BeginRefund, EndRefund
    <3>2. \A l \in Loops : request'[l] = request[l]
      BY <2>5, DeskConstants
         DEF ThreadStep, Awaits, Ends, BeginOpenShift, EndOpenShift, BeginCloseShift, EndCloseShift,
             BeginDiscount, EndDiscount, BeginRefund, EndRefund
    <3>3. QED
      BY <2>1, <3>1, <3>2
  <2>6. ASSUME NEW r \in Loops, LoopStep(r), ~CheckPayment(r), ~EndPayment(r) PROVE BillsAddUp'
    <3>1. payments' = payments
      BY <2>6
         DEF LoopStep, RowsUnchanged, DeskUnchanged, BeginPayment, BeginCreate, EndCreate, BeginStatus,
             EndStatus
    <3>2. \A l \in Loops : request'[l] = request[l] \/ request'[l].op # "pay"
      BY <2>6, OtherStepsPayNothing
    <3>3. QED
      BY <2>1, <3>1, <3>2
  <2>7. QED
    BY <2>2, <2>3, <2>4, <2>5, <2>6 DEF Next
<1>3. QED
  BY <1>1, <1>2, ShapeHolds, PTL DEF Spec

\* Bills are fair for any orders, amounts, fees and discounts, and any number of
\* managers and processes at work at once: fees are charged in full and rounding
\* moves what is due by at most half a hundredth for each discount (create_payment,
\* _discount_total).
THEOREM BillsAreFair == Spec => []FairBill
<1>1. DeductionsOnRecord /\ BillsAddUp /\ TypeOK => FairBill
  <2> SUFFICES ASSUME DeductionsOnRecord, BillsAddUp, TypeOK, NEW o \in OrderIds, payments[o] # None
               PROVE  LET p == payments[o]
                          full == 10000 * Subtotal[o]
                      IN  \E k \in 0 .. Len(discounts[o]) :
                             LET due == full - Least(ExactDiscount(o, k), full)
                                 error == 10000 * (p.final - p.fee) - due
                             IN  2 * error <= 10000 * k /\ -2 * error <= 10000 * k
    BY DEF FairBill
  <2> DEFINE p == payments[o]
  <2>1. p \in Payment /\ p.discount \in Nat /\ p.fee \in Nat /\ Subtotal[o] \in Nat
    BY DeskConstants DEF TypeOK, Payment
  <2>2. discounts[o] \in Seq(DiscountRequests)
    BY DEF TypeOK
  <2>3. PICK k \in 0 .. Len(discounts[o]) : p.discount = DiscountTotal(o, SubSeq(discounts[o], 1, k))
    BY DEF DeductionsOnRecord, OnRecord
  <2>4. p.final - p.fee = Subtotal[o] - DiscountTotal(o, SubSeq(discounts[o], 1, k))
    <3>1. p.final = Subtotal[o] - p.discount + p.fee
      BY DEF BillsAddUp, AddsUp
    <3>2. QED
      BY <2>1, <2>3, <3>1
  <2> HIDE DEF p
  <2>5. LET full == 10000 * Subtotal[o]
            due == full - Least(ExactDiscount(o, k), full)
            error == 10000 * (p.final - p.fee) - due
        IN  2 * error <= 10000 * k /\ -2 * error <= 10000 * k
    BY <2>2, <2>4, TotalIsClose
  <2>6. QED
    BY <2>5 DEF p
<1>2. QED
  BY <1>1, AllOnRecord, AllBillsAddUp, DeskTypes, PTL

-----------------------------------------------------------------------------
(* Refunds, in any number of threads.  Each was checked against what was on *)
(* record when it began, so the refunds in flight, together with those on   *)
(* record, are bounded by one payment for every thread.                     *)

Pending(q, o) == IF q.op = "refund" /\ q.order = o THEN q.amount ELSE 0

PendingRefunds(o) == [h \in Threads |-> Pending(request[h], o)]

PendingTotal(o) == SumFunctionOnSet(PendingRefunds(o), Threads)

\* A refund is in flight or on record only beside its payment.
RefundsHavePayments ==
    \A o \in OrderIds : payments[o] = None =>
        refunded[o] = 0 /\ \A h \in Threads : Pending(request[h], o) = 0

RefundsFit ==
    \A o \in OrderIds : payments[o] # None =>
        /\ \A h \in Threads : Pending(request[h], o) <= payments[o].final
        /\ refunded[o] + PendingTotal(o) <= payments[o].final * Cardinality(Threads)

RefundInv == RefundsHavePayments /\ RefundsFit

LEMMA PendingNat ==
    ASSUME TypeOK, NEW o
    PROVE  /\ \A h \in Threads : Pending(request[h], o) \in Nat
           /\ PendingTotal(o) \in Nat
<1>1. ASSUME NEW h \in Threads PROVE Pending(request[h], o) \in Nat
  <2>1. request[h] \in Request
    BY DEF TypeOK
  <2>2. request[h].op = "refund" => request[h].amount \in RefundAmounts
    BY <2>1, RequestFields
  <2>3. QED
    BY <2>2, DeskConstants DEF Pending
<1>2. \A h \in Threads : PendingRefunds(o)[h] \in Nat
  BY <1>1 DEF PendingRefunds
<1>3. PendingTotal(o) \in Nat
  BY <1>2, DeskConstants, SumNat DEF PendingTotal
<1>4. QED
  BY <1>1, <1>3

LEMMA MoreThanAll ==
    ASSUME NEW n \in Nat, NEW x \in Nat, NEW rest \in Int, NEW c \in Nat, NEW k \in Nat,
           n + x <= c, rest <= c * (k - 1)
    PROVE  n + (x + rest) <= c * k
<1>1. c * (k - 1) = c * k - c /\ c * k \in Int
  OBVIOUS
<1> DEFINE p == c * k
<1>2. rest <= p - c /\ p \in Int
  BY <1>1
<1> HIDE DEF p
<1>3. n + (x + rest) <= p
  BY <1>2
<1>4. QED
  BY <1>3 DEF p

\* One amount fits, and no other is larger than c: all of them are at most c each.
LEMMA OneFitsAllBounded ==
    ASSUME NEW S, IsFiniteSet(S), NEW f, NEW c \in Nat, \A i \in S : f[i] \in Nat /\ f[i] <= c,
           NEW x \in S, NEW n \in Nat, n + f[x] <= c
    PROVE  n + SumFunctionOnSet(f, S) <= c * Cardinality(S)
<1> DEFINE R == S \ {x}
           z == [i \in R |-> 0]
<1>1. /\ IsFiniteSet(R) /\ Cardinality(S) \in Nat
      /\ Cardinality(R) = Cardinality(S) - 1
  BY FS_Subset, FS_CardinalityType, FS_RemoveElement
<1>2. SumFunctionOnSet(f, S) = f[x] + SumFunctionOnSet(f, R)
  BY SumTake
<1>3. SumFunctionOnSet(z, R) = 0
  <2>1. \A i \in R : z[i] = 0
    OBVIOUS
  <2> HIDE DEF z
  <2>2. QED
    BY <1>1, <2>1, SumZero
<1>4. \A i \in R : f[i] \in Int /\ z[i] \in Int /\ f[i] - z[i] <= c /\ z[i] - f[i] <= c
  OBVIOUS
<1>5. SumFunctionOnSet(f, R) \in Int
  BY <1>1, SumInt
<1> HIDE DEF z, R
<1>6. SumFunctionOnSet(f, R) - SumFunctionOnSet(z, R) <= c * Cardinality(R)
  BY <1>1, <1>4, SumWithin
<1>7. SumFunctionOnSet(f, R) <= c * (Cardinality(S) - 1)
  BY <1>1, <1>3, <1>5, <1>6
<1>8. f[x] \in Nat
  OBVIOUS
<1>9. n + (f[x] + SumFunctionOnSet(f, R)) <= c * Cardinality(S)
  BY <1>1, <1>5, <1>7, <1>8, MoreThanAll
<1>10. QED
  BY <1>2, <1>9

\* A step that leaves refunds, the requests for them and the payments on record alone.
LEMMA RefundsUntouched ==
    ASSUME TypeOK, RefundInv, UNCHANGED refunded,
           \A o \in OrderIds : payments[o] # None => payments'[o] = payments[o],
           \A o \in OrderIds : payments'[o] # None => payments'[o].final \in Nat,
           \A h \in Threads : \A o \in OrderIds : Pending(request'[h], o) = Pending(request[h], o)
    PROVE  RefundInv'
<1>1. RefundsHavePayments'
  BY DEF RefundInv, RefundsHavePayments
<1>2. ASSUME NEW o \in OrderIds, payments'[o] # None
      PROVE  /\ \A h \in Threads : Pending(request'[h], o) <= payments'[o].final
             /\ refunded'[o] + PendingTotal(o)' <= payments'[o].final * Cardinality(Threads)
  <2>1. PendingTotal(o)' = PendingTotal(o)
    <3>1. PendingRefunds(o)' = PendingRefunds(o)
      BY DEF PendingRefunds
    <3>2. QED
      BY <3>1 DEF PendingTotal
  <2>2. CASE payments[o] # None
    BY <1>2, <2>1, <2>2 DEF RefundInv, RefundsFit
  <2>3. CASE payments[o] = None
    <3>1. refunded[o] = 0 /\ \A h \in Threads : Pending(request[h], o) = 0
      BY <2>3 DEF RefundInv, RefundsHavePayments
    <3>2. PendingTotal(o) = 0
      <4>1. \A h \in Threads : PendingRefunds(o)[h] = 0
        BY <3>1 DEF PendingRefunds
      <4>2. QED
        BY <4>1, DeskConstants, SumZero DEF PendingTotal
    <3>3. payments'[o].final \in Nat /\ Cardinality(Threads) \in Nat
      BY <1>2, DeskConstants, FS_CardinalityType
    <3> DEFINE c == payments'[o].final
               k == Cardinality(Threads)
    <3>4. c * k \in Nat
      <4> HIDE DEF c, k
      <4>1. c \in Nat /\ k \in Nat
        BY <3>3 DEF c, k
      <4>2. QED
        BY <4>1
    <3>5. QED
      BY <2>1, <3>1, <3>2, <3>3, <3>4
  <2>4. QED
    BY <2>2, <2>3
<1>3. QED
  BY <1>1, <1>2 DEF RefundInv, RefundsFit

LEMMA RefundSteps == Shape /\ TypeOK /\ TypeOK' /\ RefundInv /\ [Next]_vars => RefundInv'
<1> SUFFICES ASSUME Shape, TypeOK, TypeOK', RefundInv, [Next]_vars PROVE RefundInv'
  OBVIOUS
<1>a. /\ \A o \in OrderIds : payments[o] # None => payments[o].final \in Nat
      /\ \A o \in OrderIds : payments'[o] # None => payments'[o].final \in Nat
  BY DEF TypeOK, Payment
<1>b. request = [r \in Loops \cup Threads |-> request[r]] /\ Loops \cap Threads = {} /\ IsFiniteSet(Threads)
  BY DeskConstants DEF Shape
<1>1. ASSUME NEW r \in Threads, NEW o \in OrderIds, NEW amount \in RefundAmounts, BeginRefund(r, o, amount)
      PROVE  RefundInv'
  <2>1. UNCHANGED <<payments, refunded>>
    BY <1>1 DEF BeginRefund, RowsUnchanged, DeskUnchanged
  <2>2. request[r] = Idle /\ request' = [request EXCEPT ![r] = [op |-> "refund", order |-> o, amount |-> amount]]
    BY <1>1 DEF BeginRefund, Awaits
  <2>3. payments[o] # None /\ refunded[o] + amount <= payments[o].final
    BY <1>1 DEF BeginRefund
  <2>4. /\ Pending(request'[r], o) = amount
        /\ \A p \in OrderIds : p # o => Pending(request'[r], p) = 0
        /\ \A p \in OrderIds : Pending(request[r], p) = 0
    BY <1>b, <2>2 DEF Pending, Idle
  <2>5. \A h \in Threads : h # r => request'[h] = request[h]
    BY <1>b, <2>2
  <2>6. RefundsHavePayments'
    <3> SUFFICES ASSUME NEW p \in OrderIds, payments'[p] = None
                 PROVE  refunded'[p] = 0 /\ \A h \in Threads : Pending(request'[h], p) = 0
      BY DEF RefundsHavePayments
    <3>1. p # o /\ refunded[p] = 0 /\ \A h \in Threads : Pending(request[h], p) = 0
      BY <2>1, <2>3 DEF RefundInv, RefundsHavePayments
    <3>2. QED
      BY <2>1, <2>4, <2>5, <3>1
  <2>7. ASSUME NEW p \in OrderIds, payments'[p] # None
        PROVE  /\ \A h \in Threads : Pending(request'[h], p) <= payments'[p].final
               /\ refunded'[p] + PendingTotal(p)' <= payments'[p].final * Cardinality(Threads)
    <3>0. payments[p] # None
      BY <2>1, <2>7
    <3>1. CASE p = o
      <4> DEFINE f == [h \in Threads |-> Pending(request'[h], o)]
                 c == payments[o].final
                 n == refunded[o]
      <4>1. n \in Nat /\ c \in Nat /\ amount \in Nat
        BY <1>a, <2>3, DeskConstants DEF TypeOK
      <4>2. \A h \in Threads : Pending(request'[h], o) \in Nat
        BY <2>4, <2>5, <4>1, PendingNat
      <4>3. \A h \in Threads : Pending(request'[h], o) <= c
        <5>1. amount <= c
          BY <2>3, <4>1
        <5>2. \A h \in Threads : Pending(request[h], o) <= c
          BY <2>3 DEF RefundInv, RefundsFit
        <5>3. QED
          BY <2>4, <2>5, <5>1, <5>2
      <4>4. \A h \in Threads : f[h] \in Nat /\ f[h] <= c
        BY <4>2, <4>3
      <4>5. n + f[r] <= c
        BY <2>3, <2>4
      <4>6. f = PendingRefunds(o)'
        BY DEF PendingRefunds
      <4>7. n + SumFunctionOnSet(f, Threads) <= c * Cardinality(Threads)
        <5> HIDE DEF f, c, n
        <5>1. QED
          BY <1>b, <4>1, <4>4, <4>5, OneFitsAllBounded
      <4>8. n + PendingTotal(o)' <= c * Cardinality(Threads)
        BY <4>6, <4>7 DEF PendingTotal
      <4>9. QED
        BY <2>1, <3>1, <4>3, <4>8
    <3>2. CASE p # o
      <4>1. \A h \in Threads : Pending(request'[h], p) = Pending(request[h], p)
        BY <2>4, <2>5, <3>2
      <4>2. PendingRefunds(p)' = PendingRefunds(p)
        BY <4>1 DEF PendingRefunds
      <4>3. PendingTotal(p)' = PendingTotal(p)
        BY <4>2 DEF PendingTotal
      <4>4. QED
        BY <2>1, <3>0, <4>1, <4>3 DEF RefundInv, RefundsFit
    <3>3. QED
      BY <3>1, <3>2
  <2>8. QED
    BY <2>6, <2>7 DEF RefundInv, RefundsFit
<1>2. ASSUME NEW r \in Threads, EndRefund(r) PROVE RefundInv'
  <2>0. PICK o \in OrderIds, a \in RefundAmounts : o = request[r].order /\ a = request[r].amount
    BY <1>2 DEF EndRefund, Shape, RequestOK
  <2>1. o \in OrderIds /\ a \in Nat /\ a > 0
    <3>1. a \in Nat \ {0}
      BY DeskConstants
    <3>2. QED
      BY <3>1
  <2>2. payments' = payments /\ request' = [request EXCEPT ![r] = Idle]
    BY <1>2 DEF EndRefund, Ends
  <2>3. refunded'[o] = refunded[o] + a /\ \A p \in OrderIds : p # o => refunded'[p] = refunded[p]
    BY <1>2, <2>0 DEF EndRefund, TypeOK
  <2>4. /\ Pending(request[r], o) = a
        /\ \A p \in OrderIds : p # o => Pending(request[r], p) = 0
        /\ \A p \in OrderIds : Pending(request'[r], p) = 0
    BY <1>2, <1>b, <2>0, <2>2 DEF EndRefund, Pending, Idle
  <2>5. \A h \in Threads : h # r => request'[h] = request[h]
    BY <1>b, <2>2
  <2>7. RefundsHavePayments'
    <3> SUFFICES ASSUME NEW p \in OrderIds, payments'[p] = None
                 PROVE  refunded'[p] = 0 /\ \A h \in Threads : Pending(request'[h], p) = 0
      BY DEF RefundsHavePayments
    <3>1. refunded[p] = 0 /\ \A h \in Threads : Pending(request[h], p) = 0
      BY <2>2 DEF RefundInv, RefundsHavePayments
    <3>2. p # o
      BY <2>1, <2>4, <3>1
    <3>3. QED
      BY <2>3, <2>4, <2>5, <3>1, <3>2
  <2>8. ASSUME NEW p \in OrderIds, payments'[p] # None
        PROVE  /\ \A h \in Threads : Pending(request'[h], p) <= payments'[p].final
               /\ refunded'[p] + PendingTotal(p)' <= payments'[p].final * Cardinality(Threads)
    <3>1. /\ payments[p] # None /\ payments[p].final \in Nat
          /\ \A h \in Threads : Pending(request[h], p) <= payments[p].final
          /\ refunded[p] + PendingTotal(p) <= payments[p].final * Cardinality(Threads)
      BY <1>a, <2>2, <2>8 DEF RefundInv, RefundsFit
    <3>2. \A h \in Threads : Pending(request'[h], p) <= payments'[p].final
      BY <2>2, <2>4, <2>5, <3>1
    <3>3. CASE p = o
      <4> DEFINE f == PendingRefunds(o)
                 g == [h \in Threads |-> Pending(request'[h], o)]
      <4>1. \A h \in Threads : f[h] \in Int /\ g[h] \in Int
        <5>1. \A h \in Threads : Pending(request[h], o) \in Nat
          BY PendingNat
        <5>2. \A h \in Threads : Pending(request'[h], o) \in Nat
          BY <2>4, <2>5, <5>1
        <5>3. QED
          BY <5>1, <5>2 DEF PendingRefunds
      <4>2. f[r] = a /\ g[r] = 0 /\ \A h \in Threads \ {r} : g[h] = f[h]
        BY <2>1, <2>4, <2>5 DEF PendingRefunds
      <4>3. g = PendingRefunds(o)'
        BY DEF PendingRefunds
      <4>4. SumFunctionOnSet(g, Threads) = SumFunctionOnSet(f, Threads) - a + 0
        <5> HIDE DEF f, g
        <5>1. SumFunctionOnSet(g, Threads) = SumFunctionOnSet(f, Threads) - f[r] + g[r]
          BY <1>b, <4>1, <4>2, SumUpdate
        <5>2. QED
          BY <4>2, <5>1
      <4>5. PendingTotal(o)' = PendingTotal(o) - a
        <5>1. PendingTotal(o) \in Nat
          BY PendingNat
        <5>2. QED
          BY <2>1, <4>3, <4>4, <5>1 DEF PendingTotal
      <4>6. refunded[o] \in Nat /\ PendingTotal(o) \in Nat
        BY <2>1, PendingNat DEF TypeOK
      <4>7. refunded'[o] + PendingTotal(o)' = refunded[o] + PendingTotal(o)
        BY <2>1, <2>3, <4>5, <4>6
      <4>8. refunded'[o] + PendingTotal(o)' <= payments'[o].final * Cardinality(Threads)
        BY <2>2, <3>1, <3>3, <4>7
      <4>9. QED
        BY <3>2, <3>3, <4>8
    <3>4. CASE p # o
      <4>1. \A h \in Threads : Pending(request'[h], p) = Pending(request[h], p)
        BY <2>4, <2>5, <3>4
      <4>2. PendingRefunds(p)' = PendingRefunds(p)
        BY <4>1 DEF PendingRefunds
      <4>3. PendingTotal(p)' = PendingTotal(p)
        BY <4>2 DEF PendingTotal
      <4>4. QED
        BY <2>2, <2>3, <3>1, <3>2, <3>4, <4>3
    <3>5. QED
      BY <3>3, <3>4
  <2>9. QED
    BY <2>7, <2>8 DEF RefundInv, RefundsFit
<1>3. ASSUME NEW r \in Threads, ThreadStep(r), ~EndRefund(r),
             \A o \in OrderIds, amount \in RefundAmounts : ~BeginRefund(r, o, amount)
      PROVE  RefundInv'
  <2>1. UNCHANGED <<payments, refunded>>
    BY <1>3
       DEF ThreadStep, RowsUnchanged, DeskUnchanged, BeginOpenShift, EndOpenShift, BeginCloseShift,
           EndCloseShift, BeginDiscount, EndDiscount
  <2>2. request[r].op # "refund" /\ request'[r].op # "refund"
    <3>1. CASE EndOpenShift(r) \/ EndCloseShift(r) \/ EndDiscount(r)
      BY <1>b, <3>1 DEF EndOpenShift, EndCloseShift, EndDiscount, Ends, Idle
    <3>2. CASE BeginOpenShift(r) \/ \E s \in DOMAIN shifts : BeginCloseShift(r, s)
      BY <1>b, <3>2 DEF BeginOpenShift, BeginCloseShift, Awaits, Idle
    <3>3. ASSUME NEW o \in OrderIds, NEW d \in DiscountRequests, BeginDiscount(r, o, d)
          PROVE  request[r].op # "refund" /\ request'[r].op # "refund"
      BY <1>b, <3>3 DEF BeginDiscount, Awaits, Idle
    <3>4. QED
      BY <1>3, <3>1, <3>2, <3>3 DEF ThreadStep
  <2>3. \A h \in Threads \ {r} : request'[h] = request[h]
    BY <1>3, <1>b
       DEF ThreadStep, Awaits, Ends, BeginOpenShift, EndOpenShift, BeginCloseShift, EndCloseShift,
           BeginDiscount, EndDiscount
  <2>4. \A h \in Threads : \A o \in OrderIds : Pending(request'[h], o) = Pending(request[h], o)
    BY <2>2, <2>3 DEF Pending
  <2>5. QED
    BY <1>a, <2>1, <2>4, RefundsUntouched
<1>4. ASSUME NEW r \in Loops, LoopStep(r) PROVE RefundInv'
  <2>1. UNCHANGED refunded
    BY <1>4
       DEF LoopStep, RowsUnchanged, DeskUnchanged, BeginPayment, CheckPayment, EndPayment, BeginCreate,
           EndCreate, BeginStatus, EndStatus
  <2>2. \A h \in Threads : request'[h] = request[h]
    BY <1>4, <1>b
       DEF LoopStep, Awaits, Ends, BeginPayment, CheckPayment, EndPayment, BeginCreate, EndCreate,
           BeginStatus, EndStatus
  <2>3. \A o \in OrderIds : payments[o] # None => payments'[o] = payments[o]
    <3>1. CASE EndPayment(r)
      BY <3>1 DEF EndPayment, Shape
    <3>2. CASE ~EndPayment(r)
      BY <1>4, <3>2
         DEF LoopStep, RowsUnchanged, DeskUnchanged, BeginPayment, CheckPayment, BeginCreate, EndCreate,
             BeginStatus, EndStatus
    <3>3. QED
      BY <3>1, <3>2
  <2>4. QED
    BY <1>a, <2>1, <2>2, <2>3, RefundsUntouched
<1>5. CASE UNCHANGED vars
  BY <1>a, <1>5, RefundsUntouched DEF vars
<1>6. QED
  BY <1>1, <1>2, <1>3, <1>4, <1>5 DEF Next

\* With any number of threads, what is refunded of a payment never exceeds it
\* more often than requests can overlap, and nothing is refunded that was not
\* paid (create_refund, which checks the refunds on record without a lock).
THEOREM RefundsAreBounded == Spec => []RefundsBounded
<1>1. Init => RefundInv
  BY DEF Init, RefundInv, RefundsHavePayments, RefundsFit, Pending, Idle
<1>2. TypeOK /\ RefundInv => RefundsBounded
  <2> SUFFICES ASSUME TypeOK, RefundInv, NEW o \in OrderIds, refunded[o] > 0
               PROVE  payments[o] # None /\ refunded[o] <= payments[o].final * Cardinality(Threads)
    BY DEF RefundsBounded
  <2>1. payments[o] # None
    BY DEF RefundInv, RefundsHavePayments
  <2>2. payments[o].final \in Nat /\ refunded[o] \in Nat /\ PendingTotal(o) \in Nat /\ Cardinality(Threads) \in Nat
    BY <2>1, DeskConstants, PendingNat, FS_CardinalityType DEF TypeOK, Payment
  <2>3. refunded[o] + PendingTotal(o) <= payments[o].final * Cardinality(Threads)
    BY <2>1 DEF RefundInv, RefundsFit
  <2> DEFINE p == payments[o].final * Cardinality(Threads)
  <2>4. p \in Int
    <3> DEFINE c == payments[o].final
               k == Cardinality(Threads)
    <3>1. c \in Nat /\ k \in Nat
      BY <2>2
    <3> HIDE DEF c, k
    <3>2. c * k \in Int
      BY <3>1
    <3>3. QED
      BY <3>2 DEF c, k
  <2>5. refunded[o] + PendingTotal(o) <= p
    BY <2>3
  <2> HIDE DEF p
  <2>6. refunded[o] <= p
    BY <2>2, <2>4, <2>5
  <2>7. QED
    BY <2>1, <2>6 DEF p
<1>3. QED
  BY <1>1, <1>2, RefundSteps, DeskTypes, ShapeHolds, PTL DEF Spec

=============================================================================
