----------------------------- MODULE BillProofs ------------------------------
(***************************************************************************)
(* What the payment screen promises the waiter, for any table, any dishes  *)
(* and prices, any number of jobs under way, of failures and of other      *)
(* devices.                                                                *)
(*                                                                         *)
(* The first part needs to know only that orders and jobs carry some units *)
(* and amounts: the buttons are disabled exactly while one job of the      *)
(* screen runs, and it says that the table is paid only when every order   *)
(* it listed is (IInv).  The second part counts: editing and splitting     *)
(* conserve units, and amounts are what the server asks for (BInv).        *)
(***************************************************************************)
EXTENDS Bill, SeqLemmas, SumLemmas

JobTypes(X) ==
    [kind : {"none", "pay", "payAll", "split"}, todo : X, stage : {"post", "read"},
     own : BOOLEAN, listed : SUBSET Ids, bill : X, copies : X, splits : X]

\* A payment that will end with the whole table paid has paid what is no longer to do,
\* and, while it reads an order again, that order too.
PaidFor(job, orders_) ==
    job.kind \in {"pay", "payAll"} /\ Leaves(job) =>
        \A o \in job.listed :
            o \notin job.todo \/ (job.stage = "read" /\ o = Next_(job))
            => orders_[o].status = "paid"

Statuses == {"none", "active", "paid", "cancelled"}

\* The inductive invariant.
JobsOK == \E X : jobs \in [Slots -> JobTypes(X)]
OrdersOK == \E U : srv \in [Ids -> [status : Statuses, units : U]]
IInv ==
    /\ JobsOK /\ OrdersOK /\ processing \in BOOLEAN
    /\ OneJobPerScreen
    /\ \A j \in Slots : PaidFor(jobs[j], srv)

\* What a step may do to the orders: one that is paid stays paid.
PaidStays == OrdersOK' /\ \A o \in Ids : srv[o].status = "paid" => srv'[o].status = "paid"

-----------------------------------------------------------------------------
(* Jobs.                                                                   *)

\* What becomes of a job is a job.
LEMMA JobsStay ==
    ASSUME NEW X, NEW x \in JobTypes(X)
    PROVE  /\ x.own \in BOOLEAN /\ x.listed \subseteq Ids
           /\ [x EXCEPT !.own = FALSE] \in JobTypes(X)
           /\ [x EXCEPT !.stage = "read"] \in JobTypes(X)
           /\ \A t \in X : [x EXCEPT !.stage = "post", !.todo = t] \in JobTypes(X)
  BY DEF JobTypes

\* A job of an empty slot has nothing to pay.
LEMMA NoJobIsIdle ==
    /\ NoJob.kind = "none" /\ ~NoJob.own
    /\ \A orders_ : PaidFor(NoJob, orders_)
    /\ \A X : {{}, <<>>} \subseteq X => NoJob \in JobTypes(X)
  BY DEF NoJob, PaidFor, JobTypes

\* A job's fields may hold more.
LEMMA JobsGrow ==
    ASSUME NEW X, NEW Y, X \subseteq Y, jobs \in [Slots -> JobTypes(X)]
    PROVE  jobs \in [Slots -> JobTypes(Y)]
<1>1. JobTypes(X) \subseteq JobTypes(Y)
  BY DEF JobTypes
<1>2. QED
  BY <1>1

\* What was paid for stays paid for while orders stay paid.
LEMMA PaidForStays ==
    ASSUME NEW job, job.listed \subseteq Ids, PaidFor(job, srv), PaidStays
    PROVE  PaidFor(job, srv')
  BY DEF PaidFor, PaidStays

\* A screen that is given up says nothing of what its job has paid.
LEMMA OrphansPaid ==
    ASSUME NEW X, NEW job \in JobTypes(X), PaidFor(job, srv)
    PROVE  /\ PaidFor([job EXCEPT !.own = FALSE], srv)
           /\ [job EXCEPT !.own = FALSE].kind = job.kind
<1> DEFINE x == [job EXCEPT !.own = FALSE]
<1>1. x.kind = job.kind /\ x.listed = job.listed /\ x.todo = job.todo /\ x.stage = job.stage
  BY DEF JobTypes
<1> HIDE DEF x
<1>2. Leaves(x) = Leaves(job) /\ Next_(x) = Next_(job)
  BY <1>1 DEF Leaves, Next_
<1>3. PaidFor(x, srv)
  BY <1>1, <1>2 DEF PaidFor
<1>4. QED
  BY <1>1, <1>3 DEF x

-----------------------------------------------------------------------------
(* The kinds of steps.                                                     *)

\* Jobs and the button stay as they are.
LEMMA QuietKeeps ==
    ASSUME IInv, UNCHANGED <<jobs, processing>>, PaidStays PROVE IInv'
<1>1. \A j \in Slots : jobs[j].listed \subseteq Ids
  BY JobsStay DEF IInv, JobsOK
<1>2. \A j \in Slots : PaidFor(jobs'[j], srv')
  BY <1>1, PaidForStays DEF IInv
<1>3. QED
  BY <1>2 DEF IInv, JobsOK, PaidStays, OneJobPerScreen

\* A job takes a step: it stays whose it was.
LEMMA JobKeeps ==
    ASSUME IInv, NEW j \in Slots, NEW X, jobs \in [Slots -> JobTypes(X)],
           NEW r \in JobTypes(X), jobs' = [jobs EXCEPT ![j] = r], r.own = jobs[j].own,
           UNCHANGED processing, PaidStays, PaidFor(r, srv')
    PROVE  IInv'
<1>1. /\ jobs' \in [Slots -> JobTypes(X)]
      /\ \A k \in Slots : jobs'[k] = IF k = j THEN r ELSE jobs[k]
  OBVIOUS
<1>2. \A k \in Slots : PaidFor(jobs'[k], srv')
  <2>1. \A k \in Slots : jobs[k].listed \subseteq Ids
    BY JobsStay
  <2>2. QED
    BY <1>1, <2>1, PaidForStays DEF IInv
<1>3. OneJobPerScreen'
  BY <1>1 DEF IInv, OneJobPerScreen
<1>4. QED
  BY <1>1, <1>2, <1>3 DEF IInv, JobsOK, PaidStays

\* A job starts only while the screen runs none.
LEMMA StartKeeps ==
    ASSUME IInv, NEW job, Start(job), ~processing, UNCHANGED srv,
           \E X : job \in JobTypes(X), job.own, PaidFor(job, srv)
    PROVE  IInv'
<1>1. PICK j \in Slots : jobs' = [jobs EXCEPT ![j] = job]
  BY DEF Start
<1>2. PICK X : jobs \in [Slots -> JobTypes(X)]
  BY DEF IInv, JobsOK
<1>3. PICK Y : job \in JobTypes(Y)
  OBVIOUS
<1>4. job \in JobTypes(X \cup Y)
  BY <1>3 DEF JobTypes
<1>5. jobs \in [Slots -> JobTypes(X \cup Y)]
  BY <1>2, JobsGrow
<1>6. /\ jobs' \in [Slots -> JobTypes(X \cup Y)]
      /\ \A k \in Slots : jobs'[k] = IF k = j THEN job ELSE jobs[k]
  BY <1>1, <1>4, <1>5
<1>7. processing' = TRUE
  BY DEF Start
<1>8. OneJobPerScreen'
  BY <1>6, <1>7 DEF IInv, OneJobPerScreen
<1>9. \A k \in Slots : PaidFor(jobs'[k], srv')
  BY <1>6 DEF IInv
<1>10. OrdersOK'
  BY DEF IInv, OrdersOK
<1>11. QED
  BY <1>6, <1>7, <1>8, <1>9, <1>10 DEF IInv, JobsOK

\* A job that ends gives back the button of its own screen only.
LEMMA EndKeeps ==
    ASSUME IInv, NEW j \in Slots, jobs' = [jobs EXCEPT ![j] = NoJob], Released(j), PaidStays
    PROVE  IInv'
<1>1. PICK X : jobs \in [Slots -> JobTypes(X)]
  BY DEF IInv, JobsOK
<1> DEFINE Y == X \cup {{}, <<>>}
<1>2. jobs \in [Slots -> JobTypes(Y)] /\ NoJob \in JobTypes(Y)
  BY <1>1, JobsGrow, NoJobIsIdle
<1> HIDE DEF Y
<1>3. /\ jobs' \in [Slots -> JobTypes(Y)]
      /\ \A k \in Slots : jobs'[k] = IF k = j THEN NoJob ELSE jobs[k]
  BY <1>2
<1>4. \A k \in Slots : PaidFor(jobs'[k], srv')
  <2>1. \A k \in Slots : jobs[k].listed \subseteq Ids
    BY <1>1, JobsStay
  <2>2. QED
    BY <1>3, <2>1, PaidForStays, NoJobIsIdle DEF IInv
<1>5. processing' = (processing /\ ~jobs[j].own)
  BY DEF Released, IInv
<1>6. \A k \in Slots : jobs[k].own \in BOOLEAN
  BY <1>1, JobsStay
<1>7. OneJobPerScreen'
  <2>1. CASE jobs[j].own
    <3>1. \A k \in Slots : ~jobs'[k].own
      BY <1>3, <2>1, NoJobIsIdle DEF IInv, OneJobPerScreen
    <3>2. QED
      BY <1>5, <2>1, <3>1 DEF OneJobPerScreen
  <2>2. CASE ~jobs[j].own
    <3>1. \A k \in Slots : jobs'[k].own <=> jobs[k].own
      BY <1>3, <2>2, NoJobIsIdle
    <3>2. processing' <=> processing
      BY <1>5, <2>2
    <3>3. QED
      BY <3>1, <3>2 DEF IInv, OneJobPerScreen
  <2>3. QED
    BY <2>1, <2>2
<1>8. processing' \in BOOLEAN
  BY <1>5
<1>9. QED
  BY <1>3, <1>4, <1>7, <1>8 DEF IInv, JobsOK, PaidStays

\* Jobs of a screen that is left go on without one.
LEMMA OrphansKeep ==
    ASSUME IInv, Unmounted, UNCHANGED srv,
           jobs' = Orphaned \/ \E j \in Slots : jobs' = [Orphaned EXCEPT ![j] = NoJob]
    PROVE  IInv'
<1>1. PICK X : jobs \in [Slots -> JobTypes(X)]
  BY DEF IInv, JobsOK
<1> DEFINE Y == X \cup {{}, <<>>}
<1>2. jobs \in [Slots -> JobTypes(Y)] /\ NoJob \in JobTypes(Y)
  BY <1>1, JobsGrow, NoJobIsIdle
<1> HIDE DEF Y
<1>3. \A k \in Slots : /\ [jobs[k] EXCEPT !.own = FALSE] \in JobTypes(Y)
                       /\ [jobs[k] EXCEPT !.own = FALSE].own = FALSE
                       /\ PaidFor([jobs[k] EXCEPT !.own = FALSE], srv)
  <2>1. ASSUME NEW k \in Slots PROVE jobs[k] \in JobTypes(Y) /\ PaidFor(jobs[k], srv)
    BY <1>2 DEF IInv
  <2>2. ASSUME NEW k \in Slots PROVE [jobs[k] EXCEPT !.own = FALSE].own = FALSE
    BY <2>1 DEF JobTypes
  <2>3. QED
    BY <2>1, <2>2, JobsStay, OrphansPaid
<1>4. /\ Orphaned \in [Slots -> JobTypes(Y)]
      /\ \A k \in Slots : ~Orphaned[k].own /\ PaidFor(Orphaned[k], srv)
  BY <1>3 DEF Orphaned
<1>5. /\ jobs' \in [Slots -> JobTypes(Y)]
      /\ \A k \in Slots : jobs'[k] = Orphaned[k] \/ jobs'[k] = NoJob
  BY <1>2, <1>4
<1>6. \A k \in Slots : ~jobs'[k].own /\ PaidFor(jobs'[k], srv')
  BY <1>4, <1>5, NoJobIsIdle
<1>7. processing' = FALSE /\ OrdersOK'
  BY DEF Unmounted, IInv, OrdersOK
<1>8. OneJobPerScreen'
  BY <1>6, <1>7 DEF OneJobPerScreen
<1>9. QED
  BY <1>5, <1>6, <1>7, <1>8 DEF IInv, JobsOK

-----------------------------------------------------------------------------
(* The orders.                                                             *)

\* Only active orders are paid, cancelled or split, and a new one has a new id.
LEMMA ServerKeepsPaid ==
    ASSUME OrdersOK,
           \/ UNCHANGED srv
           \/ \E o, bill : PayOrder(o, bill)
           \/ \E splits : SplitTable(splits)
           \/ OthersOrder
           \/ \E o \in Ids, status \in {"paid", "cancelled"} : OthersClose(o, status)
    PROVE  PaidStays
<1>1. PICK U : srv \in [Ids -> [status : Statuses, units : U]]
  BY DEF OrdersOK
<1>2. ASSUME NEW o, NEW x, NEW V, x \in [status : Statuses, units : V],
             srv[o].status # "paid" \/ x.status = "paid", srv' = [srv EXCEPT ![o] = x]
      PROVE  PaidStays
  <2>1. srv' \in [Ids -> [status : Statuses, units : U \cup V]]
    BY <1>1, <1>2
  <2>2. \A k \in Ids : srv[k].status = "paid" => srv'[k].status = "paid"
    BY <1>1, <1>2
  <2>3. QED
    BY <2>1, <2>2 DEF PaidStays, OrdersOK
<1>3. ASSUME UNCHANGED srv PROVE PaidStays
  BY <1>3 DEF PaidStays, OrdersOK
<1>4. ASSUME NEW o, NEW status \in {"paid", "cancelled"},
             srv[o].status = "active", srv' = [srv EXCEPT ![o].status = status]
      PROVE  PaidStays
  <2>1. CASE o \in Ids
    <3> DEFINE x == [srv[o] EXCEPT !.status = status]
    <3>1. srv[o] \in [status : Statuses, units : U]
      BY <1>1, <2>1
    <3>2. x \in [status : Statuses, units : U]
      BY <3>1 DEF Statuses
    <3>3. srv' = [srv EXCEPT ![o] = x]
      BY <1>4
    <3>4. srv[o].status # "paid"
      BY <1>4
    <3> HIDE DEF x
    <3>5. QED
      BY <1>2, <3>2, <3>3, <3>4
  <2>2. CASE o \notin Ids
    <3>1. srv' = srv
      BY <1>1, <1>4, <2>2
    <3>2. QED
      BY <1>3, <3>1
  <2>3. QED
    BY <2>1, <2>2
<1>5. ASSUME NEW o, NEW bill, PayOrder(o, bill) PROVE PaidStays
  BY <1>4, <1>5 DEF PayOrder, Payable
<1>6. ASSUME NEW o, NEW status \in {"paid", "cancelled"}, OthersClose(o, status)
      PROVE  PaidStays
  BY <1>4, <1>6 DEF OthersClose, ActiveIn
<1>7. ASSUME OthersOrder PROVE PaidStays
  <2>1. PICK o \in Free : srv' = [srv EXCEPT ![o] = Order("active", Extra)]
    BY <1>7 DEF OthersOrder
  <2>2. Order("active", Extra) \in [status : Statuses, units : {Extra}]
    BY DEF Order, Statuses
  <2>3. srv[o].status # "paid"
    BY DEF Free
  <2>4. QED
    BY <1>2, <2>1, <2>2, <2>3
<1>8. ASSUME NEW splits, SplitTable(splits) PROVE PaidStays
  <2> DEFINE shut == Closed(srv, ActiveIn(srv))
             u(o) == UnitsOf(splits[o - Used])
             V == U \cup {u(o) : o \in Ids}
  <2>1. \A o \in Ids : /\ shut[o] \in [status : Statuses, units : U]
                       /\ srv[o].status = "paid" => shut[o].status = "paid"
    <3>1. ASSUME NEW o \in Ids
          PROVE  /\ srv[o] \in [status : Statuses, units : U]
                 /\ [srv[o] EXCEPT !.status = "cancelled"] \in [status : Statuses, units : U]
      BY <1>1 DEF Statuses
    <3>2. ASSUME NEW o \in Ids
          PROVE  shut[o] = IF srv[o].status = "active"
                           THEN [srv[o] EXCEPT !.status = "cancelled"] ELSE srv[o]
      BY <3>2 DEF Closed, ActiveIn
    <3> HIDE DEF shut
    <3>3. QED
      BY <3>1, <3>2
  <2>2. srv' = [o \in Ids |-> IF o \in Free /\ o - Used \in DOMAIN splits
                             THEN Order("active", u(o)) ELSE shut[o]]
    BY <1>8 DEF SplitTable, WithChecks, NewIds
  <2>3. \A o \in Ids : Order("active", u(o)) \in [status : Statuses, units : V]
    BY DEF Order, Statuses
  <2> HIDE DEF shut, u
  <2>4. srv' \in [Ids -> [status : Statuses, units : V]]
    BY <2>1, <2>2, <2>3
  <2>5. \A o \in Ids : srv[o].status = "paid" => srv'[o].status = "paid"
    BY <2>1, <2>2 DEF Free
  <2>6. QED
    BY <2>4, <2>5 DEF PaidStays, OrdersOK
<1>9. QED
  BY <1>3, <1>5, <1>6, <1>7, <1>8

\* The order selected is the one listed if there is no other.
LEMMA OnlyOrder ==
    ASSUME orders # {}, Cardinality(orders) <= 1 PROVE orders = {selectedOrder}
<1>1. PICK x : x \in orders
  OBVIOUS
<1>2. IsFiniteSet(orders)
  <2>1. IsFiniteSet(Ids)
    BY FS_Interval, BillAssumption DEF Ids
  <2>2. orders \subseteq Ids
    BY DEF orders, ActiveIn
  <2>3. QED
    BY <2>1, <2>2, FS_Subset
<1>3. IsFiniteSet({x}) /\ Cardinality({x}) = 1
  BY FS_Singleton
<1>4. Cardinality({x}) <= Cardinality(orders) /\ Cardinality(orders) \in Nat
  BY <1>1, <1>2, FS_Subset, FS_CardinalityType
<1>5. orders = {x}
  BY <1>1, <1>2, <1>3, <1>4, FS_Subset
<1>6. x \in Nat
  BY <1>1, BillAssumption DEF orders, ActiveIn, Ids
<1>7. First(orders) = x
  BY <1>5, <1>6 DEF First
<1>8. QED
  BY <1>5, <1>7 DEF selectedOrder

\* A job that starts has paid nothing, and claims nothing.
LEMMA FirstJobs ==
    ASSUME NEW kind \in {"pay", "payAll"}, NEW todo, NEW cash,
           orders \subseteq todo \/ ~Leaves(Job(kind, todo, cash))
    PROVE  /\ PaidFor(Job(kind, todo, cash), srv) /\ Job(kind, todo, cash).own
           /\ \E X : Job(kind, todo, cash) \in JobTypes(X)
<1> DEFINE job == Job(kind, todo, cash)
<1>1. /\ job.own /\ job.listed = orders /\ job.todo = todo /\ job.stage = "post"
      /\ job \in JobTypes({job.todo, job.bill, job.copies, job.splits})
  BY DEF Job, JobTypes, orders, ActiveIn
<1> HIDE DEF job
<1>2. PaidFor(job, srv)
  BY <1>1 DEF PaidFor, job
<1>3. QED
  BY <1>1, <1>2 DEF job

-----------------------------------------------------------------------------
(* The steps.                                                              *)

\* The screen opens with no job and its buttons enabled.
LEMMA InitHolds == Init => IInv
<1> SUFFICES ASSUME Init PROVE IInv
  OBVIOUS
<1>1. srv = [o \in Ids |-> IF o <= Len(Opening) THEN Order("active", Opening[o]) ELSE Absent]
  BY DEF Init
<1> DEFINE U == {Opening[o] : o \in Ids} \cup {[d \in Dishes |-> 0]}
<1>2. srv \in [Ids -> [status : Statuses, units : U]]
  BY <1>1 DEF Order, Absent, Statuses
<1>3. jobs = [j \in Slots |-> NoJob] /\ processing = FALSE
  BY DEF Init
<1>4. jobs \in [Slots -> JobTypes({{}, <<>>})]
  BY <1>3, NoJobIsIdle
<1>5. OneJobPerScreen /\ \A j \in Slots : PaidFor(jobs[j], srv)
  BY <1>3, NoJobIsIdle DEF OneJobPerScreen
<1> HIDE DEF U
<1>6. QED
  BY <1>2, <1>3, <1>4, <1>5 DEF IInv, JobsOK, OrdersOK

\* The screen: it is left, a job starts, or jobs and button stay.
LEMMA ScreenKeeps == ASSUME IInv, ScreenStep PROVE IInv'
<1>1. UNCHANGED srv
  BY DEF ScreenStep, SelectOrder, TypeReceived, AskOne, AskAll, CloseDialog, enterSplit,
         EditSplit, leaveSplit, Back, Open, pay, payAll, confirmSplit, Start, server
<1>2. PaidStays
  BY <1>1, ServerKeepsPaid DEF IInv
<1>3. CASE pay
  <2>1. PICK job : job = Job("pay", {selectedOrder}, received)
    OBVIOUS
  <2>2. orders # {} /\ ~processing /\ Start(job)
    BY <1>3, <2>1 DEF pay
  <2>3. Leaves(job) => Cardinality(orders) <= 1
    BY <2>1 DEF Leaves, Job
  <2>4. orders \subseteq {selectedOrder} \/ ~Leaves(job)
    BY <2>2, <2>3, OnlyOrder
  <2>5. PaidFor(job, srv) /\ job.own /\ \E X : job \in JobTypes(X)
    BY <2>1, <2>4, FirstJobs
  <2>6. QED
    BY <1>1, <2>2, <2>5, StartKeeps
<1>4. CASE payAll
  <2>1. PICK job : job = Job("payAll", orders, 0)
    OBVIOUS
  <2>2. ~processing /\ Start(job)
    BY <1>4, <2>1 DEF payAll
  <2>3. PaidFor(job, srv) /\ job.own /\ \E X : job \in JobTypes(X)
    BY <2>1, FirstJobs
  <2>4. QED
    BY <1>1, <2>2, <2>3, StartKeeps
<1>5. CASE confirmSplit
  <2>1. PICK job : job = [Job("split", {}, 0) EXCEPT !.copies = seen, !.splits = Splits]
    OBVIOUS
  <2>2. ~processing /\ Start(job)
    BY <1>5, <2>1 DEF confirmSplit
  <2>3. job.own /\ job.kind = "split"
    BY <2>1 DEF Job
  <2>4. job \in JobTypes({job.todo, job.bill, job.copies, job.splits})
    BY <2>1 DEF Job, JobTypes, orders, ActiveIn
  <2>5. PaidFor(job, srv)
    BY <2>3 DEF PaidFor
  <2>6. QED
    BY <1>1, <2>2, <2>3, <2>4, <2>5, StartKeeps
<1>6. CASE Back
  BY <1>1, <1>6, OrphansKeep DEF Back
<1>7. CASE UNCHANGED <<jobs, processing>>
  BY <1>2, <1>7, QuietKeeps
<1>8. QED
  BY <1>3, <1>4, <1>5, <1>6, <1>7
     DEF ScreenStep, SelectOrder, TypeReceived, AskOne, AskAll, CloseDialog, enterSplit,
         EditSplit, leaveSplit, Open, form

\* The server has done what the job asked.
LEMMA PostedKeeps == ASSUME IInv, NEW j \in Running, Posted(j) PROVE IInv'
<1>1. PICK X : jobs \in [Slots -> JobTypes(X)]
  BY DEF IInv, JobsOK
<1>2. j \in Slots /\ jobs[j] \in JobTypes(X) /\ PaidFor(jobs[j], srv)
  BY <1>1 DEF Running, IInv
<1>3. PICK job : job = jobs[j]
  OBVIOUS
<1>4. PICK r : r = [job EXCEPT !.stage = "read"]
  OBVIOUS
<1>5. /\ r \in JobTypes(X) /\ r.own = job.own /\ r.kind = job.kind
      /\ r.listed = job.listed /\ r.todo = job.todo /\ r.bill = job.bill
      /\ job.stage = "post" /\ job.kind # "none"
  BY <1>2, <1>3, <1>4 DEF JobTypes, Posted, Running
<1>6. jobs' = [jobs EXCEPT ![j] = r] /\ Handle(job) /\ UNCHANGED processing
  BY <1>3, <1>4 DEF Posted, form
<1>7. PaidStays
  BY <1>6, ServerKeepsPaid DEF IInv, Handle
<1>8. PaidFor(r, srv')
  <2> SUFFICES ASSUME r.kind \in {"pay", "payAll"}, Leaves(r), NEW o \in r.listed,
                      o \notin r.todo \/ o = Next_(r)
               PROVE  srv'[o].status = "paid"
    BY DEF PaidFor
  <2>1. o \in Ids /\ Leaves(job) /\ Next_(job) = Next_(r)
    BY <1>2, <1>3, <1>5, JobsStay DEF Leaves, Next_
  <2>2. CASE o \notin r.todo
    <3>1. srv[o].status = "paid"
      BY <1>2, <1>3, <1>5, <2>1, <2>2 DEF PaidFor
    <3>2. QED
      BY <1>7, <2>1, <3>1 DEF PaidStays
  <2>3. CASE o = Next_(r)
    <3>1. srv' = [srv EXCEPT ![o].status = "paid"]
      BY <1>5, <1>6, <2>1, <2>3 DEF Handle, PayOrder
    <3>2. PICK U : srv \in [Ids -> [status : Statuses, units : U]]
      BY DEF IInv, OrdersOK
    <3>3. srv'[o] = [srv[o] EXCEPT !.status = "paid"] /\ srv[o] \in [status : Statuses, units : U]
      BY <2>1, <3>1, <3>2
    <3>4. QED
      BY <3>3
  <2>4. QED
    BY <2>2, <2>3
<1>9. QED
  BY <1>1, <1>2, <1>3, <1>5, <1>6, <1>7, <1>8, JobKeeps

\* A job that fails ends, whatever the server did.
LEMMA FailuresKeep == ASSUME IInv, NEW j \in Running, PostFails(j) \/ ReadFails(j) PROVE IInv'
<1>1. jobs' = [jobs EXCEPT ![j] = NoJob] /\ Released(j)
  BY DEF PostFails, ReadFails, Fails
<1>2. \/ UNCHANGED srv \/ \E o, bill : PayOrder(o, bill) \/ \E splits : SplitTable(splits)
  BY DEF PostFails, ReadFails, Handle, server
<1>3. PaidStays
  BY <1>2, ServerKeepsPaid DEF IInv
<1>4. QED
  BY <1>1, <1>3, EndKeeps DEF Running

\* A job that has read its order goes on with the next one or is done.
LEMMA ReadKeeps == ASSUME IInv, NEW j \in Running, Read(j) PROVE IInv'
<1>1. UNCHANGED srv /\ jobs[j].stage = "read"
  BY DEF Read, server
<1>2. PaidStays
  BY <1>1, ServerKeepsPaid DEF IInv
<1>3. CASE Done(j)
  <2>1. CASE jobs[j].kind # "split" /\ Leaves(jobs[j])
    <3>1. Unmounted /\ jobs' = [Orphaned EXCEPT ![j] = NoJob]
      BY <1>3, <2>1 DEF Done
    <3>2. QED
      BY <1>1, <3>1, OrphansKeep DEF Running
  <2>2. CASE ~(jobs[j].kind # "split" /\ Leaves(jobs[j]))
    <3>1. jobs' = [jobs EXCEPT ![j] = NoJob] /\ Released(j)
      BY <1>3, <2>2 DEF Done
    <3>2. QED
      BY <1>2, <3>1, EndKeeps DEF Running
  <2>3. QED
    BY <2>1, <2>2
<1>4. CASE ~Done(j)
  <2>1. PICK rest : rest = jobs[j].todo \ {Next_(jobs[j])}
    OBVIOUS
  <2>2. PICK job : job = jobs[j]
    OBVIOUS
  <2>3. PICK r : r = [job EXCEPT !.stage = "post", !.todo = rest]
    OBVIOUS
  <2>4. jobs' = [jobs EXCEPT ![j] = r] /\ UNCHANGED processing
    BY <1>4, <2>1, <2>2, <2>3 DEF Read, form
  <2>5. PICK X : jobs \in [Slots -> JobTypes(X)]
    BY DEF IInv, JobsOK
  <2>6. PICK Y : Y = X \cup {rest}
    OBVIOUS
  <2>7. jobs \in [Slots -> JobTypes(Y)] /\ rest \in Y
    BY <2>5, <2>6, JobsGrow
  <2>8. j \in Slots /\ job \in JobTypes(Y) /\ PaidFor(job, srv)
    BY <2>2, <2>7 DEF Running, IInv
  <2>9. /\ r \in JobTypes(Y) /\ r.own = job.own /\ r.kind = job.kind /\ r.stage = "post"
        /\ r.listed = job.listed /\ r.todo = rest
    BY <2>3, <2>7, <2>8 DEF JobTypes
  <2>10. PaidFor(r, srv)
    <3>1. Leaves(r) = Leaves(job)
      BY <2>9 DEF Leaves
    <3>2. ASSUME NEW o, o \notin rest PROVE o \notin job.todo \/ o = Next_(job)
      BY <2>1, <2>2, <3>2
    <3>3. job.stage = "read"
      BY <1>1, <2>2
    <3>4. QED
      BY <2>8, <2>9, <3>1, <3>2, <3>3 DEF PaidFor
  <2>11. PaidFor(r, srv')
    BY <1>1, <2>10
  <2>12. QED
    BY <1>2, <2>2, <2>4, <2>7, <2>8, <2>9, <2>11, JobKeeps
<1>5. QED
  BY <1>3, <1>4

\* Every step keeps the invariant.
LEMMA StepKeeps == ASSUME IInv, [Next]_vars PROVE IInv'
<1>1. CASE ScreenStep
  BY <1>1, ScreenKeeps
<1>2. ASSUME NEW j \in Running, JobStep(j) PROVE IInv'
  BY <1>2, PostedKeeps, FailuresKeep, ReadKeeps DEF JobStep
<1>3. ASSUME OthersOrder \/ \E o \in Ids, status \in {"paid", "cancelled"} : OthersClose(o, status)
      PROVE  IInv'
  <2>1. PaidStays
    BY <1>3, ServerKeepsPaid DEF IInv
  <2>2. UNCHANGED <<jobs, processing>>
    BY <1>3 DEF OthersOrder, OthersClose, form
  <2>3. QED
    BY <2>1, <2>2, QuietKeeps
<1>4. ASSUME NEW o, Follow(o) PROVE IInv'
  <2>1. UNCHANGED <<srv, jobs, processing>>
    BY <1>4 DEF Follow, form
  <2>2. QED
    BY <2>1, QuietKeeps, ServerKeepsPaid DEF IInv
<1>5. CASE UNCHANGED vars
  <2>1. UNCHANGED <<srv, jobs, processing>>
    BY <1>5 DEF vars
  <2>2. QED
    BY <2>1, QuietKeeps, ServerKeepsPaid DEF IInv
<1>6. QED
  BY <1>1, <1>2, <1>3, <1>4, <1>5 DEF Next

\* The screen goes away by itself only at the end of a payment that leaves nothing to pay.
LEMMA LeavesPaid == ASSUME IInv, [Next]_vars PROVE
    \A j \in Running \ Running' :
         jobs[j].kind # "split" /\ screen # "away" /\ screen' = "away"
         => \A o \in jobs[j].listed : srv[o].status = "paid"
<1> SUFFICES ASSUME NEW j \in Running, j \notin Running', jobs[j].kind # "split",
                    screen # "away", screen' = "away"
             PROVE  \A o \in jobs[j].listed : srv[o].status = "paid"
  OBVIOUS
<1>1. PICK X : jobs \in [Slots -> JobTypes(X)]
  BY DEF IInv, JobsOK
<1>2. /\ j \in Slots /\ jobs[j] \in JobTypes(X) /\ jobs[j].kind # "none"
      /\ jobs'[j].kind = "none"
  BY <1>1 DEF Running
<1>3. Orphaned[j].kind = jobs[j].kind
  <2>1. [jobs[j] EXCEPT !.own = FALSE].kind = jobs[j].kind
    BY <1>2 DEF JobTypes
  <2>2. QED
    BY <1>2, <2>1 DEF Orphaned
<1>4. ASSUME UNCHANGED screen PROVE FALSE
  BY <1>4
<1>5. ASSUME jobs' = Orphaned PROVE FALSE
  BY <1>2, <1>3, <1>5
<1>6. CASE ScreenStep
  <2>1. UNCHANGED screen \/ UNCHANGED jobs \/ jobs' = Orphaned
    BY <1>6 DEF ScreenStep, SelectOrder, TypeReceived, AskOne, AskAll, CloseDialog, enterSplit,
         EditSplit, leaveSplit, Back, Open, pay, payAll, confirmSplit, Start, form
  <2>2. QED
    BY <1>2, <1>4, <1>5, <2>1
<1>7. ASSUME NEW k \in Running, Posted(k) \/ PostFails(k) \/ ReadFails(k) PROVE FALSE
  BY <1>4, <1>7 DEF Posted, PostFails, ReadFails, Fails, form
<1>8. ASSUME NEW k \in Running, Read(k)
      PROVE  \A o \in jobs[j].listed : srv[o].status = "paid"
  <2>1. Done(k)
    BY <1>4, <1>8 DEF Read, form
  <2>2. Leaves(jobs[k]) /\ jobs[k].kind # "split" /\ jobs' = [Orphaned EXCEPT ![k] = NoJob]
    BY <1>4, <2>1 DEF Done
  <2>3. k = j
    BY <1>2, <1>3, <2>2 DEF Orphaned
  <2>4. jobs[j].kind \in {"pay", "payAll"} /\ jobs[j].stage = "read" /\ PaidFor(jobs[j], srv)
    BY <1>2, <1>8, <2>2, <2>3 DEF JobTypes, Read, IInv
  <2>5. jobs[j].todo \ {Next_(jobs[j])} = {}
    <3>1. ASSUME jobs[j].todo \ {Next_(jobs[j])} # {} PROVE UNCHANGED screen
      BY <1>8, <2>2, <2>3, <3>1 DEF Read, form
    <3>2. QED
      BY <1>4, <3>1
  <2>6. QED
    BY <2>2, <2>3, <2>4, <2>5 DEF PaidFor
<1>9. ASSUME \/ OthersOrder
             \/ \E o \in Ids, status \in {"paid", "cancelled"} : OthersClose(o, status)
             \/ \E o : Follow(o)
             \/ UNCHANGED vars
      PROVE  FALSE
  BY <1>4, <1>9 DEF OthersOrder, OthersClose, Follow, form, vars
<1>10. QED
  BY <1>6, <1>7, <1>8, <1>9 DEF Next, JobStep

-----------------------------------------------------------------------------

\* The inductive invariant holds in every reachable state.
LEMMA InvHolds == Spec => []IInv
<1>1. IInv /\ [Next]_vars => IInv'
  BY StepKeeps
<1>2. QED
  BY InitHolds, <1>1, PTL DEF Spec

\* The payment screen's buttons are disabled exactly while one job of its own runs, for
\* any number of jobs that screens left behind are still running
\* (TableSession.tsx:724-735, 840-888).
THEOREM ButtonsMatchJobs == Spec => []OneJobPerScreen
<1>1. IInv => OneJobPerScreen
  BY DEF IInv
<1>2. QED
  BY InvHolds, <1>1, PTL

\* The screen says that the table is paid only when the server has every order it listed
\* at the click as paid, for any table, whatever other devices and the network do
\* (TableSession.tsx:840-888).
THEOREM PaidMeansPaid == Spec => SaysPaidWhenPaid
<1>1. IInv /\ [Next]_vars =>
        [\A j \in Running \ Running' :
         /\ jobs[j].kind # "split"
         /\ screen # "away" /\ screen' = "away"
         => \A o \in jobs[j].listed : srv[o].status = "paid"]_vars
  BY LeavesPaid
<1>2. QED
  BY InvHolds, <1>1, PTL DEF Spec, SaysPaidWhenPaid

-----------------------------------------------------------------------------
(* The split editor: whatever is tapped or typed, the checks share out the *)
(* same units.                                                             *)

\* The checks, each a function from the items to the units it takes.
Shares(D) == [D -> Nat]
Table(rows, D) == rows \in Seq(Shares(D))

LEMMA TableShape ==
    ASSUME NEW D, NEW rows, Table(rows, D)
    PROVE  /\ Len(rows) \in Nat /\ DOMAIN rows = 1 .. Len(rows) /\ IsFiniteSet(DOMAIN rows)
           /\ \A c \in DOMAIN rows : rows[c] \in [D -> Nat]
<1>1. Len(rows) \in Nat /\ DOMAIN rows = 1 .. Len(rows)
  BY DEF Table
<1>2. \A c \in DOMAIN rows : rows[c] \in Shares(D)
  BY <1>1 DEF Table
<1>3. IsFiniteSet(DOMAIN rows)
  BY <1>1, Positions
<1>4. QED
  BY <1>1, <1>2, <1>3 DEF Shares

LEMMA TableOf ==
    ASSUME NEW D, NEW N \in Nat, NEW rows \in [1 .. N -> [D -> Nat]]
    PROVE  Table(rows, D) /\ Len(rows) = N /\ DOMAIN rows = 1 .. N
  BY SeqDef DEF Table, Shares

LEMMA RowAdded ==
    ASSUME NEW D, NEW rows, Table(rows, D), NEW e \in Shares(D)
    PROVE  /\ Table(Append(rows, e), D) /\ Len(Append(rows, e)) = Len(rows) + 1
           /\ Append(rows, e)[Len(rows) + 1] = e
           /\ \A k \in 1 .. Len(rows) : Append(rows, e)[k] = rows[k]
  BY AppendProperties DEF Table

LEMMA RowRemoved ==
    ASSUME NEW D, NEW rows, Table(rows, D), NEW c \in DOMAIN rows
    PROVE  /\ Table(RemoveAt(rows, c), D) /\ Len(RemoveAt(rows, c)) = Len(rows) - 1
           /\ \A k \in 1 .. Len(rows) - 1 :
                RemoveAt(rows, c)[k] = rows[IF k < c THEN k ELSE k + 1]
  BY RemovedAt DEF Table

LEMMA RowReplaced ==
    ASSUME NEW D, NEW rows, Table(rows, D), NEW c \in 1 .. Len(rows), NEW e \in Shares(D)
    PROVE  /\ Table([rows EXCEPT ![c] = e], D) /\ Len([rows EXCEPT ![c] = e]) = Len(rows)
           /\ \A k \in 1 .. Len(rows) : [rows EXCEPT ![c] = e][k] = IF k = c THEN e ELSE rows[k]
  BY ExceptSeq DEF Table

\* The column of an item, which Shared adds up.
Column(rows, i) == [c \in DOMAIN rows |-> rows[c][i]]

LEMMA ColumnSums ==
    ASSUME NEW D, NEW rows, Table(rows, D), NEW i \in D
    PROVE  /\ \A c \in DOMAIN rows : Column(rows, i)[c] = rows[c][i] /\ rows[c][i] \in Nat
           /\ Shared(rows, i) = SumFunctionOnSet(Column(rows, i), DOMAIN rows)
<1>1. \A c \in DOMAIN rows : rows[c] \in [D -> Nat]
  BY TableShape
<1>2. \A c \in DOMAIN rows : Column(rows, i)[c] = rows[c][i] /\ rows[c][i] \in Nat
  BY <1>1 DEF Column
<1>3. DOMAIN Column(rows, i) = DOMAIN rows
  BY DEF Column
<1>4. Shared(rows, i) = SumFunctionOnSet(Column(rows, i), DOMAIN Column(rows, i))
  BY Zenon DEF Shared, Column, SumFunction
<1>5. QED
  BY <1>2, <1>3, <1>4

\* What is shared out is no negative number, and no check has more of it.
LEMMA SharedNat ==
    ASSUME NEW D, NEW rows, Table(rows, D), NEW i \in D
    PROVE  /\ Shared(rows, i) \in Nat
           /\ \A c \in DOMAIN rows : rows[c][i] <= Shared(rows, i)
           /\ \A c \in DOMAIN rows : \A p \in DOMAIN rows \ {c} :
                rows[c][i] + rows[p][i] <= Shared(rows, i)
<1> DEFINE f == Column(rows, i)
           S == DOMAIN rows
<1>1. /\ \A c \in S : f[c] = rows[c][i] /\ f[c] \in Nat
      /\ Shared(rows, i) = SumFunctionOnSet(f, S)
  BY ColumnSums
<1>2. IsFiniteSet(S)
  BY TableShape
<1> HIDE DEF f, S
<1>3. \A c \in S : f[c] \in Nat
  BY <1>1
<1>4. /\ SumFunctionOnSet(f, S) \in Nat
      /\ \A c \in S : f[c] <= SumFunctionOnSet(f, S)
      /\ \A c \in S : \A p \in S \ {c} : f[c] + f[p] <= SumFunctionOnSet(f, S)
  BY <1>2, <1>3, TermsWithin
<1>5. /\ Shared(rows, i) \in Nat
      /\ \A c \in S : rows[c][i] <= Shared(rows, i)
      /\ \A c \in S : \A p \in S \ {c} : rows[c][i] + rows[p][i] <= Shared(rows, i)
  BY <1>1, <1>4
<1>6. QED
  BY <1>5 DEF S

LEMMA Balanced ==
    \A a, b, c, d, t \in Int : c + d = a + b => t - a - b + c + d = t
  OBVIOUS

\* Two checks exchange units of an item.
Exchange(rows, new, D, i, c, p) ==
    /\ new \in [DOMAIN rows -> [D -> Nat]]
    /\ new[c][i] + new[p][i] = rows[c][i] + rows[p][i]
    /\ \A j \in D \ {i} : new[c][j] = rows[c][j] /\ new[p][j] = rows[p][j]
    /\ \A k \in DOMAIN rows \ {c, p} : new[k] = rows[k]

LEMMA ExchangeKeeps ==
    ASSUME NEW D, NEW rows, Table(rows, D), NEW i \in D,
           NEW c \in DOMAIN rows, NEW p \in DOMAIN rows \ {c},
           NEW new, Exchange(rows, new, D, i, c, p)
    PROVE  /\ Table(new, D) /\ Len(new) = Len(rows)
           /\ \A j \in D : Shared(new, j) = Shared(rows, j)
<1>1. Len(rows) \in Nat /\ DOMAIN rows = 1 .. Len(rows) /\ IsFiniteSet(DOMAIN rows)
  BY TableShape
<1>2. Table(new, D) /\ Len(new) = Len(rows) /\ DOMAIN new = DOMAIN rows
  BY <1>1, TableOf DEF Exchange
<1>3. ASSUME NEW j \in D PROVE Shared(new, j) = Shared(rows, j)
  <2> DEFINE S == DOMAIN rows
             f == Column(rows, j)
             g == Column(new, j)
  <2>1. /\ \A k \in S : f[k] = rows[k][j] /\ f[k] \in Nat
        /\ Shared(rows, j) = SumFunctionOnSet(f, S)
    BY ColumnSums
  <2>2. /\ \A k \in S : g[k] = new[k][j] /\ g[k] \in Nat
        /\ Shared(new, j) = SumFunctionOnSet(g, S)
    <3>1. /\ \A k \in DOMAIN new : g[k] = new[k][j] /\ new[k][j] \in Nat
          /\ Shared(new, j) = SumFunctionOnSet(g, DOMAIN new)
      BY <1>2, ColumnSums
    <3> HIDE DEF g
    <3>2. QED
      BY <1>2, <3>1
  <2>3. IsFiniteSet(S) /\ c \in S /\ p \in S \ {c}
    BY <1>1
  <2> HIDE DEF f, g
  <2>4. g[c] + g[p] = f[c] + f[p] /\ \A k \in S \ {c, p} : g[k] = f[k]
    <3>1. f[c] = rows[c][j] /\ f[p] = rows[p][j] /\ g[c] = new[c][j] /\ g[p] = new[p][j]
      BY <2>1, <2>2
    <3>2. CASE j = i
      BY <2>1, <2>2, <3>1, <3>2 DEF Exchange
    <3>3. CASE j # i
      BY <2>1, <2>2, <3>1, <3>3 DEF Exchange
    <3>4. QED
      BY <3>2, <3>3
  <2> HIDE DEF S
  <2>5. \A k \in S : f[k] \in Int /\ g[k] \in Int
    BY <2>1, <2>2
  <2>6. SumFunctionOnSet(g, S) = SumFunctionOnSet(f, S) - f[c] - f[p] + g[c] + g[p]
    BY <2>3, <2>4, <2>5, SumTwo
  <2>7. SumFunctionOnSet(f, S) \in Int /\ f[c] \in Int /\ f[p] \in Int /\ g[c] \in Int /\ g[p] \in Int
    BY <2>3, <2>5, SumInt
  <2>8. SumFunctionOnSet(g, S) = SumFunctionOnSet(f, S)
    BY <2>4, <2>6, <2>7, Balanced
  <2>9. QED
    BY <2>1, <2>2, <2>8
<1>4. QED
  BY <1>2, <1>3

\* How the editor writes an exchange.
Exchanging(rows, i, c, x, p, y) ==
    [k \in DOMAIN rows |->
        CASE k = c -> [rows[k] EXCEPT ![i] = x]
          [] k = p -> [rows[k] EXCEPT ![i] = y]
          [] OTHER -> rows[k]]

LEMMA Exchanged ==
    ASSUME NEW D, NEW rows, Table(rows, D), NEW i \in D,
           NEW c \in DOMAIN rows, NEW p \in DOMAIN rows \ {c}, NEW x \in Nat, NEW y \in Nat,
           x + y = rows[c][i] + rows[p][i]
    PROVE  /\ Table(Exchanging(rows, i, c, x, p, y), D)
           /\ Len(Exchanging(rows, i, c, x, p, y)) = Len(rows)
           /\ \A j \in D : Shared(Exchanging(rows, i, c, x, p, y), j) = Shared(rows, j)
<1> DEFINE new == Exchanging(rows, i, c, x, p, y)
<1>1. \A k \in DOMAIN rows : rows[k] \in [D -> Nat]
  BY TableShape
<1>2. /\ new[c] = [rows[c] EXCEPT ![i] = x] /\ new[p] = [rows[p] EXCEPT ![i] = y]
      /\ \A k \in DOMAIN rows \ {c, p} : new[k] = rows[k]
  BY DEF Exchanging
<1>7. new = [k \in DOMAIN rows |-> new[k]]
  BY Zenon DEF Exchanging
<1> HIDE DEF new
<1>3. /\ new[c] \in [D -> Nat] /\ new[c][i] = x /\ \A j \in D \ {i} : new[c][j] = rows[c][j]
      /\ new[p] \in [D -> Nat] /\ new[p][i] = y /\ \A j \in D \ {i} : new[p][j] = rows[p][j]
  BY <1>1, <1>2
<1>4. new \in [DOMAIN rows -> [D -> Nat]]
  <2>1. \A k \in DOMAIN rows : new[k] \in [D -> Nat]
    BY <1>1, <1>2, <1>3
  <2>2. QED
    BY <2>1, <1>7
<1>5. Table(new, D) /\ Len(new) = Len(rows) /\ \A j \in D : Shared(new, j) = Shared(rows, j)
  <2>1. Exchange(rows, new, D, i, c, p)
    BY <1>2, <1>3, <1>4 DEF Exchange
  <2>2. QED
    BY <2>1, ExchangeKeeps
<1>6. QED
  BY <1>5 DEF new

\* An editor holds at least two checks, which share out what was ordered.
Editor(rows, D) == Table(rows, D) /\ Len(rows) >= 2
Keeps(new, rows, D) == Editor(new, D) /\ \A i \in D : Shared(new, i) = Shared(rows, i)

LEMMA EnteredShares ==
    ASSUME NEW D, NEW units \in [D -> Nat]
    PROVE  Editor(Entered(units), D) /\ \A i \in D : Shared(Entered(units), i) = units[i]
<1> DEFINE rows == Entered(units)
<1>1. Table(rows, D) /\ Len(rows) = 2 /\ rows[1] = units /\ rows[2] = [i \in D |-> 0]
  <2> DEFINE empty == [i \in D |-> 0]
  <2>1. units \in Shares(D) /\ empty \in Shares(D) /\ rows = <<units, empty>>
    BY DEF Entered, EmptyCheck, Shares
  <2> HIDE DEF empty, rows
  <2>2. Table(rows, D) /\ Len(rows) = 2 /\ rows[1] = units /\ rows[2] = empty
    BY <2>1 DEF Table
  <2>3. QED
    BY <2>2 DEF empty
<1>2. ASSUME NEW i \in D PROVE Shared(rows, i) = units[i]
  <2> DEFINE f == Column(rows, i)
             S == DOMAIN rows
  <2>1. /\ Shared(rows, i) = SumFunctionOnSet(f, S) /\ IsFiniteSet(S)
        /\ \A k \in S : f[k] = rows[k][i] /\ f[k] \in Nat
    BY <1>1, TableShape, ColumnSums
  <2>2. S = {1, 2}
    BY <1>1
  <2>3. f[1] = units[i] /\ f[2] = 0
    BY <1>1, <2>1, <2>2
  <2> HIDE DEF f, S
  <2>4. SumFunctionOnSet(f, S) = SumFunctionOnSet(f, {1})
    BY <2>1, <2>2, <2>3, SumPart
  <2>5. SumFunctionOnSet(f, {1}) = f[1] + SumFunctionOnSet(f, {})
    <3>1. IsFiniteSet({1})
      BY FS_Singleton
    <3>2. {1} \ {1} = {} /\ 1 \in {1}
      OBVIOUS
    <3>3. \A k \in {1} : f[k] \in Int
      BY <2>1, <2>2
    <3>4. SumFunctionOnSet(f, {1}) = f[1] + SumFunctionOnSet(f, {1} \ {1})
      BY <3>1, <3>2, <3>3, SumTake
    <3>5. QED
      BY <3>2, <3>4
  <2>6. QED
    BY <2>1, <2>2, <2>3, <2>4, <2>5, SumEmpty
<1>3. QED
  BY <1>1, <1>2 DEF Editor

\* A check added takes what it takes.
LEMMA RowAddedShares ==
    ASSUME NEW D, NEW rows, Table(rows, D), NEW e \in Shares(D), NEW i \in D
    PROVE  Shared(Append(rows, e), i) = Shared(rows, i) + e[i]
<1> DEFINE new == Append(rows, e)
           N == Len(rows)
           f == Column(rows, i)
           g == Column(new, i)
<1>1. /\ Table(new, D) /\ Len(new) = N + 1 /\ new[N + 1] = e
      /\ \A k \in 1 .. N : new[k] = rows[k]
  BY RowAdded
<1> HIDE DEF new
<1>2. N \in Nat /\ DOMAIN rows = 1 .. N /\ DOMAIN new = 1 .. N + 1
  BY <1>1, TableShape
<1>3. /\ \A k \in 1 .. N : f[k] = rows[k][i] /\ rows[k][i] \in Nat
      /\ Shared(rows, i) = SumFunctionOnSet(f, 1 .. N)
  BY <1>2, ColumnSums
<1>4. /\ \A k \in 1 .. N + 1 : g[k] = new[k][i] /\ new[k][i] \in Nat
      /\ Shared(new, i) = SumFunctionOnSet(g, 1 .. N + 1)
  BY <1>1, <1>2, ColumnSums
<1> HIDE DEF f, g, N
<1>5. g[N + 1] = e[i] /\ g[N + 1] \in Int
  <2>1. N + 1 \in 1 .. N + 1
    BY <1>2
  <2>2. QED
    BY <1>1, <1>4, <2>1
<1>6. \A k \in 1 .. N : f[k] \in Int /\ g[k] = f[k]
  <2>1. ASSUME NEW k \in 1 .. N PROVE f[k] \in Int /\ g[k] = f[k]
    <3>1. k \in 1 .. N + 1
      BY <1>2
    <3>2. QED
      BY <1>1, <1>3, <1>4, <3>1
  <2>2. QED
    BY <2>1
<1>7. SumFunctionOnSet(g, 1 .. N + 1) = SumFunctionOnSet(f, 1 .. N) + g[N + 1]
  BY <1>2, <1>5, <1>6, SumAppended
<1>8. QED
  BY <1>3, <1>4, <1>5, <1>7 DEF new

LEMMA AddKeeps ==
    ASSUME NEW D, NEW units, DOMAIN units = D, NEW rows, Editor(rows, D)
    PROVE  Keeps(addCheck(rows, units), rows, D)
<1> DEFINE empty == [i \in D |-> 0]
           new == Append(rows, empty)
<1>1. Table(rows, D) /\ Len(rows) \in Nat /\ Len(rows) >= 2 /\ new = addCheck(rows, units)
  BY TableShape DEF Editor, addCheck, EmptyCheck
<1>2. empty \in Shares(D) /\ \A i \in D : empty[i] = 0
  BY DEF Shares
<1> HIDE DEF empty
<1>3. Table(new, D) /\ Len(new) = Len(rows) + 1
  BY <1>1, <1>2, RowAdded
<1>4. ASSUME NEW i \in D PROVE Shared(new, i) = Shared(rows, i)
  <2> Table(rows, D) /\ empty \in Shares(D)
    BY <1>1, <1>2
  <2>1. Shared(new, i) = Shared(rows, i) + empty[i]
    BY RowAddedShares
  <2>2. Shared(rows, i) \in Nat
    BY SharedNat
  <2> HIDE DEF new
  <2>3. QED
    BY <1>2, <2>1, <2>2
<1> HIDE DEF new
<1>5. QED
  BY <1>1, <1>3, <1>4 DEF Keeps, Editor

LEMMA RemoveKeeps ==
    ASSUME NEW D, NEW rows, Editor(rows, D), NEW c \in DOMAIN rows
    PROVE  Keeps(removeCheck(rows, c), rows, D)
<1> DEFINE N == Len(rows)
           next == RemoveAt(rows, c)
           first == [i \in D |-> next[1][i] + rows[c][i]]
           new == [next EXCEPT ![1] = first]
<1>1. Table(rows, D) /\ N \in Nat /\ N >= 2 /\ DOMAIN rows = 1 .. N /\ c \in 1 .. N
  BY TableShape DEF Editor
<1>2. \A k \in 1 .. N : rows[k] \in [D -> Nat]
  BY <1>1, TableShape
<1>3. CASE N <= 2
  BY <1>1, <1>3 DEF removeCheck, Keeps, Editor
<1>4. CASE N > 2
  <2>1. /\ Table(next, D) /\ Len(next) = N - 1
        /\ \A k \in 1 .. N - 1 : next[k] = rows[IF k < c THEN k ELSE k + 1]
    BY <1>1, RowRemoved
  <2>2. removeCheck(rows, c) = new
    <3>1. ~(N <= 2) /\ DOMAIN rows[c] = D
      BY <1>1, <1>2, <1>4
    <3>2. QED
      BY <3>1, Zenon DEF removeCheck
  <2> HIDE DEF next
  <2>3. 1 \in 1 .. N - 1 /\ \A k \in 1 .. N - 1 : next[k] \in [D -> Nat]
    <3>1. DOMAIN next = 1 .. N - 1
      BY <2>1, TableShape
    <3>2. QED
      BY <1>1, <1>4, <2>1, <3>1, TableShape
  <2>4. first \in Shares(D) /\ \A i \in D : first[i] = next[1][i] + rows[c][i]
    BY <1>1, <1>2, <2>3 DEF Shares
  <2> HIDE DEF first
  <2>5. /\ Table(new, D) /\ Len(new) = N - 1
        /\ \A k \in 1 .. N - 1 : new[k] = IF k = 1 THEN first ELSE next[k]
    BY <2>1, <2>3, <2>4, RowReplaced
  <2> HIDE DEF new
  <2>6. ASSUME NEW i \in D PROVE Shared(new, i) = Shared(rows, i)
    <3> DEFINE f == Column(rows, i)
               g == Column(next, i)
               h == Column(new, i)
               S == 1 .. N - 1
    <3>1. /\ Shared(rows, i) = SumFunctionOnSet(f, 1 .. N)
          /\ \A k \in 1 .. N : f[k] = rows[k][i] /\ rows[k][i] \in Nat
      BY <1>1, ColumnSums
    <3>2. \A k \in S : g[k] = next[k][i] /\ next[k][i] \in Nat
      <4>1. DOMAIN next = S
        BY <2>1, TableShape
      <4>2. \A k \in DOMAIN next : g[k] = next[k][i] /\ next[k][i] \in Nat
        BY <2>1, ColumnSums
      <4>3. QED
        BY <4>1, <4>2
    <3>3. /\ Shared(new, i) = SumFunctionOnSet(h, S)
          /\ \A k \in S : h[k] = new[k][i] /\ new[k][i] \in Nat
      <4>1. DOMAIN new = S
        BY <2>5, TableShape
      <4>2. /\ Shared(new, i) = SumFunctionOnSet(h, DOMAIN new)
            /\ \A k \in DOMAIN new : h[k] = new[k][i] /\ new[k][i] \in Nat
        BY <2>5, ColumnSums
      <4>3. QED
        BY <4>1, <4>2
    <3> HIDE DEF f, g, h
    <3>4. ASSUME NEW k \in S PROVE g[k] = f[IF k < c THEN k ELSE k + 1]
      <4> DEFINE m == IF k < c THEN k ELSE k + 1
      <4>1. m \in 1 .. N
        BY <1>1
      <4>2. next[k] = rows[m]
        BY <2>1
      <4> HIDE DEF m
      <4>3. f[m] = rows[m][i] /\ g[k] = next[k][i]
        BY <3>1, <3>2, <4>1
      <4>4. QED
        BY <4>2, <4>3 DEF m
    <3>5. \A k \in S \ {1} : h[k] = g[k]
      BY <2>5, <3>2, <3>3
    <3>6. 1 \in S /\ h[1] = g[1] + f[c]
      <4>1. new[1] = first /\ f[c] = rows[c][i]
        BY <1>1, <2>3, <2>5, <3>1
      <4>2. h[1] = new[1][i] /\ g[1] = next[1][i]
        BY <2>3, <3>2, <3>3
      <4>3. QED
        BY <2>3, <2>4, <4>1, <4>2
    <3>7. IsFiniteSet(S) /\ IsFiniteSet(1 .. N)
      BY <1>1, Positions
    <3>8. \A k \in 1 .. N : f[k] \in Int
      BY <3>1
    <3>9. \A k \in S : g[k] \in Int /\ h[k] \in Int
      BY <3>2, <3>3
    <3> HIDE DEF N
    <3>10. SumFunctionOnSet(g, 1 .. N - 1) = SumFunctionOnSet(f, 1 .. N) - f[c]
      BY <1>1, <3>4, <3>8, SumRemoved
    <3>11. SumFunctionOnSet(f, 1 .. N) \in Int /\ f[c] \in Int /\ g[1] \in Int
      BY <1>1, <3>6, <3>7, <3>8, <3>9, SumInt
    <3> HIDE DEF S
    <3>12. SumFunctionOnSet(h, S) = SumFunctionOnSet(g, S) - g[1] + h[1]
      BY <3>5, <3>6, <3>7, <3>9, SumUpdate
    <3>13. SumFunctionOnSet(h, S) = SumFunctionOnSet(f, 1 .. N)
      <4> DEFINE t == SumFunctionOnSet(f, 1 .. N)
      <4>1. SumFunctionOnSet(g, S) = t - f[c] /\ t \in Int
        BY <3>10, <3>11 DEF S
      <4> HIDE DEF t
      <4>2. SumFunctionOnSet(h, S) = t
        BY <3>6, <3>11, <3>12, <4>1
      <4>3. QED
        BY <4>2 DEF t
    <3>14. QED
      BY <3>1, <3>3, <3>13
  <2>7. QED
    BY <1>1, <1>4, <2>2, <2>5, <2>6 DEF Keeps, Editor
<1>5. QED
  BY <1>1, <1>3, <1>4

\* The donor of a unit is another check.
LEMMA DonorIsOther ==
    ASSUME NEW D, NEW rows, Editor(rows, D), NEW c \in DOMAIN rows, NEW i \in D
    PROVE  Donor(rows, c, i) \in DOMAIN rows \ {c}
<1> DEFINE S == DOMAIN rows \ {c}
           v == Column(rows, i)
<1>1. /\ Len(rows) >= 2 /\ DOMAIN rows = 1 .. Len(rows) /\ Len(rows) \in Nat
      /\ IsFiniteSet(DOMAIN rows)
      /\ \A k \in DOMAIN rows : v[k] = rows[k][i] /\ rows[k][i] \in Nat
  BY TableShape, ColumnSums DEF Editor
<1>2. IsFiniteSet(S) /\ S \subseteq Int /\ \A k \in S : v[k] \in Int
  BY <1>1, FS_Subset
<1>3. S # {}
  <2>1. 1 \in DOMAIN rows /\ 2 \in DOMAIN rows
    BY <1>1
  <2>2. QED
    BY <2>1
<1>4. \A k \in S : v[k] = rows[k][i]
  BY <1>1
<1> HIDE DEF S, v
<1>5. \E s \in S : \A r \in S : v[r] < v[s] \/ (v[r] = v[s] /\ s <= r)
  BY <1>2, <1>3, GreatestExists
<1>6. \E s \in S : \A r \in S : rows[r][i] < rows[s][i] \/ (rows[r][i] = rows[s][i] /\ s <= r)
  BY <1>4, <1>5
<1>7. QED
  BY <1>6 DEF Donor, S

LEMMA MoveKeeps ==
    ASSUME NEW D, NEW rows, Editor(rows, D), NEW i \in D, NEW from \in DOMAIN rows,
           NEW to \in DOMAIN rows \ {from}, rows[from][i] # 0
    PROVE  Keeps(Moved(rows, from, to, i, 1), rows, D)
<1> DEFINE x == rows[to][i] + 1
           y == rows[from][i] - 1
           new == Moved(rows, from, to, i, 1)
<1>1. Table(rows, D) /\ \A k \in DOMAIN rows : rows[k] \in [D -> Nat] /\ rows[k][i] \in Nat
  BY TableShape, ColumnSums DEF Editor
<1>2. x \in Nat /\ y \in Nat /\ x + y = rows[to][i] + rows[from][i]
  BY <1>1
<1>3. new = Exchanging(rows, i, to, x, from, y)
  BY DEF Moved, Exchanging
<1>6. to \in DOMAIN rows /\ from \in DOMAIN rows \ {to}
  OBVIOUS
<1> HIDE DEF x, y, new
<1>4. Table(new, D) /\ Len(new) = Len(rows) /\ \A j \in D : Shared(new, j) = Shared(rows, j)
  BY <1>1, <1>2, <1>3, <1>6, Exchanged
<1>5. QED
  BY <1>4 DEF Keeps, Editor, new

LEMMA PrimaryIsOther ==
    ASSUME NEW D, NEW rows, Editor(rows, D), NEW c \in DOMAIN rows
    PROVE  Primary(c) \in DOMAIN rows \ {c}
<1>1. Len(rows) >= 2 /\ DOMAIN rows = 1 .. Len(rows) /\ Len(rows) \in Nat
  BY TableShape DEF Editor
<1>2. QED
  BY <1>1 DEF Primary

LEMMA TapsKeep ==
    ASSUME NEW D, NEW rows, Editor(rows, D), NEW c \in DOMAIN rows, NEW i \in D
    PROVE  Keeps(incr(rows, c, i), rows, D) /\ Keeps(decr(rows, c, i), rows, D)
<1>1. Keeps(rows, rows, D)
  BY DEF Keeps
<1>2. Keeps(incr(rows, c, i), rows, D)
  <2> DEFINE donor == Donor(rows, c, i)
  <2>1. donor \in DOMAIN rows /\ c \in DOMAIN rows \ {donor}
    BY DonorIsOther
  <2>2. incr(rows, c, i) = IF rows[donor][i] = 0 THEN rows ELSE Moved(rows, donor, c, i, 1)
    BY DEF incr
  <2> HIDE DEF donor
  <2>3. QED
    BY <1>1, <2>1, <2>2, MoveKeeps
<1>3. Keeps(decr(rows, c, i), rows, D)
  <2>1. Primary(c) \in DOMAIN rows \ {c}
    BY PrimaryIsOther
  <2>2. QED
    BY <1>1, <2>1, MoveKeeps DEF decr
<1>4. QED
  BY <1>2, <1>3

\* A number typed, however large or negative, is cut to what can be shared out.
LEMMA InputKeeps ==
    ASSUME NEW D, NEW rows, Editor(rows, D), NEW units \in [D -> Nat],
           NEW c \in DOMAIN rows, NEW i \in D, Shared(rows, i) = units[i], NEW v \in Int
    PROVE  Keeps(handleInput(rows, c, i, v, units), rows, D)
<1> DEFINE p == Primary(c)
           a == rows[c][i]
           b == rows[p][i]
           fixed == Shared(rows, i) - a - b
           x == Clamp(0, units[i] - fixed, v)
           y == Clamp(0, units[i], units[i] - fixed - x)
           new == handleInput(rows, c, i, v, units)
<1>1. p \in DOMAIN rows \ {c} /\ Table(rows, D)
  BY PrimaryIsOther DEF Editor
<1>2. /\ a \in Nat /\ b \in Nat /\ a + b <= Shared(rows, i) /\ Shared(rows, i) \in Nat
      /\ units[i] \in Nat
  BY <1>1, ColumnSums, SharedNat
<1>3. x \in Nat /\ y \in Nat /\ x + y = a + b
  <2>1. units[i] - fixed = a + b
    BY <1>2
  <2>2. x \in 0 .. (a + b)
    <3> HIDE DEF a, b, fixed
    <3>1. QED
      BY <1>2, <2>1 DEF Clamp
  <2>3. y = a + b - x
    <3> HIDE DEF a, b, fixed, x
    <3>1. QED
      BY <1>2, <2>1, <2>2 DEF Clamp
  <2> HIDE DEF x, y, a, b
  <2>4. QED
    BY <1>2, <2>2, <2>3
<1>4. new = Exchanging(rows, i, c, x, p, y)
  BY DEF handleInput, Exchanging
<1> HIDE DEF x, y, new, p
<1>5. Table(new, D) /\ Len(new) = Len(rows) /\ \A j \in D : Shared(new, j) = Shared(rows, j)
  BY <1>1, <1>3, <1>4, Exchanged
<1>6. QED
  BY <1>5 DEF Keeps, Editor, new

-----------------------------------------------------------------------------
(* Amounts and units.                                                      *)

LEMMA FiniteIds == IsFiniteSet(Ids) /\ Ids \subseteq Nat /\ IsFiniteSet(Ids \X Dishes)
<1>1. MaxOrders \in Int /\ Ids = 1 .. MaxOrders
  BY BillAssumption DEF Ids
<1>2. IsFiniteSet(Ids) /\ Ids \subseteq Nat
  BY <1>1, FS_Interval
<1>3. QED
  BY <1>2, FS_Product, BillAssumption

LEMMA FirstIn ==
    ASSUME NEW S \in SUBSET Ids, S # {} PROVE First(S) \in S
<1>1. S \subseteq Nat
  BY FiniteIds
<1>2. \E s \in S : \A r \in S : s <= r
  BY <1>1, LeastExists
<1>3. QED
  BY <1>2 DEF First

\* A sum of bounded terms is a sum on its domain.
LEMMA SumsNat ==
    ASSUME NEW S, IsFiniteSet(S), NEW f, DOMAIN f = S, \A i \in S : f[i] \in Nat
    PROVE  SumFunction(f) \in Nat /\ SumFunction(f) = SumFunctionOnSet(f, S)
<1>1. SumFunctionOnSet(f, S) \in Nat
  BY SumNat
<1>2. SumFunction(f) = SumFunctionOnSet(f, S)
  BY DEF SumFunction
<1>3. QED
  BY <1>1, <1>2

LEMMA AmountsNat ==
    ASSUME NEW units \in Units
    PROVE  Total(units) \in Nat /\ Rounded(Total(units)) \in Nat
<1> DEFINE f == [d \in Dishes |-> units[d] * Price[d]]
<1>1. IsFiniteSet(Dishes) /\ DOMAIN f = Dishes /\ Total(units) = SumFunction(f)
  BY BillAssumption DEF Total
<1>2. ASSUME NEW d \in Dishes PROVE f[d] \in Nat
  <2>1. units[d] \in Nat /\ Price[d] \in Nat
    BY BillAssumption DEF Units
  <2>2. QED
    BY <2>1
<1> HIDE DEF f
<1>3. Total(units) \in Nat
  BY <1>1, <1>2, SumsNat
<1>4. Rounded(Total(units)) \in Nat
  <2> DEFINE t == Total(units)
             p == 2 * t * Rate
             half == IF t \in TiesLost THEN 99 ELSE 100
  <2>1. p \in Nat /\ half \in Nat
    BY <1>3, BillAssumption
  <2>2. Rounded(t) = (p + half) \div 200
    BY DEF Rounded
  <2> HIDE DEF p, t, half
  <2>3. QED
    BY <2>1, <2>2 DEF t
<1>5. QED
  BY <1>3, <1>4

LEMMA UnitsOfType ==
    ASSUME NEW D \in SUBSET (Ids \X Dishes), NEW check \in [D -> Nat]
    PROVE  UnitsOf(check) \in Units
<1>1. ASSUME NEW d \in Dishes PROVE UnitsOf(check)[d] \in Nat
  <2> DEFINE S == {x \in DOMAIN check : x[2] = d}
             f == [i \in S |-> check[i]]
  <2>1. IsFiniteSet(S) /\ DOMAIN f = S /\ \A i \in S : f[i] \in Nat
    <3>1. S \in SUBSET (Ids \X Dishes)
      OBVIOUS
    <3>2. IsFiniteSet(S)
      BY <3>1, FiniteIds, FS_Subset
    <3>3. QED
      BY <3>2
  <2>2. UnitsOf(check)[d] = SumFunction(f)
    BY DEF UnitsOf
  <2> HIDE DEF S, f
  <2>3. QED
    BY <2>1, <2>2, SumsNat
<1>2. DOMAIN UnitsOf(check) = Dishes /\ UnitsOf(check) = [d \in Dishes |-> UnitsOf(check)[d]]
  BY DEF UnitsOf
<1>3. QED
  BY <1>1, <1>2 DEF Units

-----------------------------------------------------------------------------
(* What becomes of the jobs.                                               *)

\* A job goes on with less to do, and keeps what its click saw.
Follows(new, old) ==
    /\ new.kind = old.kind /\ new.bill = old.bill
    /\ new.copies = old.copies /\ new.splits = old.splits
    /\ new.todo \subseteq old.todo /\ (new.todo = {} => old.todo = {})

\* The three kinds of jobs a click starts.
Begins(new) ==
    /\ orders # {} /\ UNCHANGED <<srv, seen>>
    /\ \/ new = Job("pay", {selectedOrder}, received)
       \/ new = Job("payAll", orders, 0)
       \/ /\ screen = "split" /\ Len(Splits) >= 2
          /\ new = [Job("split", {}, 0) EXCEPT !.copies = seen, !.splits = Splits]

JobMoves(k) == jobs'[k] = NoJob \/ Follows(jobs'[k], jobs[k]) \/ Begins(jobs'[k])

LEMMA FollowsItself == ASSUME NEW job PROVE Follows(job, job)
  BY DEF Follows

LEMMA JobsFollow ==
    ASSUME NEW X, NEW job \in JobTypes(X)
    PROVE  /\ Follows([job EXCEPT !.own = FALSE], job)
           /\ Follows([job EXCEPT !.stage = "read"], job)
           /\ \A t : t \subseteq job.todo /\ t # {} =>
                Follows([job EXCEPT !.stage = "post", !.todo = t], job)
  BY DEF JobTypes, Follows

LEMMA OneMoves ==
    ASSUME IInv, NEW j \in Slots, NEW r, jobs' = [jobs EXCEPT ![j] = r],
           r = NoJob \/ Follows(r, jobs[j]) \/ Begins(r)
    PROVE  \A k \in Slots : JobMoves(k)
<1>1. \A k \in Slots : jobs'[k] = IF k = j THEN r ELSE jobs[k]
  BY DEF IInv, JobsOK
<1>2. QED
  BY <1>1, FollowsItself DEF JobMoves

LEMMA OrphansMove ==
    ASSUME IInv, jobs' = Orphaned \/ \E j \in Slots : jobs' = [Orphaned EXCEPT ![j] = NoJob]
    PROVE  \A k \in Slots : JobMoves(k)
<1>1. PICK X : jobs \in [Slots -> JobTypes(X)]
  BY DEF IInv, JobsOK
<1>2. ASSUME NEW k \in Slots PROVE Follows(Orphaned[k], jobs[k])
  <2>1. Orphaned[k] = [jobs[k] EXCEPT !.own = FALSE] /\ jobs[k] \in JobTypes(X)
    BY <1>1 DEF Orphaned
  <2>2. QED
    BY <2>1, JobsFollow
<1>3. ASSUME NEW k \in Slots PROVE jobs'[k] = NoJob \/ jobs'[k] = Orphaned[k]
  BY DEF Orphaned
<1>4. QED
  BY <1>2, <1>3 DEF JobMoves

LEMMA StartsMove ==
    ASSUME IInv, NEW job, Start(job), orders # {},
           \/ job = Job("pay", {selectedOrder}, received)
           \/ job = Job("payAll", orders, 0)
           \/ /\ screen = "split" /\ Len(Splits) >= 2
              /\ job = [Job("split", {}, 0) EXCEPT !.copies = seen, !.splits = Splits]
    PROVE  \A k \in Slots : JobMoves(k)
<1>1. PICK j \in Slots : jobs' = [jobs EXCEPT ![j] = job]
  BY DEF Start
<1>2. Begins(job)
  BY DEF Begins, Start, server
<1>3. QED
  BY <1>1, <1>2, OneMoves

LEMMA QuietMoves == ASSUME UNCHANGED jobs PROVE \A k \in Slots : JobMoves(k)
  BY FollowsItself DEF JobMoves

LEMMA JobsMove == ASSUME IInv, [Next]_vars PROVE \A k \in Slots : JobMoves(k)
<1>1. PICK X : jobs \in [Slots -> JobTypes(X)]
  BY DEF IInv, JobsOK
<1>2. CASE pay
  <2>1. Start(Job("pay", {selectedOrder}, received)) /\ orders # {}
    BY <1>2 DEF pay
  <2>2. QED
    BY <2>1, StartsMove
<1>3. CASE payAll
  <2>1. Start(Job("payAll", orders, 0)) /\ orders # {}
    BY <1>3 DEF payAll
  <2>2. QED
    BY <2>1, StartsMove
<1>4. CASE confirmSplit
  <2>1. /\ Start([Job("split", {}, 0) EXCEPT !.copies = seen, !.splits = Splits])
        /\ orders # {} /\ screen = "split" /\ Len(Splits) >= 2
    BY <1>4 DEF confirmSplit, SplitShown
  <2>2. QED
    BY <2>1, StartsMove
<1>5. ASSUME NEW j \in Running, Posted(j) PROVE \A k \in Slots : JobMoves(k)
  <2> DEFINE r == [jobs[j] EXCEPT !.stage = "read"]
  <2>1. j \in Slots /\ jobs' = [jobs EXCEPT ![j] = r] /\ jobs[j] \in JobTypes(X)
    BY <1>1, <1>5 DEF Posted, Running
  <2>2. Follows(r, jobs[j])
    BY <2>1, JobsFollow
  <2> HIDE DEF r
  <2>3. QED
    BY <2>1, <2>2, OneMoves
<1>6. ASSUME NEW j \in Running, PostFails(j) \/ ReadFails(j) PROVE \A k \in Slots : JobMoves(k)
  <2>1. j \in Slots /\ jobs' = [jobs EXCEPT ![j] = NoJob]
    BY <1>6 DEF PostFails, ReadFails, Fails, Running
  <2>2. QED
    BY <2>1, OneMoves
<1>7. ASSUME NEW j \in Running, Read(j) PROVE \A k \in Slots : JobMoves(k)
  <2>1. j \in Slots /\ jobs[j] \in JobTypes(X)
    BY <1>1 DEF Running
  <2>2. CASE Done(j)
    <3>1. jobs' = [Orphaned EXCEPT ![j] = NoJob] \/ jobs' = [jobs EXCEPT ![j] = NoJob]
      BY <2>2 DEF Done
    <3>2. QED
      BY <2>1, <3>1, OneMoves, OrphansMove
  <2>3. CASE ~Done(j)
    <3> DEFINE rest == jobs[j].todo \ {Next_(jobs[j])}
               r == [jobs[j] EXCEPT !.stage = "post", !.todo = rest]
    <3>1. rest # {} /\ jobs' = [jobs EXCEPT ![j] = r]
      BY <1>7, <2>3 DEF Read
    <3>2. rest \subseteq jobs[j].todo
      OBVIOUS
    <3> HIDE DEF rest
    <3>3. Follows(r, jobs[j])
      BY <2>1, <3>1, <3>2, JobsFollow
    <3> HIDE DEF r
    <3>4. QED
      BY <2>1, <3>1, <3>3, OneMoves
  <2>4. QED
    BY <2>2, <2>3
<1>8. CASE Back
  BY <1>8, OrphansMove DEF Back
<1>9. CASE UNCHANGED jobs
  BY <1>9, QuietMoves
<1>10. QED
  BY <1>2, <1>3, <1>4, <1>5, <1>6, <1>7, <1>8, <1>9
     DEF Next, ScreenStep, JobStep, SelectOrder, TypeReceived, AskOne, AskAll, CloseDialog,
         enterSplit, EditSplit, leaveSplit, Open, OthersOrder, OthersClose, Follow, vars

-----------------------------------------------------------------------------
(* What the screen knows of the orders.                                    *)

\* Ids are given in order and never twice.
InOrder(orders_, n) == \A o \in Ids : orders_[o].status # "none" <=> o <= n
ServerRight == srv \in Copies /\ pays \in Payments /\ \E n \in 0 .. MaxOrders : InOrder(srv, n)

\* A copy may be late about an order's status, never about what was ordered.
Knows(copies, srv_) ==
    /\ copies \in Copies
    /\ \A o \in Ids : copies[o].status # "none" =>
         srv_[o].status # "none" /\ srv_[o].units = copies[o].units

\* The checks share out what was ordered: every unit of every order among them.
SplitRight(rows, D, srv_) ==
    /\ D \in SUBSET (Ids \X Dishes) /\ Table(rows, D)
    /\ \A i \in D : srv_[i[1]].status # "none" /\ Shared(rows, i) = srv_[i[1]].units[i[2]]
    /\ \A i \in D : \A d \in Dishes : <<i[1], d>> \in D <=> srv_[i[1]].units[d] > 0

\* A job knows what the server will ask for.
Asked(bill, order) ==
    /\ order.status # "none" /\ bill \in [amount : Nat, fee : Nat]
    /\ bill.fee = Rounded(Total(order.units))
    /\ IF TwoDecimals(bill.amount) THEN bill.amount >= Tenths(Total(order.units) + bill.fee)
                                  ELSE Total(order.units) \in SumsAbove \cup SumsBelow
JobRight(job, srv_) ==
    /\ job.kind # "none" => job.bill \in Payments /\ job.todo \subseteq Ids
    /\ job.kind \in {"pay", "payAll"} =>
         job.todo # {} /\ \A o \in job.todo : Asked(job.bill[o], srv_[o])
    /\ job.kind = "split" =>
         /\ job.todo = {} /\ Knows(job.copies, srv_)
         /\ Len(job.splits) >= 2 /\ \E D : SplitRight(job.splits, D, srv_)

EditorRight ==
    screen = "split" =>
        /\ qty \in [DOMAIN qty -> Nat] /\ Len(checks) >= 2
        /\ SplitRight(checks, DOMAIN qty, srv)
        /\ \A i \in DOMAIN qty : Shared(checks, i) = qty[i]

FormRight ==
    /\ events \subseteq Ids /\ moves \in 0 .. MaxMoves
    /\ screen \in {"bill", "split", "away"} /\ dialog \in {"none", "one", "all"}
    /\ selected \in Ids \cup {None} /\ received \in Nat

\* The inductive invariant about amounts and units.
BInv ==
    /\ IInv /\ ServerRight /\ Knows(seen, srv)
    /\ \A j \in Slots : JobRight(jobs[j], srv)
    /\ EditorRight /\ FormRight

\* Orders keep their units, and none is taken away.
UnitsStay ==
    \A o \in Ids : srv[o].status # "none" => srv'[o].status # "none" /\ srv'[o].units = srv[o].units

\* What was known stays right.
LEMMA KnownStays ==
    ASSUME UnitsStay
    PROVE  /\ \A copies : Knows(copies, srv) => Knows(copies, srv')
           /\ \A rows, D : SplitRight(rows, D, srv) => SplitRight(rows, D, srv')
           /\ \A bill : \A o \in Ids : Asked(bill, srv[o]) => Asked(bill, srv'[o])
           /\ \A job : JobRight(job, srv) => JobRight(job, srv')
<1>1. \A copies : Knows(copies, srv) => Knows(copies, srv')
  BY DEF Knows, UnitsStay
<1>2. ASSUME NEW rows, NEW D, SplitRight(rows, D, srv) PROVE SplitRight(rows, D, srv')
  <2>1. \A i \in D : i[1] \in Ids
    BY <1>2 DEF SplitRight
  <2>2. \A i \in D : srv'[i[1]].status # "none" /\ srv'[i[1]].units = srv[i[1]].units
    BY <1>2, <2>1 DEF SplitRight, UnitsStay
  <2>3. QED
    BY <1>2, <2>2 DEF SplitRight
<1>3. \A bill : \A o \in Ids : Asked(bill, srv[o]) => Asked(bill, srv'[o])
  BY DEF Asked, UnitsStay
<1>4. ASSUME NEW job, JobRight(job, srv) PROVE JobRight(job, srv')
  BY <1>1, <1>2, <1>3, <1>4 DEF JobRight
<1>5. QED
  BY <1>1, <1>2, <1>3, <1>4

LEMMA NoneUsed ==
    ASSUME NEW n \in 0 .. MaxOrders, InOrder(srv, n)
    PROVE  Used = n /\ Free = {o \in Ids : o > n}
<1>1. n \in Nat /\ MaxOrders \in Nat
  BY BillAssumption
<1>2. Ids \ Free = 1 .. n
  BY <1>1 DEF Free, InOrder, Ids
<1>3. Cardinality(1 .. n) = n
  BY <1>1, FS_Interval
<1>4. Free = {o \in Ids : o > n}
  BY <1>1 DEF Free, InOrder, Ids
<1>5. QED
  BY <1>2, <1>3, <1>4 DEF Used

\* The orders after a split, and the copies put together from those of the click.
AfterSplit(copies, splits) == WithChecks(Closed(copies, ActiveIn(copies)), splits)

LEMMA SplitMakes ==
    ASSUME NEW copies \in Copies, NEW splits, NEW D \in SUBSET (Ids \X Dishes), Table(splits, D)
    PROVE  /\ AfterSplit(copies, splits) \in Copies
           /\ \A o \in NewIds(splits) :
                AfterSplit(copies, splits)[o] = Order("active", UnitsOf(splits[o - Used]))
           /\ \A o \in Ids \ NewIds(splits) :
                /\ AfterSplit(copies, splits)[o].units = copies[o].units
                /\ AfterSplit(copies, splits)[o].status =
                     IF copies[o].status = "active" THEN "cancelled" ELSE copies[o].status
<1> DEFINE new == AfterSplit(copies, splits)
           old == Closed(copies, ActiveIn(copies))
<1>1. \A c \in DOMAIN splits : UnitsOf(splits[c]) \in Units
  <2>1. ASSUME NEW c \in DOMAIN splits PROVE UnitsOf(splits[c]) \in Units
    <3>1. splits[c] \in [D -> Nat]
      BY TableShape
    <3>2. QED
      BY <3>1, UnitsOfType
  <2>2. QED
    BY <2>1
<1>2. \A o \in Ids : copies[o] \in [status : {"none", "active", "paid", "cancelled"}, units : Units]
  BY DEF Copies
<1>3. ASSUME NEW o \in Ids
      PROVE  /\ old[o] \in [status : {"none", "active", "paid", "cancelled"}, units : Units]
             /\ old[o].units = copies[o].units
             /\ old[o].status = IF copies[o].status = "active" THEN "cancelled" ELSE copies[o].status
  <2>1. old[o] = IF copies[o].status = "active"
                 THEN [copies[o] EXCEPT !.status = "cancelled"] ELSE copies[o]
    BY DEF Closed, ActiveIn
  <2>2. QED
    BY <1>2, <2>1
<1> HIDE DEF old
<1>4. new = [o \in Ids |-> IF o \in NewIds(splits)
                           THEN Order("active", UnitsOf(splits[o - Used])) ELSE old[o]]
  BY DEF AfterSplit, WithChecks, old
<1> HIDE DEF new
<1>5. ASSUME NEW o \in NewIds(splits)
      PROVE  /\ o \in Ids /\ new[o] = Order("active", UnitsOf(splits[o - Used]))
             /\ new[o] \in [status : {"none", "active", "paid", "cancelled"}, units : Units]
  <2>1. o \in Ids /\ o - Used \in DOMAIN splits
    BY DEF NewIds, Free
  <2>2. new[o] = Order("active", UnitsOf(splits[o - Used]))
    BY <1>4, <2>1
  <2>3. QED
    BY <1>1, <2>1, <2>2 DEF Order
<1>6. \A o \in Ids \ NewIds(splits) : new[o] = old[o]
  BY <1>4
<1>7. \A o \in Ids : new[o] \in [status : {"none", "active", "paid", "cancelled"}, units : Units]
  BY <1>3, <1>5, <1>6
<1>8. new \in Copies
  BY <1>4, <1>7 DEF Copies
<1>9. QED
  BY <1>3, <1>5, <1>6, <1>8 DEF new

-----------------------------------------------------------------------------
(* The server's steps.                                                     *)

LEMMA SplitStays ==
    ASSUME ServerRight, NEW D, NEW splits, SplitRight(splits, D, srv), SplitTable(splits)
    PROVE  ServerRight' /\ UnitsStay
<1>1. PICK n \in 0 .. MaxOrders : InOrder(srv, n)
  BY DEF ServerRight
<1>2. srv' = AfterSplit(srv, splits) /\ UNCHANGED pays /\ Used + Len(splits) <= MaxOrders
  BY DEF SplitTable, AfterSplit, Splittable
<1>3. Used = n /\ Free = {o \in Ids : o > n}
  BY <1>1, NoneUsed
<1>4. D \in SUBSET (Ids \X Dishes) /\ Table(splits, D)
  BY DEF SplitRight
<1>5. DOMAIN splits = 1 .. Len(splits) /\ Len(splits) \in Nat
  BY <1>4, TableShape
<1>6. /\ srv' \in Copies
      /\ \A o \in NewIds(splits) : srv'[o] = Order("active", UnitsOf(splits[o - Used]))
      /\ \A o \in Ids \ NewIds(splits) :
           /\ srv'[o].units = srv[o].units
           /\ srv'[o].status = IF srv[o].status = "active" THEN "cancelled" ELSE srv[o].status
  BY <1>2, <1>4, SplitMakes DEF ServerRight
<1>7. \A o \in Ids : o \in NewIds(splits) <=> n < o /\ o <= n + Len(splits)
  BY <1>1, <1>3, <1>5, BillAssumption DEF NewIds, Ids
<1>8. UnitsStay
  BY <1>1, <1>6, <1>7, BillAssumption DEF UnitsStay, InOrder, Ids
<1>9. n + Len(splits) \in 0 .. MaxOrders
  BY <1>1, <1>2, <1>3, <1>5, BillAssumption
<1>10. InOrder(srv', n + Len(splits))
  <2> SUFFICES ASSUME NEW o \in Ids
               PROVE  srv'[o].status # "none" <=> o <= n + Len(splits)
    BY DEF InOrder
  <2>1. o \in Nat /\ n \in Nat
    BY FiniteIds
  <2>2. CASE o \in NewIds(splits)
    <3> DEFINE u == UnitsOf(splits[o - Used])
    <3>3. srv'[o] = Order("active", u)
      BY <1>6, <2>2
    <3> HIDE DEF u
    <3>1. srv'[o].status = "active"
      BY <3>3 DEF Order
    <3>2. QED
      BY <1>7, <2>2, <3>1
  <2>3. CASE o \notin NewIds(splits)
    <3>1. srv'[o].status # "none" <=> srv[o].status # "none"
      BY <1>6, <2>3
    <3>2. srv[o].status # "none" <=> o <= n
      BY <1>1 DEF InOrder
    <3>3. QED
      BY <1>5, <1>7, <2>1, <2>3, <3>1, <3>2
  <2>4. QED
    BY <2>2, <2>3
<1>11. QED
  BY <1>2, <1>6, <1>8, <1>9, <1>10 DEF ServerRight

\* The status of an order that has been given out changes.
LEMMA StatusStays ==
    ASSUME ServerRight, pays' \in Payments, NEW o \in Ids, srv[o].status = "active",
           NEW s \in {"paid", "cancelled"}, srv' = [srv EXCEPT ![o].status = s]
    PROVE  ServerRight' /\ UnitsStay
<1>1. srv \in [Ids -> [status : {"none", "active", "paid", "cancelled"}, units : Units]]
  BY DEF ServerRight, Copies
<1>2. srv'[o] = [srv[o] EXCEPT !.status = s] /\ \A p \in Ids \ {o} : srv'[p] = srv[p]
  BY <1>1
<1>3. srv'[o].status = s /\ srv'[o].units = srv[o].units
  BY <1>1, <1>2
<1>4. srv' \in Copies
  BY <1>1, <1>2 DEF Copies
<1>5. UnitsStay
  BY <1>2, <1>3 DEF UnitsStay
<1>6. \A p \in Ids : srv'[p].status # "none" <=> srv[p].status # "none"
  BY <1>2, <1>3
<1>7. \E n \in 0 .. MaxOrders : InOrder(srv', n)
  BY <1>6 DEF ServerRight, InOrder
<1>8. QED
  BY <1>4, <1>5, <1>7 DEF ServerRight

LEMMA PaymentStays ==
    ASSUME ServerRight, NEW o \in Ids, NEW bill \in [amount : Nat, fee : Nat], PayOrder(o, bill)
    PROVE  ServerRight' /\ UnitsStay
<1>1. pays' \in Payments
  BY DEF ServerRight, Payments, PayOrder
<1>2. srv[o].status = "active" /\ srv' = [srv EXCEPT ![o].status = "paid"]
  BY DEF PayOrder, Payable
<1>3. QED
  BY <1>1, <1>2, StatusStays

LEMMA OthersStay ==
    ASSUME ServerRight,
           OthersOrder \/ \E o \in Ids, s \in {"paid", "cancelled"} : OthersClose(o, s)
    PROVE  ServerRight' /\ UnitsStay
<1>1. pays' \in Payments
  BY DEF ServerRight, OthersOrder, OthersClose
<1>2. CASE OthersOrder
  <2>1. PICK n \in 0 .. MaxOrders : InOrder(srv, n)
    BY DEF ServerRight
  <2>2. Used = n /\ Free = {o \in Ids : o > n}
    BY <2>1, NoneUsed
  <2>3. PICK o \in Free : o = Used + 1 /\ srv' = [srv EXCEPT ![o] = Order("active", Extra)]
    BY <1>2 DEF OthersOrder
  <2>4. o \in Ids /\ o = n + 1 /\ srv[o].status = "none"
    BY <2>2, <2>3 DEF Free
  <2>5. srv'[o] = Order("active", Extra) /\ \A p \in Ids \ {o} : srv'[p] = srv[p]
    BY <2>3, <2>4 DEF ServerRight, Copies
  <2>6. srv' \in Copies
    <3>1. Order("active", Extra) \in [status : {"none", "active", "paid", "cancelled"}, units : Units]
      BY BillAssumption DEF Order
    <3>2. QED
      BY <2>3, <3>1 DEF ServerRight, Copies
  <2>7. UnitsStay
    BY <2>4, <2>5 DEF UnitsStay
  <2>8. n + 1 \in 0 .. MaxOrders /\ InOrder(srv', n + 1)
    <3>1. n \in Nat /\ Ids \subseteq Nat /\ srv'[o].status = "active" /\ o <= MaxOrders
      BY <2>4, <2>5, FiniteIds DEF Order, Ids
    <3>2. ASSUME NEW p \in Ids PROVE srv'[p].status # "none" <=> p <= n + 1
      <4>1. CASE p = o
        BY <2>4, <3>1, <4>1
      <4>2. CASE p # o
        <5>1. srv'[p] = srv[p] /\ (srv[p].status # "none" <=> p <= n)
          BY <2>1, <2>5, <4>2 DEF InOrder
        <5>2. p \in Nat
          BY <3>1
        <5>3. QED
          BY <2>4, <3>1, <4>2, <5>1, <5>2
      <4>3. QED
        BY <4>1, <4>2
    <3>3. InOrder(srv', n + 1)
      BY <3>2 DEF InOrder
    <3>4. n + 1 <= MaxOrders
      BY <2>4, <3>1
    <3>5. QED
      BY <3>1, <3>3, <3>4
  <2>9. QED
    BY <1>1, <2>6, <2>7, <2>8 DEF ServerRight
<1>3. ASSUME NEW o \in Ids, NEW s \in {"paid", "cancelled"}, OthersClose(o, s)
      PROVE  ServerRight' /\ UnitsStay
  <2>1. srv[o].status = "active" /\ srv' = [srv EXCEPT ![o].status = s]
    BY <1>3 DEF OthersClose, ActiveIn
  <2>2. QED
    BY <1>1, <2>1, StatusStays
<1>4. QED
  BY <1>2, <1>3

\* A job's request is one for an order it has still to pay.
LEMMA NextToPay ==
    ASSUME BInv, NEW j \in Running, jobs[j].kind # "split"
    PROVE  /\ Next_(jobs[j]) \in jobs[j].todo /\ Next_(jobs[j]) \in Ids
           /\ jobs[j].bill[Next_(jobs[j])] \in [amount : Nat, fee : Nat]
<1>1. PICK X : jobs \in [Slots -> JobTypes(X)]
  BY DEF BInv, IInv, JobsOK
<1>2. j \in Slots /\ jobs[j].kind \in {"pay", "payAll"}
  BY <1>1 DEF Running, JobTypes
<1>3. /\ jobs[j].todo \in SUBSET Ids /\ jobs[j].todo # {}
      /\ \A o \in jobs[j].todo : Asked(jobs[j].bill[o], srv[o])
  BY <1>2 DEF BInv, JobRight
<1>4. Next_(jobs[j]) \in jobs[j].todo
  BY <1>3, FirstIn DEF Next_
<1>5. QED
  BY <1>3, <1>4 DEF Asked

LEMMA RequestStays ==
    ASSUME BInv, NEW j \in Running, Handle(jobs[j]) PROVE ServerRight' /\ UnitsStay
<1>1. CASE jobs[j].kind = "split"
  <2>1. j \in Slots /\ SplitTable(jobs[j].splits) /\ ServerRight
    BY <1>1 DEF Handle, Running, BInv
  <2>2. PICK D : SplitRight(jobs[j].splits, D, srv)
    BY <1>1, <2>1 DEF BInv, JobRight
  <2>3. QED
    BY <2>1, <2>2, SplitStays
<1>2. CASE jobs[j].kind # "split"
  <2>1. PayOrder(Next_(jobs[j]), jobs[j].bill[Next_(jobs[j])]) /\ ServerRight
    BY <1>2 DEF Handle, BInv
  <2>2. QED
    BY <1>2, <2>1, NextToPay, PaymentStays
<1>3. QED
  BY <1>1, <1>2

LEMMA ServerStays == ASSUME BInv, [Next]_vars PROVE ServerRight' /\ UnitsStay
<1>1. CASE UNCHANGED <<srv, pays>>
  BY <1>1 DEF BInv, ServerRight, UnitsStay
<1>2. ASSUME NEW j \in Running, Handle(jobs[j]) PROVE ServerRight' /\ UnitsStay
  BY <1>2, RequestStays
<1>3. CASE OthersOrder \/ \E o \in Ids, s \in {"paid", "cancelled"} : OthersClose(o, s)
  BY <1>3, OthersStay DEF BInv
<1>4. ASSUME ScreenStep PROVE UNCHANGED <<srv, pays>>
  BY <1>4 DEF ScreenStep, SelectOrder, TypeReceived, AskOne, AskAll, CloseDialog, enterSplit,
         EditSplit, leaveSplit, Back, Open, pay, payAll, confirmSplit, Start, server
<1>5. ASSUME NEW j \in Running, JobStep(j) PROVE UNCHANGED <<srv, pays>> \/ Handle(jobs[j])
  BY <1>5 DEF JobStep, Posted, PostFails, Read, ReadFails, server
<1>6. ASSUME NEW o, Follow(o) PROVE UNCHANGED <<srv, pays>>
  BY <1>6 DEF Follow
<1>7. QED
  BY <1>1, <1>2, <1>3, <1>4, <1>5, <1>6 DEF Next, vars

-----------------------------------------------------------------------------
(* The copies.                                                             *)

LEMMA CopyRefreshed ==
    ASSUME ServerRight, Knows(seen, srv), UNCHANGED srv, NEW o \in Ids, seen' = [seen EXCEPT ![o] = srv[o]]
    PROVE  Knows(seen', srv')
<1>1. seen' \in Copies
  BY DEF ServerRight, Knows, Copies
<1>2. ASSUME NEW p \in Ids, seen'[p].status # "none"
      PROVE  srv'[p].status # "none" /\ srv'[p].units = seen'[p].units
  <2>1. seen'[p] = IF p = o THEN srv[p] ELSE seen[p]
    BY DEF Knows, Copies
  <2>2. CASE p = o
    BY <1>2, <2>1, <2>2
  <2>3. CASE p # o
    BY <1>2, <2>1, <2>3 DEF Knows
  <2>4. QED
    BY <2>2, <2>3
<1>3. QED
  BY <1>1, <1>2 DEF Knows

\* The list put together from the copies of the click and the new orders.
LEMMA CopiesSplit ==
    ASSUME ServerRight, UnitsStay, NEW copies, Knows(copies, srv), NEW splits, NEW D,
           SplitRight(splits, D, srv), srv' = AfterSplit(srv, splits)
    PROVE  Knows(AfterSplit(copies, splits), srv')
<1> DEFINE new == AfterSplit(copies, splits)
<1>1. copies \in Copies /\ srv \in Copies /\ D \in SUBSET (Ids \X Dishes) /\ Table(splits, D)
  BY DEF ServerRight, Knows, SplitRight
<1>2. /\ new \in Copies
      /\ \A o \in NewIds(splits) : new[o] = Order("active", UnitsOf(splits[o - Used]))
      /\ \A o \in Ids \ NewIds(splits) :
           /\ new[o].units = copies[o].units
           /\ new[o].status = IF copies[o].status = "active" THEN "cancelled" ELSE copies[o].status
  BY <1>1, SplitMakes
<1>3. \A o \in NewIds(splits) : srv'[o] = Order("active", UnitsOf(splits[o - Used]))
  BY <1>1, SplitMakes
<1> HIDE DEF new
<1>4. ASSUME NEW o \in Ids, new[o].status # "none"
      PROVE  srv'[o].status # "none" /\ srv'[o].units = new[o].units
  <2>1. CASE o \in NewIds(splits)
    BY <1>2, <1>3, <1>4, <2>1
  <2>2. CASE o \notin NewIds(splits)
    <3>1. copies[o].status # "none" /\ new[o].units = copies[o].units
      BY <1>2, <1>4, <2>2
    <3>2. srv[o].status # "none" /\ srv[o].units = copies[o].units
      BY <3>1 DEF Knows
    <3>3. QED
      BY <3>1, <3>2 DEF UnitsStay
  <2>3. QED
    BY <2>1, <2>2
<1>5. QED
  BY <1>2, <1>4 DEF Knows, new

LEMMA SeenStays == ASSUME BInv, [Next]_vars PROVE Knows(seen', srv')
<1>1. ServerRight /\ UnitsStay /\ Knows(seen, srv)
  BY ServerStays DEF BInv
<1>2. CASE UNCHANGED seen
  BY <1>1, <1>2, KnownStays
<1>3. ASSUME NEW o, Follow(o) PROVE Knows(seen', srv')
  <2>1. o \in Ids /\ UNCHANGED srv /\ seen' = [seen EXCEPT ![o] = srv[o]]
    BY <1>3 DEF Follow, BInv, FormRight
  <2>2. QED
    BY <1>1, <2>1, CopyRefreshed
<1>4. ASSUME NEW j \in Running, Read(j) PROVE Knows(seen', srv')
  <2>1. CASE jobs[j].kind = "split"
    BY <1>2, <1>4, <2>1 DEF Read
  <2>2. CASE jobs[j].kind # "split"
    <3>1. UNCHANGED srv /\ seen' = [seen EXCEPT ![Next_(jobs[j])] = srv[Next_(jobs[j])]]
      BY <1>4, <2>2 DEF Read
    <3>2. Next_(jobs[j]) \in Ids
      BY <2>2, NextToPay
    <3>3. QED
      BY <1>1, <3>1, <3>2, CopyRefreshed
  <2>3. QED
    BY <2>1, <2>2
<1>5. ASSUME NEW j \in Running, Posted(j) PROVE Knows(seen', srv')
  <2>1. CASE jobs[j].kind = "split"
    <3>1. seen' = AfterSplit(jobs[j].copies, jobs[j].splits) /\ srv' = AfterSplit(srv, jobs[j].splits)
      BY <1>5, <2>1 DEF Posted, Handle, SplitTable, AfterSplit
    <3>2. JobRight(jobs[j], srv)
      BY DEF BInv, Running
    <3>3. Knows(jobs[j].copies, srv) /\ \E D : SplitRight(jobs[j].splits, D, srv)
      BY <2>1, <3>2 DEF JobRight
    <3>4. QED
      BY <1>1, <3>1, <3>3, CopiesSplit
  <2>2. CASE jobs[j].kind # "split"
    BY <1>2, <1>5, <2>2 DEF Posted
  <2>3. QED
    BY <2>1, <2>2
<1>6. QED
  BY <1>2, <1>3, <1>4, <1>5
     DEF Next, ScreenStep, JobStep, SelectOrder, TypeReceived, AskOne, AskAll, CloseDialog,
         enterSplit, EditSplit, leaveSplit, Back, Open, pay, payAll, confirmSplit, Start,
         PostFails, ReadFails, OthersOrder, OthersClose, vars

-----------------------------------------------------------------------------
(* The editor.                                                             *)

LEMMA EntersRight ==
    ASSUME BInv, enterSplit PROVE EditorRight'
<1> DEFINE D == {x \in orders \X Dishes : seen[x[1]].units[x[2]] > 0}
           q == [i \in D |-> seen[i[1]].units[i[2]]]
<1>1. qty' = q /\ checks' = Entered(q) /\ UNCHANGED srv
  BY DEF enterSplit, server
<1>2. /\ orders \subseteq Ids
      /\ \A o \in orders : srv[o].status # "none" /\ srv[o].units = seen[o].units
  BY DEF orders, ActiveIn, BInv, Knows
<1>3. \A o \in orders : seen[o].units \in [Dishes -> Nat]
  BY <1>2 DEF BInv, Knows, Copies, Units
<1>4. \A i : i \in D <=> i \in orders \X Dishes /\ seen[i[1]].units[i[2]] > 0
  OBVIOUS
<1>5. D \in SUBSET (Ids \X Dishes)
  BY <1>2
<1>6. q \in [D -> Nat]
  BY <1>3
<1>7. \A i \in D : q[i] = srv[i[1]].units[i[2]] /\ srv[i[1]].status # "none"
  BY <1>2
<1>8. \A i \in D : \A d \in Dishes : <<i[1], d>> \in D <=> srv[i[1]].units[d] > 0
  BY <1>2
<1> HIDE DEF D, q
<1>9. Editor(Entered(q), D) /\ \A i \in D : Shared(Entered(q), i) = q[i]
  BY <1>6, EnteredShares
<1>10. DOMAIN qty' = D /\ qty' \in [D -> Nat]
  BY <1>1, <1>6
<1>11. SplitRight(checks', D, srv')
  BY <1>1, <1>5, <1>7, <1>8, <1>9 DEF SplitRight, Editor
<1>12. QED
  BY <1>1, <1>9, <1>10, <1>11 DEF EditorRight, Editor

LEMMA EditsRight ==
    ASSUME BInv, EditSplit PROVE EditorRight'
<1> DEFINE D == DOMAIN qty
<1>1. UNCHANGED <<srv, qty, screen>> /\ screen = "split"
  BY DEF EditSplit, server, form, SplitShown
<1>2. /\ qty \in [D -> Nat] /\ SplitRight(checks, D, srv)
      /\ \A i \in D : Shared(checks, i) = qty[i]
      /\ Editor(checks, D)
  BY <1>1 DEF BInv, EditorRight, SplitRight, Editor
<1>3. Keeps(checks', checks, D)
  <2>1. CASE checks' = addCheck(checks, qty)
    BY <1>2, <2>1, AddKeeps
  <2>2. ASSUME NEW c \in DOMAIN checks, checks' = removeCheck(checks, c) PROVE Keeps(checks', checks, D)
    BY <1>2, <2>2, RemoveKeeps
  <2>3. ASSUME NEW c \in DOMAIN checks, NEW i \in D,
               checks' = incr(checks, c, i) \/ checks' = decr(checks, c, i)
        PROVE  Keeps(checks', checks, D)
    BY <1>2, <2>3, TapsKeep
  <2>4. ASSUME NEW c \in DOMAIN checks, NEW i \in D, NEW v \in Typed,
               checks' = handleInput(checks, c, i, v, qty)
        PROVE  Keeps(checks', checks, D)
    <3>1. v \in Int /\ Shared(checks, i) = qty[i]
      BY <1>2, BillAssumption
    <3>2. QED
      BY <1>2, <2>4, <3>1, InputKeeps
  <2>5. QED
    BY <2>1, <2>2, <2>3, <2>4 DEF EditSplit
<1>4. Editor(checks', D) /\ \A i \in D : Shared(checks', i) = Shared(checks, i)
  BY <1>3 DEF Keeps
<1>5. SplitRight(checks', D, srv')
  BY <1>1, <1>2, <1>4 DEF SplitRight, Editor
<1>6. QED
  BY <1>1, <1>2, <1>4, <1>5 DEF EditorRight, Editor

LEMMA EditorStays == ASSUME BInv, [Next]_vars PROVE EditorRight'
<1>1. CASE screen' # "split"
  BY <1>1 DEF EditorRight
<1>2. CASE UNCHANGED <<screen, qty, checks>>
  <2>1. \A rows, D : SplitRight(rows, D, srv) => SplitRight(rows, D, srv')
    BY ServerStays, KnownStays
  <2>2. QED
    BY <1>2, <2>1 DEF BInv, EditorRight
<1>3. CASE enterSplit
  BY <1>3, EntersRight
<1>4. CASE EditSplit
  BY <1>4, EditsRight
<1>5. ASSUME NEW j, Done(j) \/ Fails(j) PROVE screen' # "split" \/ UNCHANGED <<screen, qty, checks>>
  BY <1>5 DEF Done, Fails, Unmounted, editor
<1>6. ASSUME ScreenStep PROVE screen' # "split" \/ UNCHANGED <<screen, qty, checks>> \/ enterSplit \/ EditSplit
  BY <1>6 DEF ScreenStep, SelectOrder, TypeReceived, AskOne, AskAll, CloseDialog, leaveSplit,
         Back, Unmounted, Open, pay, payAll, confirmSplit, Start, editor
<1>7. ASSUME NEW j \in Running, JobStep(j) PROVE screen' # "split" \/ UNCHANGED <<screen, qty, checks>>
  BY <1>5, <1>7 DEF JobStep, Posted, PostFails, Read, ReadFails, form, editor
<1>8. QED
  BY <1>1, <1>2, <1>3, <1>4, <1>6, <1>7
     DEF Next, OthersOrder, OthersClose, Follow, form, editor, vars

-----------------------------------------------------------------------------
(* The checks sent to the server.                                          *)

Gathered(g, n) ==
    IF n = 0 THEN <<>>
    ELSE IF HasUnits(checks[n]) THEN Append(g[n - 1], checks[n]) ELSE g[n - 1]

LEMMA GatherExists ==
    ASSUME NEW N \in Nat PROVE \E g : g = [n \in 0 .. N |-> Gathered(g, n)]
<1> DEFINE X == {M \in Nat : \E g : g = [n \in 0 .. M |-> Gathered(g, n)]}
<1>1. 0 \in X
  <2> DEFINE g == [n \in 0 .. 0 |-> <<>>]
  <2>1. \A n \in 0 .. 0 : Gathered(g, n) = <<>>
    BY DEF Gathered
  <2>2. g = [n \in 0 .. 0 |-> Gathered(g, n)]
    BY <2>1, Zenon
  <2> QED BY <2>2
<1>2. ASSUME NEW M \in Nat, M \in X PROVE M + 1 \in X
  <2>1. PICK g : g = [n \in 0 .. M |-> Gathered(g, n)]
    BY <1>2
  <2> DEFINE h == [n \in 0 .. M + 1 |-> Gathered(g, n)]
  <2>2. \A n \in 0 .. M : n \in 0 .. M + 1
    OBVIOUS
  <2>3. \A n \in 0 .. M : h[n] = g[n]
    <3>1. \A n \in 0 .. M : g[n] = Gathered(g, n)
      BY <2>1, Zenon
    <3> QED BY <2>2, <3>1, Zenon
  <2>4. \A n \in 0 .. M + 1 : n = 0 \/ n - 1 \in 0 .. M
    OBVIOUS
  <2>5. ASSUME NEW n \in 0 .. M + 1 PROVE Gathered(h, n) = Gathered(g, n)
    <3> HIDE DEF h
    <3> QED BY <2>3, <2>4 DEF Gathered
  <2>6. h = [n \in 0 .. M + 1 |-> Gathered(h, n)]
    BY <2>5, Zenon
  <2>7. M + 1 \in Nat
    OBVIOUS
  <2> QED BY <2>6, <2>7, Zenon
<1> HIDE DEF X
<1>3. Nat \subseteq X
  BY <1>1, <1>2, NatSetInduction
<1> QED BY <1>3 DEF X

\* What the first n checks share out is in those of them that take something.
LEMMA SplitsRight ==
    ASSUME Table(checks, DOMAIN qty)
    PROVE  /\ Table(Splits, DOMAIN qty)
           /\ \A i \in DOMAIN qty : Shared(Splits, i) = Shared(checks, i)
<1> DEFINE D == DOMAIN qty
           N == Len(checks)
           G == CHOOSE g : g = [n \in 0 .. N |-> Gathered(g, n)]
           upto(i, n) == SumFunctionOnSet(Column(checks, i), 1 .. n)
           X == {n \in Nat : n \in 0 .. N =>
                   Table(G[n], D) /\ \A i \in D : Shared(G[n], i) = upto(i, n)}
<1>1. Splits = G[N]
  BY Zenon DEF Splits, Gathered
<1>2. N \in Nat /\ DOMAIN checks = 1 .. N /\ \A k \in 1 .. N : checks[k] \in Shares(D)
  BY TableShape DEF Shares
<1>3. \A n \in 0 .. N : G[n] = Gathered(G, n)
  <2>1. \E g : g = [n \in 0 .. N |-> Gathered(g, n)]
    BY <1>2, GatherExists
  <2>2. G = [n \in 0 .. N |-> Gathered(G, n)]
    BY <2>1, Zenon
  <2> HIDE DEF G
  <2>3. QED
    BY <2>2, Zenon
<1> HIDE DEF G
<1>4. \A i \in D : \A k \in 1 .. N : Column(checks, i)[k] = checks[k][i] /\ checks[k][i] \in Nat
  <2>1. ASSUME NEW i \in D
        PROVE  \A k \in DOMAIN checks : Column(checks, i)[k] = checks[k][i] /\ checks[k][i] \in Nat
    BY ColumnSums
  <2>2. QED
    BY <1>2, <2>1
<1>5. 0 \in X
  <2>1. G[0] = <<>>
    BY <1>2, <1>3 DEF Gathered
  <2>2. Table(G[0], D)
    BY <2>1 DEF Table
  <2>3. ASSUME NEW i \in D PROVE Shared(G[0], i) = upto(i, 0)
    <3>1. Shared(G[0], i) = SumFunctionOnSet(Column(G[0], i), DOMAIN G[0])
      BY <2>2, ColumnSums
    <3>2. DOMAIN G[0] = {} /\ 1 .. 0 = {}
      BY <2>1
    <3>3. QED
      BY <3>1, <3>2, SumEmpty
  <2>4. QED
    BY <2>2, <2>3
<1>6. ASSUME NEW n \in Nat, n \in X PROVE n + 1 \in X
  <2> SUFFICES ASSUME n + 1 \in 0 .. N
               PROVE  Table(G[n + 1], D) /\ \A i \in D : Shared(G[n + 1], i) = upto(i, n + 1)
    OBVIOUS
  <2>1. n \in 0 .. N /\ n + 1 \in 1 .. N /\ n + 1 # 0 /\ (n + 1) - 1 = n
    BY <1>2
  <2>2. Table(G[n], D) /\ \A i \in D : Shared(G[n], i) = upto(i, n)
    BY <1>6, <2>1
  <2>3. G[n + 1] = IF HasUnits(checks[n + 1]) THEN Append(G[n], checks[n + 1]) ELSE G[n]
    BY <1>3, <2>1 DEF Gathered
  <2>4. ASSUME NEW i \in D
        PROVE  upto(i, n + 1) = upto(i, n) + checks[n + 1][i] /\ upto(i, n) \in Int
    <3> DEFINE f == Column(checks, i)
    <3>1. \A k \in 1 .. n : f[k] \in Int
      BY <1>2, <1>4, <2>1
    <3>2. f[n + 1] = checks[n + 1][i] /\ f[n + 1] \in Int
      BY <1>4, <2>1
    <3>3. IsFiniteSet(1 .. n)
      BY Positions
    <3> HIDE DEF f
    <3>4. SumFunctionOnSet(f, 1 .. n + 1) = SumFunctionOnSet(f, 1 .. n) + f[n + 1]
      BY <3>1, <3>2, SumAppended
    <3>5. SumFunctionOnSet(f, 1 .. n) \in Int
      BY <3>1, <3>3, SumInt
    <3>6. QED
      BY <3>2, <3>4, <3>5 DEF f
  <2> HIDE DEF upto
  <2>5. CASE HasUnits(checks[n + 1])
    <3>1. G[n + 1] = Append(G[n], checks[n + 1]) /\ checks[n + 1] \in Shares(D)
      BY <1>2, <2>1, <2>3, <2>5
    <3>2. Table(G[n + 1], D)
      BY <2>2, <3>1, RowAdded
    <3>3. ASSUME NEW i \in D PROVE Shared(G[n + 1], i) = upto(i, n + 1)
      <4>1. Shared(G[n + 1], i) = Shared(G[n], i) + checks[n + 1][i]
        BY <2>2, <3>1, RowAddedShares
      <4>2. QED
        BY <2>2, <2>4, <4>1
    <3>4. QED
      BY <3>2, <3>3
  <2>6. CASE ~HasUnits(checks[n + 1])
    <3>1. G[n + 1] = G[n]
      BY <2>3, <2>6
    <3>2. ASSUME NEW i \in D PROVE upto(i, n + 1) = upto(i, n)
      <4>1. checks[n + 1][i] \in Nat /\ ~(checks[n + 1][i] > 0)
        BY <1>4, <2>1, <2>6 DEF HasUnits
      <4>2. checks[n + 1][i] = 0
        BY <4>1
      <4>3. QED
        BY <2>4, <4>2
    <3>3. QED
      BY <2>2, <3>1, <3>2
  <2>7. QED
    BY <2>5, <2>6
<1>7. N \in X
  <2> HIDE DEF X
  <2>1. Nat \subseteq X
    BY <1>5, <1>6, NatSetInduction
  <2>2. QED
    BY <1>2, <2>1
<1>8. Table(G[N], D) /\ \A i \in D : Shared(G[N], i) = upto(i, N)
  BY <1>2, <1>7
<1>9. ASSUME NEW i \in D PROVE Shared(checks, i) = upto(i, N)
  <2>1. Shared(checks, i) = SumFunctionOnSet(Column(checks, i), DOMAIN checks)
    BY ColumnSums
  <2>2. QED
    BY <1>2, <2>1
<1>10. QED
  BY <1>1, <1>8, <1>9

-----------------------------------------------------------------------------
(* The invariant.                                                          *)

\* A job of another state of its todo is right if it was.
LEMMA FollowerRight ==
    ASSUME NEW new, NEW old, Follows(new, old), JobRight(old, srv) PROVE JobRight(new, srv)
  BY DEF Follows, JobRight

\* Cash that covers the sum as the doubles have it covers what is due; without cash, an
\* amount of two decimals is what is due.
LEMMA ChargeCovers ==
    ASSUME NEW d \in Nat, NEW cash \in Nat, NEW e \in {-1, 0, 1},
           NEW a, a = IF 10 * cash >= 10 * d + e THEN 10 * cash ELSE 10 * d + e
    PROVE  a \in Nat /\ (a % 10 = 0 => a >= 10 * d) /\ (e = 0 => a % 10 = 0)
  OBVIOUS

\* What the screen is about to pay is what it knows of the orders it lists.
LEMMA PayerRight ==
    ASSUME Knows(seen, srv), NEW kind \in {"pay", "payAll"}, NEW todo \in SUBSET orders, todo # {},
           NEW cash \in Nat
    PROVE  JobRight(Job(kind, todo, cash), srv)
<1> DEFINE job == Job(kind, todo, cash)
<1>1. /\ job.kind = kind /\ job.todo = todo
      /\ job.bill = [o \in Ids |-> IF o \in todo
                       THEN [amount |-> Charge(o, cash), fee |-> orderSvc(o)] ELSE None]
  BY DEF Job
<1> HIDE DEF job
<1>2. ASSUME NEW o \in todo
      PROVE  o \in Ids /\ Asked([amount |-> Charge(o, cash), fee |-> orderSvc(o)], srv[o])
  <2> DEFINE t == Total(seen[o].units)
             f == Rounded(t)
  <2>1. o \in Ids /\ seen[o].status # "none"
    BY DEF orders, ActiveIn
  <2>2. seen[o].units \in Units /\ srv[o].status # "none" /\ srv[o].units = seen[o].units
    BY <2>1 DEF Knows, Copies
  <2>3. t \in Nat /\ f \in Nat
    BY <2>2, AmountsNat
  <2> DEFINE e == Noise(t)
  <2>4. orderSvc(o) = f /\ orderTotal(o) = 10 * (t + f) + e
    BY DEF orderSvc, orderTotal, due, subtotal, Tenths
  <2>5. f = Rounded(Total(srv[o].units)) /\ t = Total(srv[o].units)
    BY <2>2
  <2>6. e \in {-1, 0, 1} /\ (t \notin SumsAbove \cup SumsBelow => e = 0)
    BY DEF Noise
  <2> HIDE DEF t, f, e
  <2> DEFINE a == Charge(o, cash)
             bill == [amount |-> a, fee |-> f]
  <2>7. a = IF 10 * cash >= 10 * (t + f) + e THEN 10 * cash ELSE 10 * (t + f) + e
    BY <2>4 DEF Charge, Tenths
  <2> HIDE DEF a
  <2>8. t + f \in Nat
    BY <2>3
  <2>9. a \in Nat /\ (a % 10 = 0 => a >= 10 * (t + f)) /\ (e = 0 => a % 10 = 0)
    BY <2>6, <2>7, <2>8, ChargeCovers
  <2>10. bill \in [amount : Nat, fee : Nat] /\ bill.amount = a /\ bill.fee = f
    BY <2>3, <2>9
  <2> HIDE DEF bill
  <2>11. Asked(bill, srv[o])
    <3>1. bill.amount % 10 = 0 => bill.amount >= 10 * (Total(srv[o].units) + bill.fee)
      BY <2>5, <2>9, <2>10
    <3>2. bill.amount % 10 # 0 => Total(srv[o].units) \in SumsAbove \cup SumsBelow
      BY <2>5, <2>9, <2>10, <2>6
    <3>3. bill.fee = Rounded(Total(srv[o].units))
      BY <2>5, <2>10
    <3>4. QED
      BY <2>2, <2>10, <3>1, <3>2, <3>3 DEF Asked, TwoDecimals, Tenths
  <2>12. QED
    BY <2>1, <2>4, <2>11 DEF bill, a
<1>3. \A o \in todo : job.bill[o] = [amount |-> Charge(o, cash), fee |-> orderSvc(o)]
  BY <1>1, <1>2
<1>4. \A o \in todo : o \in Ids /\ Asked(job.bill[o], srv[o])
  BY <1>2, <1>3
<1>5. job.bill \in Payments
  <2>1. \A o \in Ids : job.bill[o] \in [amount : Nat, fee : Nat] \cup {None}
    BY <1>1, <1>4 DEF Asked
  <2>2. job.bill = [o \in Ids |-> job.bill[o]]
    BY <1>1
  <2>3. QED
    BY <2>1, <2>2 DEF Payments
<1>6. QED
  BY <1>1, <1>4, <1>5 DEF JobRight, job

\* A job that splits knows the copies and the checks of its click.
LEMMA SplitterRight ==
    ASSUME BInv, screen = "split", Len(Splits) >= 2
    PROVE  JobRight([Job("split", {}, 0) EXCEPT !.copies = seen, !.splits = Splits], srv)
<1> DEFINE job == [Job("split", {}, 0) EXCEPT !.copies = seen, !.splits = Splits]
<1>1. /\ job.kind = "split" /\ job.todo = {} /\ job.copies = seen /\ job.splits = Splits
      /\ job.bill = [o \in Ids |-> None]
  BY DEF Job
<1> HIDE DEF job
<1>2. job.bill \in Payments
  BY <1>1 DEF Payments
<1>3. SplitRight(checks, DOMAIN qty, srv)
  BY DEF BInv, EditorRight
<1>4. Table(checks, DOMAIN qty)
  BY <1>3 DEF SplitRight
<1>5. Table(Splits, DOMAIN qty) /\ \A i \in DOMAIN qty : Shared(Splits, i) = Shared(checks, i)
  BY <1>4, SplitsRight
<1>6. SplitRight(Splits, DOMAIN qty, srv)
  BY <1>3, <1>5 DEF SplitRight
<1>7. /\ Knows(job.copies, srv) /\ Len(job.splits) >= 2
      /\ \E D : SplitRight(job.splits, D, srv)
  BY <1>1, <1>6 DEF BInv
<1>8. QED
  BY <1>1, <1>2, <1>7 DEF JobRight, job

LEMMA JobsStayRight == ASSUME BInv, [Next]_vars PROVE \A k \in Slots : JobRight(jobs'[k], srv')
<1> SUFFICES ASSUME NEW k \in Slots PROVE JobRight(jobs'[k], srv')
  OBVIOUS
<1>1. JobMoves(k) /\ JobRight(jobs[k], srv)
  BY JobsMove DEF BInv
<1>2. \A job : JobRight(job, srv) => JobRight(job, srv')
  BY ServerStays, KnownStays
<1>3. CASE jobs'[k] = NoJob
  BY <1>3 DEF NoJob, JobRight
<1>4. CASE Follows(jobs'[k], jobs[k])
  BY <1>1, <1>2, <1>4, FollowerRight
<1>5. CASE Begins(jobs'[k])
  <2>1. Knows(seen, srv) /\ received \in Nat /\ orders # {}
    BY <1>5 DEF BInv, FormRight, Begins
  <2>2. orders \in SUBSET Ids
    BY DEF orders, ActiveIn
  <2>3. CASE jobs'[k] = Job("pay", {selectedOrder}, received)
    <3>1. {selectedOrder} \in SUBSET orders
      BY <2>1, <2>2, FirstIn DEF selectedOrder
    <3>2. JobRight(Job("pay", {selectedOrder}, received), srv)
      BY <2>1, <3>1, PayerRight
    <3>3. QED
      BY <1>2, <2>3, <3>2
  <2>4. CASE jobs'[k] = Job("payAll", orders, 0)
    <3>1. JobRight(Job("payAll", orders, 0), srv)
      BY <2>1, PayerRight
    <3>2. QED
      BY <1>2, <2>4, <3>1
  <2>5. CASE /\ screen = "split" /\ Len(Splits) >= 2
             /\ jobs'[k] = [Job("split", {}, 0) EXCEPT !.copies = seen, !.splits = Splits]
    BY <1>2, <2>5, SplitterRight
  <2>6. QED
    BY <1>5, <2>3, <2>4, <2>5 DEF Begins
<1>6. QED
  BY <1>1, <1>3, <1>4, <1>5 DEF JobMoves

LEMMA FormStays == ASSUME BInv, [Next]_vars PROVE FormRight'
<1>1. /\ events \subseteq Ids /\ moves \in 0 .. MaxMoves
      /\ screen \in {"bill", "split", "away"} /\ dialog \in {"none", "one", "all"}
      /\ selected \in Ids \cup {None} /\ received \in Nat
  BY DEF BInv, FormRight
<1>2. Tendered \subseteq Nat /\ MaxMoves \in Nat
  BY BillAssumption
<1>3. CASE ScreenStep
  <2>1. events' = events /\ (moves' = moves \/ (moves > 0 /\ moves' = moves - 1))
    BY <1>3 DEF ScreenStep, SelectOrder, TypeReceived, AskOne, AskAll, CloseDialog, enterSplit,
           EditSplit, leaveSplit, Back, Open, pay, payAll, confirmSplit, Start, server
  <2>2. \/ UNCHANGED <<screen, dialog, selected, received>>
        \/ UNCHANGED <<screen, dialog, selected>> /\ received' \in Tendered
        \/ UNCHANGED <<screen, dialog, received>> /\ selected' \in Ids
        \/ UNCHANGED <<screen, selected, received>> /\ dialog' \in {"none", "one", "all"}
        \/ UNCHANGED <<dialog, selected, received>> /\ screen' \in {"bill", "split", "away"}
        \/ Unmounted
    BY <1>3 DEF ScreenStep, SelectOrder, TypeReceived, AskOne, AskAll, CloseDialog, enterSplit,
           EditSplit, leaveSplit, Back, Open, pay, payAll, confirmSplit, Start, form
  <2>3. events' \subseteq Ids /\ moves' \in 0 .. MaxMoves
    BY <1>1, <1>2, <2>1
  <2>4. screen' \in {"bill", "split", "away"} /\ dialog' \in {"none", "one", "all"}
    BY <1>1, <2>2 DEF Unmounted
  <2>5. selected' \in Ids \cup {None} /\ received' \in Nat
    <3>1. selected' \in Ids \cup {None}
      BY <1>1, <2>2 DEF Unmounted
    <3>2. received' = received \/ received' \in Tendered \/ received' = 0
      BY <2>2 DEF Unmounted
    <3>3. \A v \in Tendered : v \in Nat
      BY <1>2
    <3>4. QED
      BY <1>1, <3>1, <3>2, <3>3
  <2>6. QED
    BY <2>3, <2>4, <2>5 DEF FormRight
<1>4. ASSUME NEW j \in Running, JobStep(j) PROVE FormRight'
  <2>1. Announced(jobs[j]) \subseteq Ids
    BY NextToPay DEF Announced, NewIds, Free
  <2>2. events' \subseteq Ids /\ moves' \in 0 .. MaxMoves
    BY <1>1, <1>2, <1>4, <2>1 DEF JobStep, Posted, PostFails, Read, ReadFails, server
  <2>3. \/ UNCHANGED form
        \/ Fails(j)
        \/ Done(j)
    BY <1>4 DEF JobStep, Posted, PostFails, Read, ReadFails
  <2>4. /\ screen' \in {"bill", "split", "away"} /\ dialog' \in {"none", "one", "all"}
        /\ selected' \in Ids \cup {None} /\ received' \in Nat
    <3>1. CASE UNCHANGED form
      BY <1>1, <3>1 DEF form
    <3>2. CASE Fails(j)
      BY <1>1, <3>2 DEF Fails, Released
    <3>3. CASE Done(j)
      BY <1>1, <3>3 DEF Done, Released, Unmounted
    <3>4. QED
      BY <2>3, <3>1, <3>2, <3>3
  <2>5. QED
    BY <2>2, <2>4 DEF FormRight
<1>5. CASE OthersOrder \/ \E o \in Ids, s \in {"paid", "cancelled"} : OthersClose(o, s)
  <2>1. events' \subseteq Ids /\ moves' \in 0 .. MaxMoves /\ UNCHANGED form
    BY <1>1, <1>2, <1>5 DEF OthersOrder, OthersClose, Free
  <2>2. QED
    BY <1>1, <2>1 DEF FormRight, form
<1>6. ASSUME NEW o, Follow(o) PROVE FormRight'
  BY <1>1, <1>6 DEF FormRight, Follow, form
<1>7. CASE UNCHANGED vars
  BY <1>1, <1>7 DEF FormRight, vars
<1>8. QED
  BY <1>3, <1>4, <1>5, <1>6, <1>7 DEF Next

LEMMA BInit == Init => BInv
<1> SUFFICES ASSUME Init PROVE BInv
  OBVIOUS
<1>1. Opening \in Seq(Units) /\ Len(Opening) \in Nat /\ Len(Opening) <= MaxOrders /\ MaxOrders \in Nat
  BY BillAssumption
<1>2. \A o \in 1 .. Len(Opening) : Opening[o] \in Units
  BY <1>1
<1>3. Ids = 1 .. MaxOrders
  BY DEF Ids
<1>4. srv = [o \in Ids |-> IF o <= Len(Opening) THEN Order("active", Opening[o]) ELSE Absent]
  BY DEF Init
<1>5. ASSUME NEW o \in Ids
      PROVE  /\ srv[o] \in [status : {"none", "active", "paid", "cancelled"}, units : Units]
             /\ srv[o].status # "none" <=> o <= Len(Opening)
  <2>1. CASE o <= Len(Opening)
    <3>1. srv[o] = Order("active", Opening[o]) /\ Opening[o] \in Units
      BY <1>1, <1>2, <1>3, <1>4, <2>1
    <3>2. QED
      BY <2>1, <3>1 DEF Order
  <2>2. CASE ~(o <= Len(Opening))
    <3>1. srv[o] = Absent
      BY <1>4, <2>2
    <3>2. QED
      BY <2>2, <3>1 DEF Absent, Order, Units
  <2>3. QED
    BY <2>1, <2>2
<1>6. srv \in Copies
  BY <1>4, <1>5 DEF Copies
<1>7. ServerRight
  <2>1. InOrder(srv, Len(Opening)) /\ Len(Opening) \in 0 .. MaxOrders
    BY <1>1, <1>5 DEF InOrder
  <2>2. pays \in Payments
    BY DEF Init, Payments
  <2>3. QED
    BY <1>6, <2>1, <2>2 DEF ServerRight
<1>8. Knows(seen, srv)
  BY <1>6 DEF Init, Knows
<1>9. \A j \in Slots : JobRight(jobs[j], srv)
  BY DEF Init, NoJob, JobRight
<1>10. EditorRight /\ FormRight
  BY BillAssumption DEF Init, EditorRight, FormRight
<1>11. QED
  BY <1>7, <1>8, <1>9, <1>10, InitHolds DEF BInv

LEMMA BHolds == Spec => []BInv
<1>1. BInv /\ [Next]_vars => BInv'
  <2> SUFFICES ASSUME BInv, [Next]_vars PROVE BInv'
    OBVIOUS
  <2>1. IInv'
    BY StepKeeps DEF BInv
  <2>2. ServerRight' /\ Knows(seen', srv') /\ \A k \in Slots : JobRight(jobs'[k], srv')
    BY ServerStays, SeenStays, JobsStayRight
  <2>3. EditorRight' /\ FormRight'
    BY EditorStays, FormStays
  <2>4. QED
    BY <2>1, <2>2, <2>3 DEF BInv
<1>2. QED
  BY BInit, <1>1, PTL DEF Spec

-----------------------------------------------------------------------------
(* What follows from it.                                                   *)

\* The screen's state, its jobs and the server's orders keep their types, for any table,
\* any sequence of taps and any number of jobs (TableSession.tsx:565-888).
THEOREM BillTypes == Spec => []TypeOK
<1>1. ASSUME BInv PROVE TypeOK
  <2>1. {srv, seen} \subseteq Copies /\ pays \in Payments
    BY <1>1 DEF BInv, ServerRight, Knows
  <2>2. /\ events \subseteq Ids /\ moves \in 0 .. MaxMoves
        /\ screen \in {"bill", "split", "away"} /\ dialog \in {"none", "one", "all"}
        /\ selected \in Ids \cup {None} /\ received \in Nat /\ processing \in BOOLEAN
    BY <1>1 DEF BInv, FormRight, IInv
  <2>3. ASSUME NEW j \in Running
        PROVE  /\ jobs[j].kind \in {"pay", "payAll", "split"}
               /\ {jobs[j].todo, jobs[j].listed} \subseteq SUBSET Ids
               /\ jobs[j].stage \in {"post", "read"} /\ jobs[j].own \in BOOLEAN
               /\ jobs[j].bill \in Payments
               /\ jobs[j].kind = "split" => jobs[j].copies \in Copies
    <3>1. PICK X : jobs \in [Slots -> JobTypes(X)]
      BY <1>1 DEF BInv, IInv, JobsOK
    <3>2. jobs[j] \in JobTypes(X) /\ jobs[j].kind # "none" /\ JobRight(jobs[j], srv)
      BY <1>1, <3>1 DEF Running, BInv
    <3>3. /\ jobs[j].kind \in {"pay", "payAll", "split"} /\ jobs[j].listed \subseteq Ids
          /\ jobs[j].stage \in {"post", "read"} /\ jobs[j].own \in BOOLEAN
      BY <3>2 DEF JobTypes
    <3>4. jobs[j].todo \subseteq Ids /\ jobs[j].bill \in Payments
      BY <3>2 DEF JobRight
    <3>5. jobs[j].kind = "split" => jobs[j].copies \in Copies
      BY <3>2 DEF JobRight, Knows
    <3>6. QED
      BY <3>3, <3>4, <3>5
  <2>4. QED
    BY <2>1, <2>2, <2>3 DEF TypeOK
<1>2. QED
  BY BHolds, <1>1, PTL

\* No sequence of taps and typed numbers, however long and whatever is typed, loses or
\* invents a unit: the checks share out exactly what was ordered
\* (TableSession.tsx:669-719).
THEOREM EditorConserves == Spec => []UnitsConserved
<1>1. ASSUME BInv, screen = "split"
      PROVE  /\ Len(checks) >= 2
             /\ \A i \in DOMAIN qty :
                  /\ Shared(checks, i) = qty[i]
                  /\ \A c \in DOMAIN checks : checks[c][i] >= 0
  <2>1. /\ Len(checks) >= 2 /\ Table(checks, DOMAIN qty)
        /\ \A i \in DOMAIN qty : Shared(checks, i) = qty[i]
    BY <1>1 DEF BInv, EditorRight, SplitRight
  <2>2. ASSUME NEW i \in DOMAIN qty, NEW c \in DOMAIN checks PROVE checks[c][i] >= 0
    <3>1. checks[c] \in [DOMAIN qty -> Nat]
      BY <2>1, TableShape
    <3>2. checks[c][i] \in Nat
      BY <3>1
    <3>3. QED
      BY <3>2
  <2>3. QED
    BY <2>1, <2>2
<1>2. BInv => UnitsConserved
  BY <1>1 DEF UnitsConserved
<1>3. QED
  BY BHolds, <1>2, PTL

\* What the screen is about to pay is what the table owes, whichever check the dialog is
\* about and whatever other devices have done meanwhile: the fee it sends is the service
\* of that order, and the amount covers both and has two decimals, unless the sum is one
\* that doubles get wrong (TableSession.tsx:655, 738-742, 843-853, 872-880; pos.py:172-174;
\* schemas.py:385).
THEOREM JobsAskTheBill == Spec => []AsksTheBill
<1>1. ASSUME BInv, NEW j \in Running, NEW o \in jobs[j].todo
      PROVE  Asked(jobs[j].bill[o], srv[o])
  <2>1. PICK X : jobs \in [Slots -> JobTypes(X)]
    BY <1>1 DEF BInv, IInv, JobsOK
  <2>2. j \in Slots /\ jobs[j].kind \in {"pay", "payAll", "split"} /\ JobRight(jobs[j], srv)
    BY <1>1, <2>1 DEF Running, BInv, JobTypes
  <2>3. QED
    BY <1>1, <2>2 DEF JobRight
<1>2. BInv => AsksTheBill
  BY <1>1 DEF AsksTheBill, Asked
<1>3. QED
  BY BHolds, <1>2, PTL

-----------------------------------------------------------------------------
(* The receipt.                                                            *)

\* Rounding moves an amount by half a hundredth at most.
LEMMA RoundedNear ==
    ASSUME NEW t \in Nat
    PROVE  /\ Rounded(t) \in Nat
           /\ Rounded(t) * 200 - t * (2 * Rate) <= 100 /\ t * (2 * Rate) - Rounded(t) * 200 <= 100
<1> DEFINE p == t * (2 * Rate)
           half == IF t \in TiesLost THEN 99 ELSE 100
<1>1. Rate \in Nat
  BY BillAssumption
<1>2. p \in Nat /\ half \in {99, 100}
  BY <1>1
<1>3. Rounded(t) = (p + half) \div 200
  <2>1. 2 * t * Rate = p
    BY <1>1
  <2>2. QED
    BY <2>1 DEF Rounded
<1> HIDE DEF p, half
<1>4. /\ (p + half) \div 200 \in Nat
      /\ ((p + half) \div 200) * 200 - p <= 100 /\ p - ((p + half) \div 200) * 200 <= 100
  BY <1>2
<1>5. QED
  BY <1>3, <1>4 DEF p

LEMMA OffByHalves ==
    ASSUME NEW R \in Int, NEW S \in Int, NEW p \in Int, NEW n \in Nat,
           R * 200 - p <= 100, p - R * 200 <= 100,
           S * 200 - p <= 100 * n, p - S * 200 <= 100 * n
    PROVE  (IF R - S < 0 THEN -(R - S) ELSE R - S) * 2 <= n + 1
  OBVIOUS

LEMMA ReceiptNear ==
    ASSUME Knows(seen, srv) PROVE ReceiptNearCharge
<1> DEFINE S == orders
           k == 2 * Rate
           t == [o \in S |-> subtotal(o)]
           r == [o \in S |-> orderSvc(o)]
           b == [o \in S |-> due(o)]
           x == [o \in S |-> t[o] * k]
           y == [o \in S |-> r[o] * 200]
           sub == SumFunctionOnSet(t, S)
           svc == SumFunctionOnSet(r, S)
<1>1. IsFiniteSet(S) /\ S \subseteq Ids
  BY FiniteIds, FS_Subset DEF orders, ActiveIn
<1>2. k \in Int
  BY BillAssumption
<1>3. ASSUME NEW o \in S
      PROVE  /\ t[o] \in Nat /\ r[o] \in Nat /\ b[o] = t[o] + r[o]
             /\ r[o] * 200 - t[o] * k <= 100 /\ t[o] * k - r[o] * 200 <= 100
  <2>1. subtotal(o) \in Nat
    <3>1. seen[o].units \in Units
      BY <1>1 DEF Knows, Copies
    <3>2. QED
      BY <3>1, AmountsNat DEF subtotal
  <2>2. t[o] = subtotal(o) /\ r[o] = Rounded(subtotal(o)) /\ b[o] = t[o] + r[o]
    BY DEF orderSvc, due
  <2>3. QED
    BY <2>1, <2>2, RoundedNear
<1>4. /\ \A o \in S : x[o] = t[o] * k
      /\ \A o \in S : y[o] = r[o] * 200
      /\ DOMAIN t = S /\ DOMAIN r = S /\ DOMAIN b = S
  OBVIOUS
<1>5. receiptTotal = SumFunction(t) + Rounded(SumFunction(t)) /\ allTotal = SumFunction(b)
  BY DEF receiptTotal, allTotal
<1> HIDE DEF S, k, t, r, b, x, y
<1>6. \A o \in S : t[o] \in Int /\ r[o] \in Int /\ b[o] \in Int
  BY <1>3
<1>7. SumFunction(t) = sub /\ SumFunction(b) = SumFunctionOnSet(b, S)
  BY <1>4 DEF SumFunction
<1>8. sub \in Nat /\ svc \in Nat
  <2>1. \A o \in S : t[o] \in Nat
    BY <1>3
  <2>2. \A o \in S : r[o] \in Nat
    BY <1>3
  <2>3. QED
    BY <1>1, <2>1, <2>2, SumNat
<1>9. SumFunctionOnSet(b, S) = sub + svc
  <2>1. \A o \in S : b[o] = t[o] + r[o]
    BY <1>3
  <2>2. QED
    BY <1>1, <1>6, <2>1, SumPlus
<1>10. \A o \in S : x[o] \in Int /\ y[o] \in Int /\ x[o] - y[o] <= 100 /\ y[o] - x[o] <= 100
  <2>1. ASSUME NEW o \in S PROVE x[o] \in Int /\ y[o] \in Int /\ x[o] - y[o] <= 100 /\ y[o] - x[o] <= 100
    <3>1. t[o] * k \in Int /\ r[o] * 200 \in Int
      BY <1>2, <1>6
    <3>2. QED
      BY <1>3, <1>4, <3>1
  <2>2. QED
    BY <2>1
<1>11. SumFunctionOnSet(x, S) = sub * k
  BY <1>1, <1>2, <1>4, <1>6, SumTimes
<1>12. SumFunctionOnSet(y, S) = svc * 200
  <2> DEFINE c == 200
  <2>1. c \in Int /\ \A o \in S : y[o] = r[o] * c
    BY <1>4
  <2> HIDE DEF c
  <2>2. SumFunctionOnSet(y, S) = svc * c
    BY <1>1, <1>6, <2>1, SumTimes
  <2>3. QED
    BY <2>2 DEF c
<1>13. /\ SumFunctionOnSet(x, S) - SumFunctionOnSet(y, S) <= 100 * Cardinality(S)
       /\ SumFunctionOnSet(y, S) - SumFunctionOnSet(x, S) <= 100 * Cardinality(S)
  <2> DEFINE c == 100
  <2>1. /\ c \in Nat /\ \A o \in S : x[o] \in Int /\ y[o] \in Int
        /\ \A o \in S : x[o] - y[o] <= c /\ y[o] - x[o] <= c
    BY <1>10
  <2> HIDE DEF c
  <2>2. /\ SumFunctionOnSet(x, S) - SumFunctionOnSet(y, S) <= c * Cardinality(S)
        /\ SumFunctionOnSet(y, S) - SumFunctionOnSet(x, S) <= c * Cardinality(S)
    BY <1>1, <2>1, SumWithin
  <2>3. QED
    BY <2>2 DEF c
<1> DEFINE p == sub * k
           n == Cardinality(S)
           R == Rounded(sub)
<1>14. R \in Nat /\ R * 200 - p <= 100 /\ p - R * 200 <= 100
  BY <1>8, RoundedNear DEF k
<1>15. p \in Int /\ n \in Nat
  BY <1>1, <1>2, <1>8, FS_CardinalityType
<1>16. p - svc * 200 <= 100 * n /\ svc * 200 - p <= 100 * n
  BY <1>11, <1>12, <1>13
<1>17. receiptTotal - allTotal = R - svc
  <2>1. receiptTotal = sub + R /\ allTotal = sub + svc
    BY <1>5, <1>7, <1>9
  <2> HIDE DEF sub, svc, R
  <2>2. QED
    BY <1>8, <1>14, <2>1
<1> HIDE DEF p, n, R, sub, svc
<1>18. (IF R - svc < 0 THEN -(R - svc) ELSE R - svc) * 2 <= n + 1
  BY <1>8, <1>14, <1>15, <1>16, OffByHalves
<1>19. QED
  BY <1>17, <1>18 DEF ReceiptNearCharge, n, S

\* The guest's receipt for all checks and what is charged for them differ by at most half
\* a hundredth for the receipt and each check, whatever was ordered at whatever prices
\* and rate (TableSession.tsx:30-33, 738-745).
THEOREM ReceiptsAreNear == Spec => []ReceiptNearCharge
<1>1. BInv => ReceiptNearCharge
  BY ReceiptNear DEF BInv
<1>2. QED
  BY BHolds, <1>1, PTL
-----------------------------------------------------------------------------
(* What a split leaves on the bill.                                        *)

\* The units of one dish, check by check or item by item.
LEMMA RowsBalance ==
    ASSUME NEW D \in SUBSET (Ids \X Dishes), NEW splits, Table(splits, D), NEW d \in Dishes,
           NEW rows, \A c \in DOMAIN splits : rows[c] = UnitsOf(splits[c])[d],
           NEW columns, \A i \in D : i[2] = d => columns[i] = Shared(splits, i)
    PROVE  SumFunctionOnSet(rows, DOMAIN splits) = SumFunctionOnSet(columns, {i \in D : i[2] = d})
<1> DEFINE E == {i \in D : i[2] = d}
           S == DOMAIN splits
           turned == [i \in E |-> Column(splits, i)]
<1>1. E \in SUBSET D /\ IsFiniteSet(E)
  <2>1. E \in SUBSET (Ids \X Dishes) /\ E \in SUBSET D
    OBVIOUS
  <2>2. QED
    BY <2>1, FiniteIds, FS_Subset
<1>2. S = 1 .. Len(splits) /\ Len(splits) \in Nat /\ \A c \in S : splits[c] \in [D -> Nat]
  BY TableShape
<1>3. IsFiniteSet(S)
  BY <1>2, FS_Interval
<1>4. ASSUME NEW c \in S PROVE rows[c] = SumFunctionOnSet(splits[c], E)
  <2> DEFINE check == splits[c]
             part == [i \in {x \in DOMAIN check : x[2] = d} |-> check[i]]
  <2>1. check \in [D -> Nat]
    BY <1>2
  <2>2. {x \in DOMAIN check : x[2] = d} = E
    BY <2>1
  <2>3. DOMAIN part = E /\ \A i \in E : part[i] = check[i]
    BY <2>2
  <2>4. UnitsOf(check)[d] = SumFunctionOnSet(part, DOMAIN part)
    BY DEF UnitsOf, SumFunction
  <2>5. \A i \in E : check[i] \in Int
    BY <1>1, <2>1
  <2> HIDE DEF E, part, check
  <2>6. SumFunctionOnSet(part, E) = SumFunctionOnSet(check, E)
    BY <1>1, <2>3, <2>5, SumSame
  <2>7. rows[c] = UnitsOf(check)[d]
    BY DEF check
  <2>8. QED
    BY <2>3, <2>4, <2>6, <2>7 DEF check
<1>5. DOMAIN turned = E
  OBVIOUS
<1>6. ASSUME NEW i \in E
      PROVE  /\ columns[i] = SumFunctionOnSet(turned[i], S)
             /\ \A c \in S : turned[i][c] = splits[c][i] /\ splits[c][i] \in Int
  <2>1. i \in D /\ i[2] = d /\ turned[i] = Column(splits, i)
    BY <1>1
  <2>2. /\ \A c \in S : Column(splits, i)[c] = splits[c][i] /\ splits[c][i] \in Nat
        /\ Shared(splits, i) = SumFunctionOnSet(Column(splits, i), S)
    BY <2>1, ColumnSums
  <2>3. columns[i] = Shared(splits, i)
    BY <2>1
  <2> HIDE DEF turned, E
  <2>4. QED
    BY <2>1, <2>2, <2>3
<1> HIDE DEF turned, E, S
<1>7. \A c \in S : \A i \in E : splits[c][i] \in Int
  BY <1>6
<1>8. \A c \in S : \A i \in E : turned[i][c] = splits[c][i]
  BY <1>6
<1>9. SumFunctionOnSet(rows, S) = SumFunctionOnSet(columns, E)
  <2>1. DOMAIN splits = S
    BY DEF S
  <2>2. \A c \in S : rows[c] = SumFunctionOnSet(splits[c], E)
    BY <1>4
  <2>3. \A i \in E : columns[i] = SumFunctionOnSet(turned[i], S)
    BY <1>6
  <2>4. QED
    BY <1>1, <1>3, <1>5, <1>7, <1>8, <2>1, <2>2, <2>3, SumSwap
<1>10. QED
  BY <1>9 DEF S, E

\* The units of a dish, order by order or item by item.
LEMMA ItemsBalance ==
    ASSUME ServerRight, NEW D, NEW splits, SplitRight(splits, D, srv), NEW d \in Dishes,
           ActiveIn(srv) = {i[1] : i \in D},
           NEW columns, \A i \in D : i[2] = d => columns[i] = Shared(splits, i)
    PROVE  UnitsOn(srv, d) = SumFunctionOnSet(columns, {i \in D : i[2] = d})
<1> DEFINE A == ActiveIn(srv)
           E == {i \in D : i[2] = d}
           P == {i[1] : i \in E}
           part == [o \in A |-> srv[o].units[d]]
           h == [i \in E |-> i[1]]
<1>1. /\ D \in SUBSET (Ids \X Dishes)
      /\ \A i \in D : Shared(splits, i) = srv[i[1]].units[i[2]]
      /\ \A i \in D : \A e \in Dishes : <<i[1], e>> \in D <=> srv[i[1]].units[e] > 0
  BY DEF SplitRight
<1>2. E \in SUBSET D /\ IsFiniteSet(E)
  <2>1. E \in SUBSET (Ids \X Dishes) /\ E \in SUBSET D
    BY <1>1
  <2>2. QED
    BY <2>1, FiniteIds, FS_Subset
<1>3. A \in SUBSET Ids /\ IsFiniteSet(A)
  BY FiniteIds, FS_Subset DEF ActiveIn
<1>4. P \in SUBSET A
  BY <1>2
<1>5. ASSUME NEW o \in A PROVE part[o] = srv[o].units[d] /\ part[o] \in Nat
  <2>1. srv[o].units \in [Dishes -> Nat]
    BY <1>3 DEF ServerRight, Copies, Units
  <2>2. QED
    BY <2>1
<1>6. ASSUME NEW o \in A \ P PROVE part[o] = 0
  <2>1. PICK i \in D : i[1] = o
    OBVIOUS
  <2>2. <<o, d>> \notin D
    <3>1. SUFFICES ASSUME <<o, d>> \in D PROVE FALSE
      OBVIOUS
    <3>2. <<o, d>> \in E /\ <<o, d>>[1] = o
      BY <3>1
    <3>3. QED
      BY <3>2
  <2>3. ~(srv[o].units[d] > 0)
    BY <1>1, <2>1, <2>2
  <2>4. part[o] = srv[o].units[d] /\ part[o] \in Nat
    BY <1>5
  <2> HIDE DEF part
  <2>5. QED
    BY <2>3, <2>4
<1>7. ASSUME NEW i \in E PROVE h[i] = i[1] /\ h[i] \in P /\ i = <<i[1], d>>
  <2>1. i \in Ids \X Dishes /\ i[2] = d
    BY <1>1
  <2>2. QED
    BY <2>1
<1>8. /\ h \in [E -> P] /\ \A i, j \in E : h[i] = h[j] => i = j
      /\ \A o \in P : \E i \in E : h[i] = o
  BY <1>7
<1>9. ASSUME NEW i \in E PROVE columns[i] = part[h[i]]
  <2>1. i \in D /\ i[2] = d /\ h[i] = i[1] /\ i[1] \in A
    BY <1>2, <1>4, <1>7
  <2>2. columns[i] = srv[i[1]].units[d]
    BY <1>1, <2>1
  <2>3. QED
    BY <1>5, <2>1, <2>2
<1>10. UnitsOn(srv, d) = SumFunctionOnSet(part, DOMAIN part) /\ DOMAIN part = A
  BY Zenon DEF UnitsOn, SumFunction
<1> HIDE DEF A, E, P, part, h
<1>11. SumFunctionOnSet(part, A) = SumFunctionOnSet(part, P)
  <2>1. \A o \in A : part[o] \in Int
    BY <1>5
  <2>2. QED
    BY <1>3, <1>4, <1>6, <2>1, SumPart
<1>12. SumFunctionOnSet(part, P) = SumFunctionOnSet(columns, E)
  <2>1. \A o \in P : part[o] \in Int
    BY <1>4, <1>5
  <2>2. QED
    BY <1>2, <1>8, <1>9, <2>1, SumRename
<1>13. QED
  BY <1>10, <1>11, <1>12 DEF E

\* The new orders are the checks.
LEMMA ChecksAreOrders ==
    ASSUME ServerRight, NEW D, NEW splits, SplitRight(splits, D, srv), SplitTable(splits),
           NEW d \in Dishes, NEW rows, \A c \in DOMAIN splits : rows[c] = UnitsOf(splits[c])[d]
    PROVE  UnitsOn(srv', d) = SumFunctionOnSet(rows, DOMAIN splits)
<1> DEFINE A == ActiveIn(srv')
           S == DOMAIN splits
           part == [o \in A |-> srv'[o].units[d]]
<1>1. PICK n \in 0 .. MaxOrders : InOrder(srv, n)
  BY DEF ServerRight
<1> DEFINE h == [c \in S |-> n + c]
<1>2. srv' = AfterSplit(srv, splits) /\ Used + Len(splits) <= MaxOrders
  BY DEF SplitTable, AfterSplit, Splittable
<1>3. Used = n /\ Free = {o \in Ids : o > n}
  BY <1>1, NoneUsed
<1>4. D \in SUBSET (Ids \X Dishes) /\ Table(splits, D)
  BY DEF SplitRight
<1>5. /\ S = 1 .. Len(splits) /\ Len(splits) \in Nat /\ n \in Nat /\ MaxOrders \in Nat
      /\ \A c \in S : splits[c] \in [D -> Nat]
  BY <1>4, TableShape, BillAssumption
<1>6. IsFiniteSet(S)
  BY <1>5, FS_Interval
<1>7. /\ \A o \in NewIds(splits) : srv'[o] = Order("active", UnitsOf(splits[o - n]))
      /\ \A o \in Ids \ NewIds(splits) :
           srv'[o].status = IF srv[o].status = "active" THEN "cancelled" ELSE srv[o].status
  BY <1>2, <1>3, <1>4, SplitMakes DEF ServerRight
<1>8. \A o \in Ids : o \in NewIds(splits) <=> n < o /\ o <= n + Len(splits)
  BY <1>3, <1>5 DEF NewIds, Ids
<1>9. A = NewIds(splits)
  <2>1. ASSUME NEW o \in NewIds(splits) PROVE o \in Ids /\ srv'[o].status = "active"
    <3> DEFINE u == UnitsOf(splits[o - n])
    <3>1. srv'[o] = Order("active", u)
      BY <1>7
    <3> HIDE DEF u
    <3>2. QED
      BY <3>1 DEF Order, NewIds, Free
  <2>2. ASSUME NEW o \in Ids \ NewIds(splits) PROVE srv'[o].status # "active"
    BY <1>7
  <2>3. QED
    BY <2>1, <2>2 DEF ActiveIn
<1>10. A \in SUBSET Ids
  BY DEF ActiveIn
<1>11. ASSUME NEW c \in S PROVE h[c] = n + c /\ h[c] \in A /\ part[h[c]] = rows[c]
  <2>1. h[c] = n + c
    OBVIOUS
  <2>2. n + c \in Ids /\ n < n + c /\ n + c <= n + Len(splits) /\ (n + c) - n = c
    BY <1>2, <1>3, <1>5 DEF Ids
  <2>3. n + c \in A
    BY <1>8, <1>9, <2>2
  <2> DEFINE u == UnitsOf(splits[c])
  <2>4. srv'[n + c] = Order("active", u)
    BY <1>7, <1>9, <2>2, <2>3
  <2>5. rows[c] = u[d]
    OBVIOUS
  <2> HIDE DEF u
  <2>6. srv'[n + c].units = u
    BY <2>4 DEF Order
  <2>7. part[n + c] = srv'[n + c].units[d]
    BY <2>3
  <2>8. QED
    BY <2>1, <2>3, <2>5, <2>6, <2>7
<1>12. \A c \in S : rows[c] \in Int
  <2>1. ASSUME NEW c \in S PROVE rows[c] \in Int
    <3>1. UnitsOf(splits[c]) \in Units
      BY <1>4, <1>5, UnitsOfType
    <3>2. QED
      BY <3>1 DEF Units
  <2>2. QED
    BY <2>1
<1>13. ASSUME NEW o \in A PROVE \E c \in S : h[c] = o
  <2>1. o \in Nat /\ n < o /\ o <= n + Len(splits)
    BY <1>8, <1>9, <1>10, FiniteIds
  <2>2. o - n \in S /\ n + (o - n) = o
    BY <1>5, <2>1
  <2>3. QED
    BY <1>11, <2>2
<1>14. h \in [S -> A] /\ \A i, j \in S : h[i] = h[j] => i = j
  <2>1. DOMAIN h = S /\ \A c \in S : h[c] \in A /\ h[c] = n + c
    BY <1>11
  <2>2. h \in [S -> A]
    BY <2>1
  <2>3. \A i \in S : i \in Nat
    BY <1>5
  <2> HIDE DEF h, A, S
  <2>4. QED
    BY <1>5, <2>1, <2>2, <2>3
<1>15. \A o \in A : part[o] \in Int
  <2>1. ASSUME NEW o \in A PROVE part[o] \in Int
    <3>1. PICK c \in S : h[c] = o
      BY <1>13
    <3>2. QED
      BY <1>11, <1>12, <3>1
  <2>2. QED
    BY <2>1
<1>16. UnitsOn(srv', d) = SumFunctionOnSet(part, DOMAIN part) /\ DOMAIN part = A
  BY Zenon DEF UnitsOn, SumFunction
<1> HIDE DEF A, part, h, S
<1>17. SumFunctionOnSet(part, A) = SumFunctionOnSet(rows, S)
  <2>1. \A c \in S : rows[c] = part[h[c]]
    BY <1>11
  <2>2. \A o \in A : \E c \in S : h[c] = o
    BY <1>13
  <2>3. QED
    BY <1>6, <1>14, <1>15, <2>1, <2>2, SumRename
<1>18. QED
  BY <1>16, <1>17 DEF S

\* A split keeps what is on the bill, dish by dish.
LEMMA SplitBalances ==
    ASSUME ServerRight, NEW D, NEW splits, SplitRight(splits, D, srv), SplitTable(splits),
           ActiveIn(srv) = {i[1] : i \in D}, NEW d \in Dishes
    PROVE  UnitsOn(srv', d) = UnitsOn(srv, d)
<1> DEFINE rows == [c \in DOMAIN splits |-> UnitsOf(splits[c])[d]]
           columns == [i \in D |-> Shared(splits, i)]
<1>1. \A c \in DOMAIN splits : rows[c] = UnitsOf(splits[c])[d]
  OBVIOUS
<1>2. \A i \in D : i[2] = d => columns[i] = Shared(splits, i)
  OBVIOUS
<1> HIDE DEF rows, columns
<1>3. D \in SUBSET (Ids \X Dishes) /\ Table(splits, D)
  BY DEF SplitRight
<1>4. UnitsOn(srv', d) = SumFunctionOnSet(rows, DOMAIN splits)
  BY <1>1, ChecksAreOrders
<1>5. UnitsOn(srv, d) = SumFunctionOnSet(columns, {i \in D : i[2] = d})
  BY <1>2, ItemsBalance
<1>6. SumFunctionOnSet(rows, DOMAIN splits) = SumFunctionOnSet(columns, {i \in D : i[2] = d})
  BY <1>1, <1>2, <1>3, RowsBalance
<1>7. QED
  BY <1>4, <1>5, <1>6

\* A job goes from the POST to the reads by its own request being accepted.
LEMMA OnlyPosted ==
    ASSUME IInv, [Next]_vars, NEW j \in Slots, jobs[j].stage = "post", jobs'[j].stage = "read"
    PROVE  Posted(j)
<1>1. PICK X : jobs \in [Slots -> JobTypes(X)]
  BY DEF IInv, JobsOK
<1>2. \A k \in Slots : jobs[k] \in JobTypes(X)
  BY <1>1
<1>3. NoJob.stage = "post"
  BY DEF NoJob
<1>4. Orphaned[j].stage = "post"
  <2>1. [jobs[j] EXCEPT !.own = FALSE].stage = "post"
    BY <1>2 DEF JobTypes
  <2>2. QED
    BY <2>1 DEF Orphaned
<1>5. ASSUME UNCHANGED jobs PROVE FALSE
  BY <1>5
<1>6. ASSUME NEW k \in Slots, NEW r, jobs' = [jobs EXCEPT ![k] = r], r.stage = "post"
      PROVE  FALSE
  BY <1>1, <1>6
<1>7. ASSUME jobs' = Orphaned \/ \E k \in Slots : jobs' = [Orphaned EXCEPT ![k] = NoJob]
      PROVE  FALSE
  BY <1>3, <1>4, <1>7 DEF Orphaned
<1>8. ASSUME NEW kind, NEW todo, NEW cash, NEW job,
             job = Job(kind, todo, cash)
             \/ job = [Job(kind, todo, cash) EXCEPT !.copies = seen, !.splits = Splits],
             Start(job)
      PROVE  FALSE
  <2> DEFINE bill == [o \in Ids |-> IF o \in todo
                                   THEN [amount |-> Charge(o, cash), fee |-> orderSvc(o)] ELSE None]
             click == Job(kind, todo, cash)
  <2>0. click = [kind |-> kind, todo |-> todo, stage |-> "post", own |-> TRUE, listed |-> orders,
                 bill |-> bill, copies |-> <<>>, splits |-> <<>>]
    BY DEF Job
  <2> HIDE DEF bill, click
  <2>1. job.stage = "post"
    <3>1. job = click \/ job = [click EXCEPT !.copies = seen, !.splits = Splits]
      BY <1>8 DEF click
    <3>2. ASSUME NEW a, NEW b PROVE [click EXCEPT !.copies = a, !.splits = b].stage = "post"
      BY <2>0
    <3>3. click.stage = "post"
      BY <2>0
    <3>4. [click EXCEPT !.copies = seen, !.splits = Splits].stage = "post"
      BY <3>2, Zenon
    <3>5. QED
      BY <3>1, <3>3, <3>4
  <2>2. PICK k \in Slots : jobs' = [jobs EXCEPT ![k] = job]
    BY <1>8 DEF Start
  <2>3. QED
    BY <1>6, <2>1, <2>2
<1>9. CASE ScreenStep
  <2>1. CASE pay \/ payAll \/ confirmSplit
    BY <1>8, <2>1 DEF pay, payAll, confirmSplit
  <2>2. CASE UNCHANGED jobs \/ jobs' = Orphaned
    BY <1>5, <1>7, <2>2
  <2>3. QED
    BY <1>9, <2>1, <2>2 DEF ScreenStep, SelectOrder, TypeReceived, AskOne, AskAll, CloseDialog,
         enterSplit, EditSplit, leaveSplit, Back, Open
<1>10. ASSUME NEW k \in Running, Posted(k) PROVE k = j
  <2>1. k \in Slots
    BY DEF Running
  <2>2. jobs' = [jobs EXCEPT ![k] = [jobs[k] EXCEPT !.stage = "read"]]
    BY <1>10 DEF Posted
  <2>3. QED
    BY <1>1, <2>1, <2>2
<1>11. ASSUME NEW k \in Running, PostFails(k) \/ ReadFails(k) PROVE FALSE
  BY <1>3, <1>6, <1>11 DEF PostFails, ReadFails, Fails, Running
<1>12. ASSUME NEW k \in Running, Read(k) PROVE FALSE
  <2>1. k \in Slots
    BY DEF Running
  <2>2. CASE Done(k)
    BY <1>3, <1>6, <1>7, <2>1, <2>2 DEF Done
  <2>3. CASE \E rest : jobs' = [jobs EXCEPT ![k] = [jobs[k] EXCEPT !.stage = "post", !.todo = rest]]
    <3>1. PICK rest : jobs' = [jobs EXCEPT ![k] = [jobs[k] EXCEPT !.stage = "post", !.todo = rest]]
      BY <2>3
    <3>2. [jobs[k] EXCEPT !.stage = "post", !.todo = rest].stage = "post"
      BY <1>2, <2>1 DEF JobTypes
    <3>3. QED
      BY <1>6, <2>1, <3>1, <3>2
  <2>4. QED
    BY <1>12, <2>2, <2>3 DEF Read
<1>13. ASSUME \/ OthersOrder
              \/ \E o \in Ids, status \in {"paid", "cancelled"} : OthersClose(o, status)
              \/ \E o : Follow(o)
              \/ UNCHANGED vars
       PROVE  FALSE
  BY <1>5, <1>13 DEF OthersOrder, OthersClose, Follow, vars
<1>14. QED
  BY <1>9, <1>10, <1>11, <1>12, <1>13 DEF Next, JobStep

\* A split the server accepts leaves on the table's bill what was on it, dish by dish,
\* for any table, after any editing and whatever other devices do between the click and
\* the request, if the table's orders are still those the editor was opened with
\* (TableSession.tsx:662-735, orders.py:468-535).
THEOREM SplitsKeepTheBill == Spec => SplitKeepsUnits
<1>1. ASSUME BInv, [Next]_vars, NEW j \in Slots, jobs[j].kind = "split", jobs[j].stage = "post",
             jobs'[j].stage = "read",
             ActiveIn(srv) = {i[1] : i \in DOMAIN jobs[j].splits[1]}, NEW d \in Dishes
      PROVE  UnitsOn(srv', d) = UnitsOn(srv, d)
  <2> DEFINE splits == jobs[j].splits
  <2>1. Posted(j)
    BY <1>1, OnlyPosted DEF BInv
  <2>2. SplitTable(splits)
    BY <1>1, <2>1 DEF Posted, Handle
  <2>3. ServerRight /\ Len(splits) >= 2 /\ \E D : SplitRight(splits, D, srv)
    BY <1>1 DEF BInv, JobRight
  <2>4. PICK D : SplitRight(splits, D, srv)
    BY <2>3
  <2>5. DOMAIN splits[1] = D
    <3>1. Table(splits, D)
      BY <2>4 DEF SplitRight
    <3>2. DOMAIN splits = 1 .. Len(splits) /\ Len(splits) \in Nat
          /\ \A c \in DOMAIN splits : splits[c] \in [D -> Nat]
      BY <3>1, TableShape
    <3> HIDE DEF splits
    <3>3. 1 \in DOMAIN splits
      BY <2>3, <3>2
    <3>4. QED
      BY <3>2, <3>3
  <2>6. ActiveIn(srv) = {i[1] : i \in D}
    BY <1>1, <2>5
  <2> HIDE DEF splits
  <2>7. QED
    BY <2>2, <2>3, <2>4, <2>6, SplitBalances
<1>2. BInv /\ [Next]_vars =>
        [\A j \in Slots :
         /\ jobs[j].kind = "split" /\ jobs[j].stage = "post"
         /\ jobs'[j].stage = "read"
         /\ ActiveIn(srv) = {i[1] : i \in DOMAIN jobs[j].splits[1]}
         => \A d \in Dishes : UnitsOn(srv', d) = UnitsOn(srv, d)]_vars
  BY <1>1
<1>3. QED
  BY BHolds, <1>2, PTL DEF Spec, SplitKeepsUnits

=============================================================================
