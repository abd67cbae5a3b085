-------------------------------- MODULE Bill --------------------------------
(***************************************************************************)
(* The payment screen of a table (WaiterTablePayment of                    *)
(* frontend/src/screens/TableSession.tsx): checks are split, one or all of *)
(* them paid, while other devices add, pay and cancel orders of the table, *)
(* live events bring the browser's copies up to date one by one, and the   *)
(* waiter may leave the screen with requests under way.                    *)
(*                                                                         *)
(* A run of pay, payAll or confirmSplit is a job.  It has one request out  *)
(* at a time, first the POST, then the reads that follow it, and goes on   *)
(* after its screen is gone.                                               *)
(***************************************************************************)
EXTENDS SplitEditor, FiniteSets

CONSTANTS
    Dishes,       \* the dishes of the table
    Price,        \* their prices, in hundredths
    Opening,      \* the units of the orders the table starts with, a sequence
    Extra,        \* the units of an order another waiter may add
    Rate,         \* service in percent: 10, or 0 for takeaway
    Typed,        \* the numbers a waiter types
    Tendered,     \* the amounts a waiter types as received in cash, 0: none
    SumsAbove,    \* order totals whose sum with their service, added as doubles, lies above
    SumsBelow,    \* or below the number of two decimals that it should be
    TiesLost,     \* order totals whose service is half a hundredth more than whole ones, and
                  \* a little less as a double
    MaxOrders,    \* bound: orders at the table
    MaxChecks,    \* bound: checks in the editor
    MaxJobs,      \* bound: jobs under way at once
    MaxMoves,     \* bound: steps of other devices, failures of the network and jobs started
                  \* while one left behind is still under way
    None          \* null

Ids == 1 .. MaxOrders
Slots == 1 .. MaxJobs
Units == [Dishes -> Nat]

ASSUME BillAssumption ==
    /\ IsFiniteSet(Dishes) /\ Price \in [Dishes -> Nat]
    /\ Opening \in Seq(Units) /\ Extra \in Units
    /\ Rate \in Nat /\ Typed \subseteq Int /\ Tendered \subseteq Nat
    /\ UNION {SumsAbove, SumsBelow, TiesLost} \subseteq Nat /\ SumsAbove \cap SumsBelow = {}
    /\ {MaxOrders, MaxChecks, MaxJobs, MaxMoves} \subseteq Nat
    /\ Len(Opening) <= MaxOrders

VARIABLES
    srv,         \* the orders of the table on the server
    seen,        \* the copies in state.orders
    events,      \* orders of which an event is to be followed up, and would change the copy
    pays,        \* the server's payments: amount received (see Tenths) and fee, or None
    moves,       \* what is left of MaxMoves
    screen,      \* "bill", "split", or "away": another screen is mounted
    dialog,      \* the open confirmation: "one", "all" or "none"
    selected,    \* selectedOrderId
    received,    \* the amount typed as received
    qty,         \* splitItems: the units of each item <<order, dish>>
    checks,      \* checkQtys
    processing,  \* disables the buttons that start a job
    jobs         \* jobs under way

editor == <<qty, checks>>
form == <<screen, dialog, selected, received, processing>>
server == <<srv, pays, events>>
vars == <<srv, seen, events, pays, moves, screen, dialog, selected, received,
          qty, checks, processing, jobs>>

-----------------------------------------------------------------------------
(* Orders and amounts.                                                     *)

Order(status, units) == [status |-> status, units |-> units]
ActiveIn(orders) == {o \in Ids : orders[o].status = "active"}

\* An id that no order has yet.
Absent == Order("none", [d \in Dishes |-> 0])

\* The orders the screen lists; ids follow the time of creation.
orders == ActiveIn(seen)

Total(units) == SumFunction([d \in Dishes |-> units[d] * Price[d]])
subtotal(o) == Total(seen[o].units)

\* Math.round to hundredths, half a hundredth up unless the double has lost it.
Rounded(t) == (2 * t * Rate + (IF t \in TiesLost THEN 99 ELSE 100)) \div 200
orderSvc(o) == Rounded(subtotal(o))

\* Amounts are doubles.  Tenths of a hundredth are enough to tell a number of two
\* decimals from one that a sum of doubles has moved up or down a little.
Tenths(hundredths) == 10 * hundredths
Noise(t) == CASE t \in SumsAbove -> 1 [] t \in SumsBelow -> -1 [] OTHER -> 0
due(o) == subtotal(o) + orderSvc(o)
orderTotal(o) == Tenths(due(o)) + Noise(subtotal(o))
allTotal == SumFunction([o \in orders |-> due(o)])

\* What the guest's receipt for all checks says: the service is rounded once.
NoService == SumFunction([o \in orders |-> subtotal(o)])
receiptTotal == LET sub == SumFunction([o \in orders |-> subtotal(o)]) IN sub + Rounded(sub)

First(S) == CHOOSE o \in S : \A p \in S : o <= p
selectedOrder == IF selected \in orders THEN selected ELSE First(orders)

\* A job keeps what the closures of its click saw: the orders it is to pay with
\* amount and fee, what was listed, the copies, the checks.
AsTyped(o, cash) == IF cash > 0 THEN Tenths(cash) ELSE orderTotal(o)
Charge(o, cash) == IF Tenths(cash) >= orderTotal(o) THEN Tenths(cash) ELSE orderTotal(o)

Job(kind, todo, cash) ==
    [kind |-> kind, todo |-> todo, stage |-> "post", own |-> TRUE, listed |-> orders,
     bill |-> [o \in Ids |-> IF o \in todo
                            THEN [amount |-> Charge(o, cash), fee |-> orderSvc(o)] ELSE None],
     copies |-> <<>>, splits |-> <<>>]
NoJob == [kind |-> "none", todo |-> {}, stage |-> "post", own |-> FALSE, listed |-> {},
          bill |-> <<>>, copies |-> <<>>, splits |-> <<>>]
Running == {j \in Slots : jobs[j].kind # "none"}

Init ==
    /\ srv = [o \in Ids |-> IF o <= Len(Opening) THEN Order("active", Opening[o]) ELSE Absent]
    /\ seen = srv /\ events = {}
    /\ pays = [o \in Ids |-> None]
    /\ moves = MaxMoves
    /\ screen = "bill" /\ dialog = "none" /\ selected = None /\ received = 0
    /\ qty = <<>> /\ checks = <<>>
    /\ processing = FALSE
    /\ jobs = [j \in Slots |-> NoJob]

-----------------------------------------------------------------------------
(* The screen.  Without active orders it shows only the way back.          *)

BillShown == screen = "bill" /\ orders # {} /\ dialog = "none"
SplitShown == screen = "split" /\ orders # {}

SelectOrder(o) ==
    /\ BillShown /\ Cardinality(orders) > 1
    /\ o \in orders
    /\ selected' = o
    /\ UNCHANGED <<server, seen, moves, screen, dialog, received, editor, processing, jobs>>

TypeReceived(v) ==
    /\ BillShown
    /\ received' = v
    /\ UNCHANGED <<server, seen, moves, screen, dialog, selected, editor, processing, jobs>>

AskOne ==
    /\ BillShown
    /\ ~processing
    /\ ~(received > 0 /\ Tenths(received) < orderTotal(selectedOrder))
    /\ dialog' = "one"
    /\ UNCHANGED <<server, seen, moves, screen, selected, received, editor, processing, jobs>>

AskAll ==
    /\ BillShown
    /\ ~processing
    /\ Cardinality(orders) > 1
    /\ dialog' = "all"
    /\ UNCHANGED <<server, seen, moves, screen, selected, received, editor, processing, jobs>>

CloseDialog ==
    /\ screen = "bill" /\ dialog # "none"
    /\ dialog' = "none"
    /\ UNCHANGED <<server, seen, moves, screen, selected, received, editor, processing, jobs>>

enterSplit ==
    /\ BillShown
    /\ LET q == [i \in {x \in orders \X Dishes : seen[x[1]].units[x[2]] > 0} |->
                    seen[i[1]].units[i[2]]]
       IN  qty' = q /\ checks' = Entered(q)
    /\ screen' = "split"
    /\ UNCHANGED <<server, seen, moves, dialog, selected, received, processing, jobs>>

EditSplit ==
    /\ SplitShown
    /\ \/ Len(checks) < MaxChecks /\ checks' = addCheck(checks, qty)
       \/ \E c \in DOMAIN checks :
            \/ checks' = removeCheck(checks, c)
            \/ \E i \in DOMAIN qty :
                 \/ checks' = incr(checks, c, i)
                 \/ checks' = decr(checks, c, i)
                 \/ \E v \in Typed : checks' = handleInput(checks, c, i, v, qty)
    /\ UNCHANGED <<server, seen, moves, form, qty, jobs>>

leaveSplit ==
    /\ SplitShown
    /\ screen' = "bill" /\ qty' = <<>> /\ checks' = <<>>
    /\ UNCHANGED <<server, seen, moves, dialog, selected, received, processing, jobs>>

\* Leaving unmounts the screen: its state is gone, and what its jobs still set is
\* lost.  (qty and checks are cleared when the editor closes: they are not read
\* before enterSplit sets them.)
Unmounted ==
    /\ screen' = "away" /\ dialog' = "none" /\ selected' = None /\ received' = 0
    /\ processing' = FALSE
    /\ qty' = <<>> /\ checks' = <<>>
Orphaned == [j \in Slots |-> [jobs[j] EXCEPT !.own = FALSE]]
Back ==
    /\ screen # "away" /\ (BillShown \/ orders = {})
    /\ Unmounted
    /\ jobs' = Orphaned
    /\ UNCHANGED <<server, seen, moves>>

\* The table's session offers the payment screen while it lists orders.
Open ==
    /\ screen = "away" /\ orders # {}
    /\ screen' = "bill"
    /\ UNCHANGED <<server, seen, moves, dialog, selected, received, editor, processing, jobs>>

-----------------------------------------------------------------------------
(* Starting a job.                                                         *)

\* A second job is possible when the screen of the first was left.
Start(job) ==
    /\ IF Running = {} THEN UNCHANGED moves ELSE moves > 0 /\ moves' = moves - 1
    /\ \E j \in Slots :
         /\ j \notin Running
         /\ \A k \in Slots : k < j => k \in Running
         /\ jobs' = [jobs EXCEPT ![j] = job]
    /\ processing' = TRUE
    /\ UNCHANGED <<server, seen, screen, dialog, selected, received, editor>>

pay ==
    /\ screen = "bill" /\ orders # {} /\ dialog = "one" /\ ~processing
    /\ Start(Job("pay", {selectedOrder}, received))

payAll ==
    /\ screen = "bill" /\ orders # {} /\ dialog = "all" /\ ~processing
    /\ Start(Job("payAll", orders, 0))

\* Checks without units are left out; fewer than two are refused on the spot.
HasUnits(check) == \E i \in DOMAIN qty : check[i] > 0
Splits ==
    LET among[n \in 0 .. Len(checks)] ==
            IF n = 0 THEN <<>>
            ELSE IF HasUnits(checks[n]) THEN Append(among[n - 1], checks[n])
            ELSE among[n - 1]
    IN  among[Len(checks)]
confirmSplit ==
    /\ SplitShown /\ ~processing
    /\ Len(Splits) >= 2
    /\ Start([Job("split", {}, 0) EXCEPT !.copies = seen, !.splits = Splits])

-----------------------------------------------------------------------------
(* The end of a job: what its screen, if still mounted, and the route show.*)

\* finally: the button works again and the dialog is closed.
ReleasedByAny(j) ==
    /\ processing' = FALSE
    /\ dialog' = IF jobs[j].kind = "split" THEN dialog ELSE "none"
Released(j) ==
    IF jobs[j].own
    THEN /\ processing' = FALSE
         /\ dialog' = IF jobs[j].kind = "split" THEN dialog ELSE "none"
    ELSE UNCHANGED <<processing, dialog>>

Fails(j) ==
    /\ jobs' = [jobs EXCEPT ![j] = NoJob]
    /\ Released(j)
    /\ UNCHANGED <<screen, selected, received, editor>>

\* After the last check the route goes to the tables, whichever screen is shown.
LeavesTwo(job) == job.kind = "payAll" \/ Cardinality(job.listed) <= 2
Leaves(job) == job.kind = "payAll" \/ Cardinality(job.listed) <= 1

Done(j) ==
    LET job == jobs[j]
        over == [jobs EXCEPT ![j] = NoJob]
    IN  CASE job.kind = "split" ->
                /\ Released(j)
                /\ IF job.own THEN screen' = "bill" /\ qty' = <<>> /\ checks' = <<>>
                              ELSE UNCHANGED <<screen, editor>>
                /\ jobs' = over
                /\ UNCHANGED <<selected, received>>
          [] job.kind # "split" /\ Leaves(job) ->
                /\ Unmounted
                /\ jobs' = [Orphaned EXCEPT ![j] = NoJob]
          [] OTHER ->
                /\ Released(j)
                /\ IF job.own THEN selected' = None /\ received' = 0
                              ELSE UNCHANGED <<selected, received>>
                /\ jobs' = over
                /\ UNCHANGED <<screen, editor>>

-----------------------------------------------------------------------------
(* The requests of a job.                                                  *)

Next_(job) == First(job.todo)

\* The server takes positive amounts of at most two decimals only, and a payment for an
\* active order that covers it.  (Orders here have been cooked: one that has not is
\* refused too.)
TwoDecimals(amount) == amount % 10 = 0
Payable(o, bill) ==
    /\ bill.amount > 0 /\ TwoDecimals(bill.amount)
    /\ srv[o].status = "active"
    /\ bill.amount >= Tenths(Total(srv[o].units) + bill.fee)

PayOrder(o, bill) ==
    /\ Payable(o, bill)
    /\ srv' = [srv EXCEPT ![o].status = "paid"]
    /\ pays' = [pays EXCEPT ![o] = bill]

\* It splits the table if every item mentioned belongs to an active order and its
\* units are shared out completely: all active orders are cancelled, and each
\* check becomes an order of its own.  Only the new orders are announced.  Ids are
\* given in order and never twice.
Free == {o \in Ids : srv[o].status = "none"}
Used == Cardinality(Ids \ Free)
Mentioned(splits) == UNION {{i \in DOMAIN splits[c] : splits[c][i] > 0} : c \in DOMAIN splits}
Splittable(splits) ==
    /\ \A i \in Mentioned(splits) :
         /\ i[1] \in ActiveIn(srv)
         /\ Shared(splits, i) = srv[i[1]].units[i[2]]
    /\ Used + Len(splits) <= MaxOrders

UnitsOf(check) ==
    [d \in Dishes |-> SumFunction([i \in {x \in DOMAIN check : x[2] = d} |-> check[i]])]
Voided(orders_, S) ==
    [o \in Ids |-> IF o \in S THEN [orders_[o] EXCEPT !.status = "void"] ELSE orders_[o]]
StillOpen(orders_, S) == orders_
Closed(orders_, S) ==
    [o \in Ids |-> IF o \in S THEN [orders_[o] EXCEPT !.status = "cancelled"] ELSE orders_[o]]
NewIds(splits) == {o \in Free : o - Used \in DOMAIN splits}
WithChecks(orders_, splits) ==
    [o \in Ids |-> IF o \in NewIds(splits)
                   THEN Order("active", UnitsOf(splits[o - Used])) ELSE orders_[o]]

SplitTable(splits) ==
    /\ Splittable(splits)
    /\ srv' = WithChecks(Closed(srv, ActiveIn(srv)), splits)
    /\ UNCHANGED pays

Announced(job) == IF job.kind = "split" THEN NewIds(job.splits) ELSE {Next_(job)}
Handle(job) ==
    IF job.kind = "split" THEN SplitTable(job.splits)
    ELSE PayOrder(Next_(job), job.bill[Next_(job)])

\* The POST is accepted.  After a split the list is put together from the copies
\* of the click and the new orders; events that came meanwhile are undone by that.
Posted(j) ==
    /\ jobs[j].stage = "post"
    /\ Handle(jobs[j])
    /\ jobs' = [jobs EXCEPT ![j] = [jobs[j] EXCEPT !.stage = "read"]]
    /\ seen' = IF jobs[j].kind = "split"
               THEN WithChecks(Closed(jobs[j].copies, ActiveIn(jobs[j].copies)), jobs[j].splits)
               ELSE seen
    /\ events' = IF jobs[j].kind = "split" THEN events ELSE events \cup Announced(jobs[j])
    /\ UNCHANGED <<moves, form, editor>>

\* It is refused, or the network fails before or after it is handled.
Refused(job) == IF job.kind = "split" THEN ~Splittable(job.splits)
                ELSE ~Payable(Next_(job), job.bill[Next_(job)])
PostFails(j) ==
    /\ jobs[j].stage = "post"
    /\ \/ Refused(jobs[j]) /\ UNCHANGED <<server, moves>>
       \/ /\ moves > 0 /\ moves' = moves - 1
          /\ \/ Handle(jobs[j]) /\ events' = events \cup Announced(jobs[j])
             \/ UNCHANGED server
    /\ Fails(j)
    /\ UNCHANGED seen

\* The order paid and the tables are read again; payAll goes on with the next one.
Read(j) ==
    /\ jobs[j].stage = "read"
    /\ LET rest == jobs[j].todo \ {Next_(jobs[j])}
       IN  IF jobs[j].kind = "split" THEN Done(j) /\ UNCHANGED <<seen, events>>
           ELSE /\ seen' = [seen EXCEPT ![Next_(jobs[j])] = srv[Next_(jobs[j])]]
                /\ events' = events \ {Next_(jobs[j])}
                /\ IF rest = {} THEN Done(j)
                   ELSE /\ jobs' = [jobs EXCEPT ![j] = [jobs[j] EXCEPT !.stage = "post", !.todo = rest]]
                        /\ UNCHANGED <<form, editor>>
    /\ UNCHANGED <<srv, pays, moves>>

\* Reading fails: the job fails although the server has done what it asked.
ReadFails(j) ==
    /\ jobs[j].stage = "read"
    /\ moves > 0 /\ moves' = moves - 1
    /\ Fails(j)
    /\ UNCHANGED <<server, seen>>

-----------------------------------------------------------------------------
(* Other devices, and the events they cause.                               *)

OthersOrder ==
    /\ moves > 0 /\ moves' = moves - 1
    /\ \E o \in Free :
         /\ o = Used + 1
         /\ srv' = [srv EXCEPT ![o] = Order("active", Extra)]
         /\ events' = events \cup {o}
    /\ UNCHANGED <<pays, seen, form, editor, jobs>>

OthersClose(o, status) ==
    /\ moves > 0 /\ moves' = moves - 1
    /\ o \in ActiveIn(srv)
    /\ srv' = [srv EXCEPT ![o].status = status]
    /\ events' = events \cup {o}
    /\ UNCHANGED <<pays, seen, form, editor, jobs>>

\* The order an event names is read and put into the list.
Follow(o) ==
    /\ o \in events
    /\ seen' = [seen EXCEPT ![o] = srv[o]]
    /\ events' = events \ {o}
    /\ UNCHANGED <<srv, pays, moves, form, editor, jobs>>

-----------------------------------------------------------------------------

ScreenStep ==
    \/ \E o \in Ids : SelectOrder(o)
    \/ \E v \in Tendered : TypeReceived(v)
    \/ AskOne \/ AskAll \/ CloseDialog
    \/ enterSplit \/ EditSplit \/ leaveSplit
    \/ Back \/ Open
    \/ pay \/ payAll \/ confirmSplit

JobStep(j) == Posted(j) \/ PostFails(j) \/ Read(j) \/ ReadFails(j)

Next ==
    \/ ScreenStep
    \/ \E j \in Running : JobStep(j)
    \/ OthersOrder
    \/ \E o \in Ids, status \in {"paid", "cancelled"} : OthersClose(o, status)
    \/ \E o \in Ids : Follow(o)

Spec == Init /\ [][Next]_vars

-----------------------------------------------------------------------------
(* What should hold.                                                       *)

\* The types of the screen's state, of its jobs and of the server's orders.
Copies == [Ids -> [status : {"none", "active", "paid", "cancelled"}, units : Units]]
Payments == [Ids -> [amount : Nat, fee : Nat] \cup {None}]

TypeOK ==
    /\ {srv, seen} \subseteq Copies
    /\ events \subseteq Ids
    /\ pays \in Payments
    /\ moves \in 0 .. MaxMoves
    /\ screen \in {"bill", "split", "away"} /\ dialog \in {"none", "one", "all"}
    /\ selected \in Ids \cup {None} /\ received \in Nat
    /\ processing \in BOOLEAN
    /\ \A j \in Running :
         /\ jobs[j].kind \in {"pay", "payAll", "split"}
         /\ {jobs[j].todo, jobs[j].listed} \subseteq SUBSET Ids
         /\ jobs[j].stage \in {"post", "read"} /\ jobs[j].own \in BOOLEAN
         /\ jobs[j].bill \in Payments
         /\ jobs[j].kind = "split" => jobs[j].copies \in Copies

\* While a bill is split, no sequence of taps and typed numbers loses or invents a
\* unit (TableSession.tsx:669-719): the checks share out exactly what was ordered.
UnitsConserved ==
    screen = "split" =>
        /\ Len(checks) >= 2
        /\ \A i \in DOMAIN qty :
             /\ Shared(checks, i) = qty[i]
             /\ \A c \in DOMAIN checks : checks[c][i] >= 0

\* The screen says that the table is paid, and leaves, only when the server has
\* every order it listed at the click as paid (TableSession.tsx:855-857, 881-882),
\* whatever failed or was done elsewhere meanwhile.
SaysPaidWhenPaid ==
    [][\A j \in Running \ Running' :
         /\ jobs[j].kind # "split"
         /\ screen # "away" /\ screen' = "away"
         => \A o \in jobs[j].listed : srv[o].status = "paid"]_vars

\* What the screen is about to pay is what the table owes, although the check the dialog
\* is about may be another one by the time it is confirmed: the service of that order as
\* the server has it (which takes the fee as it is sent), and an amount that covers both.
\* The server refuses the amount only for its decimals, and only if the sum of that order
\* is one that doubles get wrong (TableSession.tsx:655, 738-742, 843-853, 872-880;
\* pos.py:172-174, schemas.py:385).
AsksTheBill ==
    \A j \in Running : \A o \in jobs[j].todo :
        LET owed == Total(srv[o].units)
            bill == jobs[j].bill[o]
        IN  /\ bill.fee = Rounded(owed)
            /\ IF TwoDecimals(bill.amount) THEN bill.amount >= Tenths(owed + bill.fee)
                                           ELSE owed \in SumsAbove \cup SumsBelow

\* A split the server accepts leaves on the table's bill what was on it, dish by dish,
\* after any editing and with checks left empty, if the table's orders are still those
\* the editor was opened with: one that came later is cancelled with them
\* (TableSession.tsx:662-735, orders.py:468-535).
UnitsOn(orders_, d) == SumFunction([o \in ActiveIn(orders_) |-> orders_[o].units[d]])
SplitKeepsUnits ==
    [][\A j \in Slots :
         /\ jobs[j].kind = "split" /\ jobs[j].stage = "post"
         /\ jobs'[j].stage = "read"
         /\ ActiveIn(srv) = {i[1] : i \in DOMAIN jobs[j].splits[1]}
         => \A d \in Dishes : UnitsOn(srv', d) = UnitsOn(srv, d)]_vars

\* The receipt for all checks rounds the service once, the payments once per check
\* (TableSession.tsx:30-33, 738-745): they differ by at most half a hundredth for
\* the receipt and each check.
ReceiptNearCharge ==
    LET off == receiptTotal - allTotal
    IN  orders # {} => (IF off < 0 THEN -off ELSE off) * 2 <= Cardinality(orders) + 1

\* The buttons are disabled exactly while a job this screen started is under way:
\* none starts beside it, and they come back however it ends; a job left behind by a
\* screen the waiter has closed does not release the next one's
\* (TableSession.tsx:724-735, 840-888).
OneJobPerScreen ==
    LET own == {j \in Slots : jobs[j].own}
    IN  (processing <=> own # {}) /\ \A j, k \in own : j = k

=============================================================================
