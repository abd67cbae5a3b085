------------------------------- MODULE Orders -------------------------------
(***************************************************************************)
(* The order service of the backend (app/routers/orders.py), with the      *)
(* table and menu rows it reads and writes.                                *)
(*                                                                         *)
(* One API process.  The order handlers are coroutines that do not await   *)
(* anything between their first read and their commit, so each of them is  *)
(* one step: it takes effect whole or, when it raises, not at all.  (What  *)
(* several processes can do to each other is the subject of other          *)
(* modules.)  A handler that rejects the request, or that answers it from  *)
(* what is already stored, changes nothing and is not a step.              *)
(*                                                                         *)
(* Rows are never deleted: an order id is a position in `orders`, an item  *)
(* id is a position in its order's `items`.                                *)
(***************************************************************************)
EXTENDS Integers, SequencesExt, Workflow

CONSTANTS
    Waiters, Managers, Cooks,   \* the users, by role (models.py: UserRole)
    Tables,                     \* cafe tables
    Menu,                       \* menu items
    Prices,                     \* prices a menu item may have
    Keys,                       \* client request ids
    None,                       \* an absent table or client request id
    MaxOrders,                  \* bound: order rows ever stored
    MaxLines,                   \* bound: lines in one submitted cart
    MaxQty,                     \* bound: quantity of one submitted line
    NChecks,                    \* checks in one split request
    ItemRequests,               \* statuses a client may send for an item
    Overrides,                  \* may managers override workflow and table status?
    SelfMoves,                  \* may a client "move" an order to its own table?
    PartialSplits               \* may a split request leave items out?

ASSUME RolesAreDisjoint ==
    /\ Waiters \cap Managers = {}
    /\ Waiters \cap Cooks = {}
    /\ Managers \cap Cooks = {}

ASSUME NoneIsNoValue == None \notin Tables \cup Keys

ASSUME Bounds ==
    /\ Prices \subseteq Nat \ {0}
    /\ {MaxOrders, MaxLines, MaxQty} \subseteq Nat \ {0}
    /\ NChecks \in Nat \ {0, 1}
    /\ {Overrides, SelfMoves, PartialSplits} \subseteq BOOLEAN

VARIABLES
    orders,     \* the orders table, with its items and its newest event
    total,      \* the column orders.total_amount
    tables,     \* the column tables.status
    menu        \* the menu_items rows

vars == <<orders, total, tables, menu>>

-----------------------------------------------------------------------------
Users == Waiters \cup Managers \cup Cooks

\* The handler stores any string; the code tells only these two from the rest.
ItemStatuses == {"pending", "ready", "served"}

ASSUME ItemRequestsAreStatuses == ItemRequests \subseteq ItemStatuses

MenuRow == [price : Prices, available : BOOLEAN]

Line == [menu : Menu, qty : 1 .. MaxQty, price : Prices, status : ItemStatuses]

\* `born` orders rows by created_at: rows of one transaction share it.
\* `logged` is the to_status of the newest OrderEvent of the order.
OrderRow ==
    [table    : Tables,
     waiter   : Users,
     key      : Keys \cup {None},
     status   : OrderStatuses,
     readyAt  : BOOLEAN,
     servedAt : BOOLEAN,
     paidAt   : BOOLEAN,
     born     : Nat,
     items    : Seq(Line),
     logged   : OrderStatuses \cup {"none"}]

\* What a client submits: menu items and quantities.
CartLine == [menu : Menu, qty : 1 .. MaxQty]
Carts == UNION {[1 .. n -> CartLine] : n \in 1 .. MaxLines}

-----------------------------------------------------------------------------
(* Reading the rows.                                                       *)

IsActive(o) == orders[o].status \notin FinalStatuses

\* The active orders of a table.
Active(t) == {o \in DOMAIN orders : orders[o].table = t /\ IsActive(o)}

BillPerUnit(items) == SumFunction([i \in DOMAIN items |-> items[i].price])

\* total_amount is the sum of the line totals.
Bill(items) == SumFunction([i \in DOMAIN items |-> items[i].qty * items[i].price])

CartIsAvailable(cart) == \A i \in DOMAIN cart : menu[cart[i].menu].available

\* _rebuild_items: the lines are priced with the menu of this moment.
Priced(cart) ==
    [i \in DOMAIN cart |->
        [menu   |-> cart[i].menu,
         qty    |-> cart[i].qty,
         price  |-> menu[cart[i].menu].price,
         status |-> "pending"]]

FreedRegardless(o, ts) == [ts EXCEPT ![orders[o].table] = "free"]

\* A table is freed when the order that leaves it was its last active one.
TablesWithout(o, ts) ==
    IF Active(orders[o].table) \ {o} = {}
    THEN [ts EXCEPT ![orders[o].table] = "free"]
    ELSE ts

-----------------------------------------------------------------------------
(* Changing one row.                                                       *)

AdvancedSilently(row, s) ==
    [row EXCEPT !.status   = s,
                !.readyAt  = row.readyAt \/ s = "ready",
                !.servedAt = row.servedAt \/ s = "served",
                !.paidAt   = row.paidAt \/ s = "paid"]

\* The row takes status s: its first time there is stamped and an event with
\* to_status s is written.
Advanced(row, s) ==
    [row EXCEPT !.status   = s,
                !.readyAt  = row.readyAt \/ s = "ready",
                !.servedAt = row.servedAt \/ s = "served",
                !.paidAt   = row.paidAt \/ s = "paid",
                !.logged   = s]

AllServed(items) == [i \in DOMAIN items |-> [items[i] EXCEPT !.status = "served"]]

\* Serving an order serves its items.
ServedIf(row, s) == IF s = "served" THEN [row EXCEPT !.items = AllServed(row.items)] ELSE row

WithItemStatus(row, i, s) == [row EXCEPT !.items[i].status = s]

-----------------------------------------------------------------------------
(* The handlers.                                                           *)

\* A request is new unless the user has sent its key before.
NewAmongActive(u, k) ==
    k # None => \A o \in DOMAIN orders : ~(IsActive(o) /\ orders[o].waiter = u /\ orders[o].key = k)

NewRequest(u, k) ==
    k # None => \A o \in DOMAIN orders : ~(orders[o].waiter = u /\ orders[o].key = k)

\* POST /orders, and each record of POST /orders/sync.  A request whose key the
\* user has already used is answered with the stored order and changes nothing.
CreateOrder(u, t, k, cart) ==
    /\ Len(orders) < MaxOrders
    /\ u \in Waiters \cup Managers
    /\ NewRequest(u, k)
    /\ CartIsAvailable(cart)
    /\ orders' = Append(orders,
          [table |-> t, waiter |-> u, key |-> k, status |-> "pending",
           readyAt |-> FALSE, servedAt |-> FALSE, paidAt |-> FALSE,
           born |-> Len(orders) + 1, items |-> Priced(cart), logged |-> "pending"])
    /\ total' = Append(total, Bill(Priced(cart)))
    /\ tables' = [tables EXCEPT ![t] = "occupied"]
    /\ UNCHANGED menu

CanManageOrder(u, o) == u \in Managers \/ (u \in Waiters /\ orders[o].waiter = u)

MoveKeepsOldTable(o, t) == [tables EXCEPT ![t] = "occupied"]

\* The table column after a move: the new table is occupied, then the old one is
\* freed unless ANOTHER active order sits there.  When both are the same table,
\* the second write wins.
TablesAfterMove(o, t) == TablesWithout(o, [tables EXCEPT ![t] = "occupied"])

\* The fields that are set replace those of the row; an edit is logged with the
\* status it leaves alone.
Edited(row, t, cart) ==
    [row EXCEPT !.table  = IF t = None THEN row.table ELSE t,
                !.items  = IF cart = <<>> THEN row.items ELSE Priced(cart),
                !.logged = row.status]

\* PATCH /orders/{id}: t is the new table or None, cart the new items or <<>>.
UpdateOrder(u, o, t, cart) ==
    /\ CanManageOrder(u, o)
    /\ orders[o].status \in {"pending", "in_progress"}
    /\ t = orders[o].table => SelfMoves
    /\ CartIsAvailable(cart)
    /\ orders' = [orders EXCEPT ![o] = Edited(orders[o], t, cart)]
    /\ total' = [total EXCEPT ![o] = IF cart = <<>> THEN total[o] ELSE Bill(Priced(cart))]
    /\ tables' = IF t = None THEN tables ELSE TablesAfterMove(o, t)
    /\ UNCHANGED menu

\* Who may set which status: a manager any from any (overriding the workflow
\* when Overrides); the others only along TRANSITIONS and only to the statuses
\* of their role.
MaySetStatus(u, o, s) ==
    \/ u \in Managers /\ (Overrides \/ s \in TRANSITIONS[orders[o].status])
    \/ /\ s \in TRANSITIONS[orders[o].status]
       /\ \/ u \in Cooks /\ s \in {"in_progress", "ready", "cancelled"}
          \/ u \in Waiters /\ orders[o].waiter = u /\ s \in {"served", "paid", "cancelled"}

\* PATCH /orders/{id}/status, and POST /orders/{id}/cancel with s = "cancelled".
UpdateOrderStatus(u, o, s) ==
    /\ MaySetStatus(u, o, s)
    /\ orders' = [orders EXCEPT ![o] = Advanced(ServedIf(orders[o], s), s)]
    /\ tables' = IF s \in FinalStatuses THEN TablesWithout(o, tables) ELSE tables
    /\ UNCHANGED <<total, menu>>

\* PATCH /orders/{id}/items/{item_id}/status, open to every role.  The order
\* follows its items when all of them are ready or all of them are served.
ItemAdvancesFinal(row, s) ==
    /\ \A i \in DOMAIN row.items : row.items[i].status = s
    /\ \/ s = "ready" /\ row.status = "in_progress"
       \/ s = "served" /\ row.status # "served"

ItemAdvances(row, s) ==
    /\ \A i \in DOMAIN row.items : row.items[i].status = s
    /\ \/ s = "ready" /\ row.status = "in_progress"
       \/ s = "served" /\ row.status \notin {"served", "paid", "cancelled"}

UpdateItemStatus(o, i, s) ==
    /\ LET row == WithItemStatus(orders[o], i, s)
       IN  orders' = [orders EXCEPT ![o] = IF ItemAdvances(row, s) THEN Advanced(row, s) ELSE row]
    /\ UNCHANGED <<total, tables, menu>>

-----------------------------------------------------------------------------
(* POST /orders/split-table.  A request shares out the units of the active *)
(* items of a table over NChecks checks; an item is a pair <<order, line>>.*)

Checks == 1 .. NChecks
ActiveItems(t) == UNION {{o} \X DOMAIN orders[o].items : o \in Active(t)}
Item(x) == orders[x[1]].items[x[2]]

\* The requests the handler accepts: the quantities of every item that is
\* mentioned sum to its quantity, an item with no unit in any check is not
\* mentioned.
SplitRequests(t) ==
    LET Mentioned == IF PartialSplits THEN SUBSET ActiveItems(t) ELSE {ActiveItems(t)}
    IN  UNION {{share \in [m -> [Checks -> 0 .. MaxQty]] :
                   \A x \in m : SumFunction(share[x]) = Item(x).qty} : m \in Mentioned}

\* The items of check c, and the lines its new order gets: unit price, menu item
\* and status are those of the original.
CheckItemsWithZero(share, c) == SetToSeq(DOMAIN share)

CheckItems(share, c) == SetToSeq({x \in DOMAIN share : share[x][c] > 0})
CheckLinesRepriced(share, c) ==
    [k \in DOMAIN CheckItems(share, c) |->
        LET x == CheckItems(share, c)[k]
        IN  [Item(x) EXCEPT !.qty = share[x][c], !.price = menu[Item(x).menu].price]]

CheckLines(share, c) ==
    [k \in DOMAIN CheckItems(share, c) |->
        LET x == CheckItems(share, c)[k] IN [Item(x) EXCEPT !.qty = share[x][c]]]

\* Checks with no item are skipped.
FilledChecks(share) == SetToSeq({c \in Checks : CheckItems(share, c) # <<>>})

\* order_by(created_at.desc()) leaves rows of one transaction in any order.
Newest(os) == {o \in os : \A p \in os : orders[p].born <= orders[o].born}

SplitRowUnstamped(first, lines) ==
    [table |-> orders[first].table, waiter |-> orders[first].waiter, key |-> None,
     status |-> orders[first].status,
     readyAt |-> FALSE, servedAt |-> FALSE, paidAt |-> FALSE,
     born |-> Len(orders) + 1, items |-> lines, logged |-> "none"]

SplitRow(first, lines) ==
    [table |-> orders[first].table, waiter |-> orders[first].waiter, key |-> None,
     status |-> orders[first].status,
     readyAt |-> orders[first].readyAt, servedAt |-> orders[first].servedAt,
     paidAt |-> FALSE,
     born |-> Len(orders) + 1, items |-> lines, logged |-> "none"]

\* The originals, mentioned or not, are cancelled in place; no event is written
\* and the table row is not touched.
Superseded(t) ==
    [o \in DOMAIN orders |->
        IF o \in Active(t) THEN [orders[o] EXCEPT !.status = "cancelled"] ELSE orders[o]]

SplitTable(u, t, share, first) ==
    LET filled == FilledChecks(share)
        bills == [n \in DOMAIN filled |-> CheckLines(share, filled[n])]
    IN  /\ u \in Waiters \cup Managers
        /\ Len(orders) + Len(filled) <= MaxOrders
        /\ orders' = Superseded(t) \o [n \in DOMAIN filled |-> SplitRow(first, bills[n])]
        /\ total' = total \o [n \in DOMAIN filled |-> Bill(bills[n])]
        /\ UNCHANGED <<tables, menu>>

-----------------------------------------------------------------------------
(* Managers' updates of the rows the order handlers read.                  *)

\* PATCH /tables/{id} with a status.
UpdateTable(u, t, s) ==
    /\ u \in Managers
    /\ Overrides
    /\ tables' = [tables EXCEPT ![t] = s]
    /\ UNCHANGED <<orders, total, menu>>

\* PATCH /menu/items/{id} with a price and an availability.
UpdateMenuItem(u, m, row) ==
    /\ u \in Managers
    /\ menu' = [menu EXCEPT ![m] = row]
    /\ UNCHANGED <<orders, total, tables>>

-----------------------------------------------------------------------------
Init ==
    /\ orders = <<>>
    /\ total = <<>>
    /\ tables \in [Tables -> TableStatuses \ {"occupied"}]
    /\ menu \in [Menu -> [price : Prices, available : {TRUE}]]

Next ==
    \E u \in Users :
        \/ \E t \in Tables, k \in Keys \cup {None}, cart \in Carts : CreateOrder(u, t, k, cart)
        \/ \E o \in DOMAIN orders :
              \/ \E t \in Tables \cup {None}, cart \in Carts \cup {<<>>} : UpdateOrder(u, o, t, cart)
              \/ \E s \in OrderStatuses : UpdateOrderStatus(u, o, s)
              \/ \E i \in DOMAIN orders[o].items, s \in ItemRequests : UpdateItemStatus(o, i, s)
        \/ \E t \in Tables : \E share \in SplitRequests(t), first \in Newest(Active(t)) :
              SplitTable(u, t, share, first)
        \/ \E t \in Tables, s \in TableStatuses : UpdateTable(u, t, s)
        \/ \E m \in Menu, row \in MenuRow : UpdateMenuItem(u, m, row)

Spec == Init /\ [][Next]_vars

-----------------------------------------------------------------------------
(* Properties.                                                             *)

\* The rows keep their types: in particular every stored line has a positive
\* quantity and price (the CHECK constraints of order_items).
RowsOK ==
    /\ orders \in Seq(OrderRow)
    /\ tables \in [Tables -> TableStatuses]
    /\ menu \in [Menu -> MenuRow]

\* Type invariant: RowsOK, and one non-negative amount per order.
TypeOK == RowsOK /\ total \in [DOMAIN orders -> Nat]

\* A client request creates at most one order, however often and however late
\* the device repeats it (_create_order_record).
OneOrderPerRequest ==
    \A o, p \in DOMAIN orders :
        o # p /\ orders[o].key # None =>
            ~(orders[o].waiter = orders[p].waiter /\ orders[o].key = orders[p].key)

\* What an order charges is what its lines say, at the prices stored with them:
\* through edits, splits and changes of the menu.
BilledAsListed ==
    \A o \in DOMAIN orders :
        total[o] = SumFunction([i \in DOMAIN orders[o].items |->
                                  orders[o].items[i].qty * orders[o].items[i].price])

\* Whatever path an order took to its status (the kitchen, its items, a split, a
\* manager's correction), the time it got there is recorded: the kitchen's
\* history and the analytics select by these columns.
StampsFollowStatus ==
    \A o \in DOMAIN orders :
        /\ orders[o].status = "ready" => orders[o].readyAt
        /\ orders[o].status = "served" => orders[o].servedAt
        /\ orders[o].status = "paid" => orders[o].paidAt

\* A table with an active order is shown occupied.  It holds while no
\* manager overrides the workflow and nobody moves an order to its own table.
OccupiedWhileActive ==
    \A o \in DOMAIN orders : IsActive(o) => tables[orders[o].table] = "occupied"

\* A table is not left occupied once its last order is paid, cancelled or moved
\* away.  It holds while no manager overrides the workflow and splits share everything.
FreeWhenDone == \A t \in Tables : tables[t] = "occupied" => Active(t) # {}

\* The statuses an order can be in after one step that is no override.
Onward ==
    [pending     |-> {"pending", "in_progress", "served", "cancelled"},
     in_progress |-> {"in_progress", "ready", "served", "cancelled"},
     ready       |-> {"ready", "served", "cancelled"},
     served      |-> {"served", "paid", "cancelled"},
     paid        |-> {"paid"},
     cancelled   |-> {"cancelled"}]

\* Without a manager's override no order ever goes back, none leaves paid or cancelled, and
\* none is paid before it was served: neither the status handler, nor the items
\* that drag their order along, nor a split.
NeverBackwards ==
    [][\A o \in DOMAIN orders : orders'[o].status \in Onward[orders[o].status]]_vars

\* A status change without an event of its own is a split's: it cancels every
\* active order of the table at once.  All the others, the automatic advance
\* through the items included, write the event they make.
UnloggedOnlyBySplit ==
    [][\A o \in DOMAIN orders :
         \/ orders'[o].status = orders[o].status
         \/ orders'[o].logged = orders'[o].status
         \/ \A p \in Active(orders[o].table) : orders'[p].status = "cancelled"]_vars

\* What the guests at a table owe in all.
Owed(t) == SumFunctionOnSet(total, Active(t))

\* A split that shares out everything changes who pays, never how much: the step
\* that replaces the active orders of a table keeps their sum, whatever the menu
\* says by now.
SplitKeepsOwed ==
    [][\A t \in Tables :
         Len(orders') > Len(orders) /\ Active(t)' \cap Active(t) = {} /\ Active(t) # {}
            => Owed(t)' = Owed(t)]_vars

=============================================================================
