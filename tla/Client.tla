------------------------------- MODULE Client -------------------------------
(***************************************************************************)
(* One browser of the restaurant: its store of orders, its kitchen board,  *)
(* the requests it has under way and its live-update socket                *)
(* (frontend/src/lib/store.tsx, api.ts), driven by the screens that change *)
(* orders, against a server whose orders other devices change too.         *)
(*                                                                         *)
(* A request is sent, handled by the server at some later time, and its    *)
(* answer applied to the store later still.  An event of the socket only   *)
(* says which order changed; the client asks for the order again.          *)
(***************************************************************************)
EXTENDS Integers, SequencesExt, Workflow

CONSTANTS
    Users,       \* who logs in at this browser
    RoleOf,      \* their roles
    Orders,      \* order ids
    WaiterOf,    \* the waiter of each order, None: one who never logs in here
    Items,       \* the items of an order
    None,        \* null
    Failed,      \* the answer of a request that failed
    MaxMoves,    \* bound: what users, other devices and the network do
    MaxRequests  \* bound: nothing new is asked or done while so many requests are under way

ASSUME ClientAssumption ==
    /\ RoleOf \in [Users -> {"waiter", "kitchen", "manager"}]
    /\ WaiterOf \in [Orders -> Users \cup {None}]
    /\ {MaxMoves, MaxRequests} \subseteq Nat
    /\ None \notin Users

VARIABLES
    db,       \* the server's orders, None: not created
    auth,     \* who is logged in: state.token and the token in localStorage
    store,    \* state.orders, None: not in the list
    board,    \* state.kitchenBoard
    net,      \* requests under way
    sock,     \* wsRef.current
    dying,    \* sockets closed whose onclose has not run yet
    timers,   \* reconnect timers running
    lost,     \* ghost: orders of which a change was missed, or an answer came out of order or late
    moves     \* what is left of MaxMoves

vars == <<db, auth, store, board, net, sock, dying, timers, lost, moves>>
connection == <<sock, dying, timers>>

-----------------------------------------------------------------------------
(* Data.                                                                   *)

ItemStatuses == {"pending", "ready", "served"}

\* An order as the server sends it.
Order == [status : OrderStatuses, items : [Items -> ItemStatuses]]
Copies == Order \cup {None}
ASSUME OrderAssumption == None \notin Order
KDS_COLUMNS == {"pending", "in_progress", "ready"}

\* A request: what it asks for, whose token it carries, of which order, the status or
\* item it sets, the status its user saw, and the server's answer: None while there
\* is none, Failed, or the orders it was told when the server handled it.
Request(kind, u, o, s, i, shown) ==
    [kind |-> kind, by |-> u, o |-> o, s |-> s, i |-> i, shown |-> shown, answer |-> None]
Boot(u) == Request(IF RoleOf[u] = "kitchen" THEN "kitchenBoot" ELSE "boot", u, None, None, None, None)
Board(u) == Request("board", u, None, None, None, None)
Get(u, o) == Request("get", u, o, None, None, None)

\* What a login loads, and the requests that change an order: from the kitchen
\* display, from a waiter's screen, a manager's, and for one item.
Loads == {"boot", "kitchenBoot"}
StatusChanges == {"kds", "status", "override"}
Changes == StatusChanges \cup {"item"}

AllRequests ==
    [kind : Loads \cup Changes \cup {"board", "get"}, by : Users, o : Orders \cup {None},
     s : OrderStatuses \cup ItemStatuses \cup {None}, i : Items \cup {None},
     shown : OrderStatuses \cup {None}, answer : [Orders -> Copies] \cup {None, Failed}]

\* What the server, the store and the board hold are orders; requests and their answers,
\* the socket and its timers have these types.
TypeOK ==
    /\ {db, store, board} \subseteq [Orders -> Copies]
    /\ auth \in Users \cup {None}
    /\ net \in Seq(AllRequests)
    /\ sock \in {"none", "connecting", "open", "closed"}
    /\ dying \in Nat /\ timers \in Nat
    /\ lost \subseteq Orders
    /\ moves \in 0 .. MaxMoves

Nothing == [o \in Orders |-> None]

Fresh == [status |-> "pending", items |-> [i \in Items |-> "pending"]]
Cooking == [Fresh EXCEPT !.status = "in_progress"]
Cooked == [status |-> "ready", items |-> [i \in Items |-> "ready"]]

\* What the page does when it is opened: whoever is still logged in gets a connection
\* and the orders.
Opened(u) == IF u = None THEN [sock |-> "none", net |-> <<>>]
                         ELSE [sock |-> "connecting", net |-> <<Boot(u)>>]

\* The browser is opened while the restaurant is at work, with a token from earlier or none.
Init ==
    /\ db \in [Orders -> {None, Cooking, Cooked}] /\ store = Nothing /\ board = Nothing
    /\ auth \in Users \cup {None}
    /\ sock = Opened(auth).sock /\ net = Opened(auth).net
    /\ dying = 0 /\ timers = 0
    /\ lost = {} /\ moves = MaxMoves

Spend == moves > 0 /\ moves' = moves - 1
Room == Len(net) < MaxRequests

-----------------------------------------------------------------------------
(* The socket.                                                             *)

Live == sock \in {"connecting", "open"}
SeesKitchen == auth # None /\ RoleOf[auth] \in {"kitchen", "manager"}

\* connectWs: the socket at hand is closed first.
connectWs ==
    /\ sock' = "connecting"
    /\ dying' = IF Live THEN dying + 1 ELSE dying

SocketOpens ==
    /\ sock = "connecting"
    /\ sock' = "open"
    /\ UNCHANGED <<db, auth, store, board, net, dying, timers, lost, moves>>

\* The network or the server ends the connection; onerror closes the socket.
SocketFails ==
    /\ Spend
    /\ Live
    /\ sock' = "closed" /\ dying' = dying + 1
    /\ UNCHANGED <<db, auth, store, board, net, timers, lost>>

\* onclose, also of a socket that connectWs or logout closed: a timer starts.
NoTimer ==
    /\ dying > 0
    /\ dying' = dying - 1
    /\ UNCHANGED <<db, auth, store, board, net, sock, timers, lost, moves>>
OnClose ==
    /\ dying > 0
    /\ dying' = dying - 1
    /\ timers' = timers + 1
    /\ UNCHANGED <<db, auth, store, board, net, sock, lost, moves>>

\* Five seconds later the client connects again if someone is logged in.
Interval ==
    /\ timers > 0
    /\ IF auth # None THEN connectWs ELSE UNCHANGED <<sock, dying>>
    /\ UNCHANGED <<db, auth, store, board, net, timers, lost, moves>>
Reconnect ==
    /\ timers > 0
    /\ timers' = timers - 1
    /\ IF auth # None THEN connectWs ELSE UNCHANGED <<sock, dying>>
    /\ UNCHANGED <<db, auth, store, board, net, lost, moves>>

\* A waiter's socket is told of that waiter's orders only.  What onmessage asks for when
\* order o changed; a change the socket does not report is lost on the client.
Concerns(u, o) == RoleOf[u] = "waiter" => WaiterOf[o] = u
Heard(o) == sock = "open" /\ auth # None /\ Concerns(auth, o)
Asked(o) == IF SeesKitchen THEN <<Get(auth, o), Board(auth)>> ELSE <<Get(auth, o)>>
Requests(o) == IF Heard(o) THEN Asked(o) ELSE <<>>
Missed(o) == IF Heard(o) THEN {} ELSE {o}

-----------------------------------------------------------------------------
(* Logging in and out.                                                     *)

\* login: the token is stored and the effect on it connects and loads; what the
\* store holds stays.
Login(u) ==
    /\ Spend /\ Room
    /\ auth = None
    /\ auth' = u
    /\ connectWs
    /\ net' = Append(net, Boot(u))
    /\ UNCHANGED <<db, store, board, timers, lost>>

\* logout clears the token only; requests under way go on.
Logout ==
    /\ Spend
    /\ auth # None
    /\ auth' = None
    /\ IF Live THEN sock' = "closed" /\ dying' = dying + 1 ELSE UNCHANGED <<sock, dying>>
    /\ UNCHANGED <<db, store, board, net, timers, lost>>

\* The page is loaded again: only localStorage survives.
Reload ==
    /\ Spend
    /\ store' = Nothing /\ board' = Nothing
    /\ dying' = 0 /\ timers' = 0 /\ lost' = {}
    /\ sock' = Opened(auth).sock /\ net' = Opened(auth).net
    /\ UNCHANGED <<db, auth>>

-----------------------------------------------------------------------------
(* What the users do.                                                      *)

\* The status buttons of a card of the kitchen display, by the status it shows.
KDSCard(s) == CASE s = "pending" -> {"in_progress", "cancelled"}
                [] s = "in_progress" -> {"ready", "cancelled"}
                [] OTHER -> {}

\* Those of a waiter's table ("serve") and of the manager's list.
SessionActions(s) == IF s = "ready" THEN {"served"} ELSE {}
ManagerActions(s) == CASE s = "pending" -> {"cancelled"}
                       [] s = "served" -> {"paid"}
                       [] OTHER -> {}

Offered(role, s) == CASE role = "kitchen" -> KDSCard(s)
                      [] role = "waiter" -> SessionActions(s)
                      [] OTHER -> ManagerActions(s)

\* The kitchen works from its board, the others from the order list.
InKitchen == auth # None /\ RoleOf[auth] = "kitchen"
Shown == IF InKitchen THEN board ELSE store

Button(role) == CASE role = "kitchen" -> "kds" [] role = "waiter" -> "status" [] OTHER -> "override"

\* changeStatus.  The buttons stay enabled while its request is under way (only the
\* kitchen's dialog for cancelling does not: a second tap there is one too many here).
ChangeStatus(o, s) ==
    /\ Spend /\ Room
    /\ auth # None /\ Shown[o] # None
    /\ s \in Offered(RoleOf[auth], Shown[o].status)
    /\ net' = Append(net, Request(Button(RoleOf[auth]), auth, o, s, None, Shown[o].status))
    /\ UNCHANGED <<db, auth, store, board, connection, lost>>

\* The item buttons: the kitchen ticks items of an order in progress, a waiter
\* serves the items of an active order.
ItemOffered(role, order, i) ==
    IF role = "kitchen"
    THEN IF order.status # "in_progress" THEN {}
         ELSE {IF order.items[i] = "ready" THEN "pending" ELSE "ready"}
    ELSE IF role = "waiter" /\ order.status \in ActiveStatuses /\ order.items[i] # "served"
         THEN {"served"} ELSE {}

WithItem(order, i, s) == [order EXCEPT !.items[i] = s]

\* updateItemStatus: the copy in the list changes before the server is asked.
UpdateItemStatus(o, i, s) ==
    /\ Spend /\ Room
    /\ auth # None /\ Shown[o] # None
    /\ s \in ItemOffered(RoleOf[auth], Shown[o], i)
    /\ store' = IF store[o] = None THEN store ELSE [store EXCEPT ![o] = WithItem(store[o], i, s)]
    /\ net' = Append(net, Request("item", auth, o, s, i, Shown[o].status))
    /\ UNCHANGED <<db, auth, board, connection, lost>>

\* The kitchen display asks for its board every 15 seconds.
Poll ==
    /\ InKitchen /\ Room
    /\ \A n \in DOMAIN net : net[n].kind # "board"
    /\ net' = Append(net, Board(auth))
    /\ UNCHANGED <<db, auth, store, board, connection, lost, moves>>

-----------------------------------------------------------------------------
(* The server.                                                             *)

\* All items of an order that is served are served.
WithStatus(order, s) ==
    IF s = "served" THEN [status |-> s, items |-> [i \in Items |-> "served"]]
                    ELSE [order EXCEPT !.status = s]

\* An order follows its items when all of them are ready or served.
AfterItem(order, i, s) ==
    LET new == WithItem(order, i, s)
    IN  IF /\ \A j \in Items : new.items[j] = s
           /\ \/ s = "ready" /\ order.status = "in_progress"
              \/ s = "served" /\ order.status \in ActiveStatuses
        THEN [new EXCEPT !.status = s] ELSE new

\* A manager may set any status; a waiter changes the status of own orders only.
AcceptsAll(r) == r.kind = "override" \/ db[r.o].status \notin FinalStatuses
Accepts(r) ==
    \/ r.kind = "override"
    \/ Concerns(r.by, r.o) /\ r.s \in TRANSITIONS[db[r.o].status]

\* The orders after the server has handled a request.
Handled(r) ==
    CASE r.kind \in StatusChanges /\ Accepts(r) ->
            [db EXCEPT ![r.o] = WithStatus(db[r.o], r.s)]
      [] r.kind = "item" -> [db EXCEPT ![r.o] = AfterItem(db[r.o], r.i, r.s)]
      [] OTHER -> db

\* Another device creates an order, changes its status or an item, or has it paid.
Elsewhere(order) ==
    {WithStatus(order, s) : s \in TRANSITIONS[order.status]
                                   \cup (IF order.status = "ready" THEN {"paid"} ELSE {})}
    \cup (IF order.status \in ActiveStatuses
          THEN {AfterItem(order, i, s) : i \in Items, s \in ItemStatuses} \ {order} ELSE {})
OtherDevice(o) ==
    /\ Spend /\ Room
    /\ \E new \in (IF db[o] = None THEN {Fresh} ELSE Elsewhere(db[o])) : db' = [db EXCEPT ![o] = new]
    /\ net' = net \o Requests(o)
    /\ lost' = lost \cup Missed(o)
    /\ UNCHANGED <<auth, store, board, connection>>

\* It splits the table's bill.  That cancels the order, and no event says so.
SplitElsewhere(o) ==
    /\ Spend
    /\ db[o] # None /\ db[o].status \in ActiveStatuses
    /\ db' = [db EXCEPT ![o] = WithStatus(db[o], "cancelled")]
    /\ lost' = lost \cup {o}
    /\ UNCHANGED <<auth, store, board, net, connection>>

\* kitchen_board, and list_orders as the role may list them: the kitchen what it still
\* has to do or hand out, a waiter the own orders, in any status.
OnBoard(orders) ==
    [o \in Orders |-> IF orders[o] # None /\ orders[o].status \in KDS_COLUMNS
                      THEN orders[o] ELSE None]
Listed(u, orders) ==
    CASE RoleOf[u] = "kitchen" -> OnBoard(orders)
      [] RoleOf[u] = "waiter" -> [o \in Orders |-> IF WaiterOf[o] = u THEN orders[o] ELSE None]
      [] OTHER -> orders

\* What the server tells the one who asks.
Told(r, orders) ==
    CASE r.kind \in Loads -> Listed(r.by, orders)
      [] r.kind = "board" -> OnBoard(orders)
      [] OTHER -> orders

\* The orders that a request brings news of, and those of which the server handles
\* requests in another order than they were asked.
About(r) == CASE r.kind \in Loads -> Orders
              [] r.kind = "board" -> {}
              [] OTHER -> {r.o}
Crossed(n) ==
    {o \in About(net[n]) : \E k \in DOMAIN net \ {n} :
        o \in About(net[k]) /\ (k < n <=> net[k].answer = None)}

Found(r) == CASE r.kind \in Loads -> {}
              [] r.kind = "get" -> lost \ {r.o}
              [] OTHER -> lost

\* The server handles request n; a change is reported over the socket at once.
Answer(n) ==
    /\ net[n].answer = None
    /\ net[n].kind \in StatusChanges => Accepts(net[n])
    /\ db' = Handled(net[n])
    /\ LET asked == net[n].kind \in Changes
           r == [net[n] EXCEPT !.answer = Told(net[n], db')]
       IN  /\ net' = ReplaceAt(net, n, r) \o (IF asked THEN Requests(net[n].o) ELSE <<>>)
           /\ lost' = Crossed(n) \cup (IF asked THEN lost \cup Missed(net[n].o) ELSE Found(net[n]))
    /\ UNCHANGED <<auth, store, board, connection, moves>>

\* It refuses the request, or the network fails before or after it is handled.
\* What the client then lacks: a list or order it asked for, or the way back from
\* an item it changed in advance.
Lacking(r) == CASE r.kind \in Loads -> Orders
                [] r.kind \in {"get", "item"} -> {r.o}
                [] OTHER -> {}

Failing(n) ==
    /\ net[n].answer = None
    /\ IF net[n].kind \in StatusChanges /\ ~Accepts(net[n]) THEN UNCHANGED moves ELSE Spend
    /\ db' \in {db, Handled(net[n])}
    /\ LET changed == db' # db
           r == [net[n] EXCEPT !.answer = Failed]
       IN  /\ net' = ReplaceAt(net, n, r) \o (IF changed THEN Requests(net[n].o) ELSE <<>>)
           /\ lost' = lost \cup Lacking(net[n]) \cup (IF changed THEN Missed(net[n].o) ELSE {})
    /\ UNCHANGED <<auth, store, board, connection>>

-----------------------------------------------------------------------------
(* The answers.                                                            *)

\* SET_ORDERS puts the answer in the place of the list; UPSERT_ORDER replaces or adds one order.
OnlyNew(orders, r) ==
    CASE r.kind \in Loads -> r.answer
      [] r.kind \in Changes \cup {"get"} /\ orders[r.o] = None
           -> [orders EXCEPT ![r.o] = r.answer[r.o]]
      [] OTHER -> orders
Reduced(orders, r) ==
    CASE r.kind \in Loads -> r.answer
      [] r.kind \in Changes \cup {"get"} -> [orders EXCEPT ![r.o] = r.answer[r.o]]
      [] OTHER -> orders

\* SET_KITCHEN_BOARD; a waiter's start loads none.
OnlyFirst(r) == IF board = Nothing /\ r.kind \in {"board", "kitchenBoot"} THEN r.answer ELSE board
NewBoard(r) == IF r.kind \in {"board", "kitchenBoot"} THEN r.answer ELSE board

\* fetch answers errors too; request throws for them.
Fetched(r) == r.answer # Failed \/ r.kind = "boot"
Succeeded(r) == r.answer # Failed

\* An answer reaches the store, in any order and whoever is logged in by then.  After a
\* status of its own the kitchen display asks for the board.
Overtaken(n) ==
    {o \in About(net[n]) :
        \/ \E k \in 1 .. n - 1 : o \in About(net[k])
        \/ net[n].kind \in Loads /\ net[n].by # auth}
Deliver(n) ==
    /\ net[n].answer # None
    /\ lost' = lost \cup Overtaken(n)
    /\ IF Succeeded(net[n])
       THEN /\ store' = Reduced(store, net[n])
            /\ board' = NewBoard(net[n])
            /\ net' = RemoveAt(net, n) \o (IF net[n].kind = "kds" THEN <<Board(net[n].by)>> ELSE <<>>)
       ELSE net' = RemoveAt(net, n) /\ UNCHANGED <<store, board>>
    /\ UNCHANGED <<db, auth, connection, moves>>

-----------------------------------------------------------------------------

UserStep ==
    \/ \E u \in Users : Login(u)
    \/ Logout
    \/ Reload
    \/ \E o \in Orders, s \in OrderStatuses : ChangeStatus(o, s)
    \/ \E o \in Orders, i \in Items, s \in ItemStatuses : UpdateItemStatus(o, i, s)

Next ==
    \/ UserStep
    \/ SocketOpens \/ SocketFails \/ OnClose \/ Reconnect
    \/ Poll
    \/ \E o \in Orders : OtherDevice(o) \/ SplitElsewhere(o)
    \/ \E n \in DOMAIN net : Answer(n) \/ Failing(n) \/ Deliver(n)

Spec == Init /\ [][Next]_vars

\* Browsers run their timers and callbacks, sockets connect, no request waits for ever
\* for its answer (the oldest gets one, or fails), and the display's interval goes on.
Oldest == {n \in DOMAIN net : n = 1}
Fairness ==
    /\ WF_vars(SocketOpens) /\ WF_vars(OnClose) /\ WF_vars(Reconnect)
    /\ WF_vars(Poll)
    /\ WF_vars(\E n \in Oldest : Answer(n) \/ Failing(n))
    /\ WF_vars(\E n \in Oldest : Deliver(n))

FairSpec == Spec /\ Fairness

-----------------------------------------------------------------------------
(* What should hold.                                                       *)

\* The connections and timers that will go on trying: each ends in at most one other.
Chains == dying + timers + (IF Live THEN 1 ELSE 0)

\* Reconnecting never multiplies (store.tsx:245-260): however closes, timers and failures
\* interleave, only a login adds a connection, and one; and whoever is logged in has a
\* connection, or a close or timer that leads to one.
CalmReconnect ==
    [][/\ Chains' <= Chains \/ (auth = None /\ auth' # None /\ Chains' = Chains + 1)
       /\ auth' # None => Chains' > 0]_vars

\* Whoever stays logged in ends up connected and stays connected, after any number of
\* lost connections (store.tsx:252-260), unless the login came before the timer of the
\* last logout had run out: then two connections take turns closing each other.
SocketSettles == <>[](auth # None /\ Chains <= 1 => sock = "open")

\* The order list follows the server: once nothing changes any more, every order of
\* which the client missed no change and got its answers in order is as the server has
\* it, or is not in the list because the role does not list it, whatever optimistic
\* changes, logins and answers came between (store.tsx:103-134, 261-334, 394-462;
\* orders.py:217-226).
StoreFollows ==
    <>[](auth # None => \A o \in Orders \ lost :
            store[o] = db[o] \/ (store[o] = None /\ Listed(auth, db)[o] = None))

\* The kitchen's board comes right in the end even after missed events and failed
\* requests, because the display keeps asking (Kitchen.tsx:211-214).
KitchenHeals == <>[](InKitchen => board = OnBoard(db))

\* A button of the kitchen or a waiter acts on the status its user saw: if other devices
\* moved the order on meanwhile, or the button was tapped twice, the request changes
\* nothing (Kitchen.tsx:154-171, TableSession.tsx:275-283); only a cancellation may find
\* the order further on.
SeenIsMoved ==
    [][\A n \in DOMAIN net :
         /\ net[n].kind \in {"kds", "status"}
         /\ net[n].answer = None
         /\ n \in DOMAIN net' /\ net'[n].answer \notin {None, Failed}
         /\ db' # db
         => \/ db[net[n].o].status = net[n].shown
            \/ net[n].s = "cancelled"]_vars
=============================================================================
