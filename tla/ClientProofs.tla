---------------------------- MODULE ClientProofs ----------------------------
(***************************************************************************)
(* Theorems about the browser's store and its socket, for any users,       *)
(* orders, items and number of steps, whether answers arrive in order or   *)
(* not: the types, that status requests act on the status their user saw,  *)
(* and that reconnecting never multiplies connections nor gives up.        *)
(***************************************************************************)
EXTENDS Client, SeqLemmas

-----------------------------------------------------------------------------
(* The socket.                                                             *)

ConnInv ==
    /\ dying \in Nat /\ timers \in Nat
    /\ auth = None => ~Live
    /\ auth # None => Chains > 0

CalmStep ==
    /\ Chains' <= Chains \/ (auth = None /\ auth' # None /\ Chains' = Chains + 1)
    /\ auth' # None => Chains' > 0

\* The page starts with a connection for whoever is still logged in, and without a timer.
LEMMA ConnInit == Init => ConnInv
  BY DEF Init, ConnInv, Opened, Chains, Live

\* Every step keeps the count and a way to a connection.
LEMMA ConnStep ==
    ASSUME ConnInv, [Next]_vars
    PROVE  ConnInv' /\ CalmStep
<1> USE DEF ConnInv, CalmStep, Chains, Live
<1>1. ASSUME NEW u \in Users, Login(u) PROVE ConnInv' /\ CalmStep
  BY <1>1, ClientAssumption DEF Login, connectWs
<1>2. CASE Logout
  BY <1>2 DEF Logout, Live
<1>3. CASE Reload
  BY <1>3 DEF Reload, Opened
<1>4. CASE SocketOpens
  BY <1>4 DEF SocketOpens
<1>5. CASE SocketFails
  BY <1>5 DEF SocketFails, Live
<1>6. CASE OnClose
  BY <1>6 DEF OnClose
<1>7. CASE Reconnect
  BY <1>7 DEF Reconnect, connectWs, Live
<1>8. ASSUME UNCHANGED <<auth, sock, dying, timers>> PROVE ConnInv' /\ CalmStep
  BY <1>8
<1>9. CASE Poll
  BY <1>8, <1>9 DEF Poll, connection
<1>10. ASSUME NEW o \in Orders, OtherDevice(o) \/ SplitElsewhere(o) PROVE ConnInv' /\ CalmStep
  BY <1>8, <1>10 DEF OtherDevice, SplitElsewhere, connection
<1>11. ASSUME NEW o \in Orders, NEW s, ChangeStatus(o, s) PROVE ConnInv' /\ CalmStep
  BY <1>8, <1>11 DEF ChangeStatus, connection
<1>12. ASSUME NEW o \in Orders, NEW i, NEW s, UpdateItemStatus(o, i, s) PROVE ConnInv' /\ CalmStep
  BY <1>8, <1>12 DEF UpdateItemStatus, connection
<1>13. ASSUME NEW n \in DOMAIN net, Answer(n) \/ Failing(n) \/ Deliver(n) PROVE ConnInv' /\ CalmStep
  BY <1>8, <1>13 DEF Answer, Failing, Deliver, connection
<1>14. CASE UNCHANGED vars
  BY <1>8, <1>14 DEF vars
<1>15. CASE UserStep
  BY <1>1, <1>2, <1>3, <1>11, <1>12, <1>15 DEF UserStep
<1>16. QED
  BY <1>4, <1>5, <1>6, <1>7, <1>9, <1>10, <1>13, <1>14, <1>15 DEF Next

\* However closes, timers, failures, logins and reloads interleave, only a login adds a
\* connection, and whoever is logged in has one or a close or timer that leads to one
\* (store.tsx:229-260).
THEOREM ReconnectIsCalm == Spec => CalmReconnect
<1>1. ConnInv /\ [Next]_vars => ConnInv' /\ [CalmStep]_vars
  BY ConnStep
<1>2. QED
  BY <1>1, ConnInit, PTL DEF Spec, CalmReconnect, CalmStep

-----------------------------------------------------------------------------
(* Types, and what the requests under way say.                             *)

\* A request names what its kind needs; one that changes an order names an order that
\* exists, and the status it sets follows the one its user saw.
RequestOK(r, orders) ==
    /\ r.kind \in StatusChanges =>
         /\ r.s \in OrderStatuses /\ r.shown \in OrderStatuses
         /\ r.s = "cancelled" \/ r.s \in TRANSITIONS[r.shown]
    /\ r.kind = "item" => r.i \in Items /\ r.s \in ItemStatuses
    /\ r.kind \in Changes \cup {"get"} => r.o \in Orders
    /\ r.kind \in Changes => orders[r.o] # None
    /\ r.answer \notin {None, Failed} =>
         \A o \in Orders : r.answer[o] # None => orders[o] # None

Exist(copies, orders) == \A o \in Orders : copies[o] # None => orders[o] # None

NetOK(s, orders) ==
    /\ s \in Seq(AllRequests)
    /\ \A n \in DOMAIN s : RequestOK(s[n], orders)

IInv ==
    /\ TypeOK
    /\ Exist(store, db) /\ Exist(board, db)
    /\ NetOK(net, db)

LEMMA KindsDiffer ==
    /\ StatusChanges \subseteq Changes /\ "item" \in Changes /\ "item" \notin StatusChanges
    /\ "board" \notin Changes /\ "get" \notin Changes /\ Changes \cap Loads = {}
    /\ \A k \in Changes : k \in StatusChanges \/ k = "item"
    /\ "get" \notin Loads /\ "board" \notin Loads
  BY DEF Changes, StatusChanges, Loads

LEMMA StatusesExist ==
    /\ TRANSITIONS \in [OrderStatuses -> SUBSET OrderStatuses]
    /\ "cancelled" \in OrderStatuses
    /\ ItemStatuses \cap {"ready", "served"} \subseteq OrderStatuses
    /\ "paid" \in OrderStatuses
  BY DEF TRANSITIONS, OrderStatuses, ActiveStatuses, FinalStatuses, ItemStatuses

LEMMA OrdersTake ==
    ASSUME NEW order \in Order
    PROVE  /\ order # None
           /\ \A s \in OrderStatuses : WithStatus(order, s) \in Order
           /\ \A i \in Items, s \in ItemStatuses :
                WithItem(order, i, s) \in Order /\ AfterItem(order, i, s) \in Order
<1>1. order # None
  BY OrderAssumption
<1>2. ASSUME NEW s \in OrderStatuses PROVE WithStatus(order, s) \in Order
  BY DEF Order, WithStatus, ItemStatuses
<1>3. ASSUME NEW i \in Items, NEW s \in ItemStatuses PROVE WithItem(order, i, s) \in Order
  BY DEF Order, WithItem
<1>4. ASSUME NEW i \in Items, NEW s \in ItemStatuses PROVE AfterItem(order, i, s) \in Order
  <2> DEFINE new == WithItem(order, i, s)
  <2>1. new \in Order
    BY <1>3
  <2>2. s \in {"ready", "served"} => s \in OrderStatuses
    BY StatusesExist
  <2>3. s \in {"ready", "served"} => [new EXCEPT !.status = s] \in Order
    BY <2>1, <2>2 DEF Order
  <2>4. AfterItem(order, i, s) \in {new, [new EXCEPT !.status = s]}
        /\ (s \notin {"ready", "served"} => AfterItem(order, i, s) = new)
    BY DEF AfterItem
  <2>5. QED
    BY <2>1, <2>3, <2>4
<1>5. QED
  BY <1>1, <1>2, <1>3, <1>4

LEMMA ElsewhereIsOrder ==
    ASSUME NEW order \in Order, NEW new \in Elsewhere(order)
    PROVE  new \in Order
<1>1. order.status \in OrderStatuses
  BY DEF Order
<1>2. TRANSITIONS[order.status] \subseteq OrderStatuses
  BY <1>1, StatusesExist
<1>3. QED
  BY <1>2, OrdersTake, StatusesExist DEF Elsewhere

LEMMA FirstOrders == Fresh \in Order /\ Cooking \in Order /\ Cooked \in Order
  BY DEF Fresh, Cooking, Cooked, Order, OrderStatuses, ActiveStatuses, ItemStatuses

\* The server's step on a request keeps its orders orders.
LEMMA HandledKeeps ==
    ASSUME TypeOK, NEW n \in DOMAIN net, RequestOK(net[n], db)
    PROVE  /\ Handled(net[n]) \in [Orders -> Copies]
           /\ \A o \in Orders : db[o] # None => Handled(net[n])[o] # None
<1> DEFINE r == net[n]
<1>1. /\ r \in AllRequests /\ db \in [Orders -> Copies]
      /\ \A o \in Orders : db[o] # None => db[o] \in Order
  BY DEF TypeOK, Copies
<1>2. CASE r.kind \in StatusChanges
  <2>1. r.o \in Orders /\ db[r.o] \in Order /\ r.s \in OrderStatuses
    BY <1>1, <1>2, KindsDiffer DEF RequestOK
  <2>2. WithStatus(db[r.o], r.s) \in Order
    BY <2>1, OrdersTake
  <2>3. Handled(r) = db \/ Handled(r) = [db EXCEPT ![r.o] = WithStatus(db[r.o], r.s)]
    BY <1>1, <1>2, <2>1, KindsDiffer DEF Handled
  <2>4. QED
    BY <1>1, <2>1, <2>2, <2>3, OrdersTake DEF Copies
<1>3. CASE r.kind = "item"
  <2>1. r.o \in Orders /\ db[r.o] \in Order /\ r.i \in Items /\ r.s \in ItemStatuses
    BY <1>1, <1>3, KindsDiffer DEF RequestOK
  <2>2. AfterItem(db[r.o], r.i, r.s) \in Order
    BY <2>1, OrdersTake
  <2>3. Handled(r) = [db EXCEPT ![r.o] = AfterItem(db[r.o], r.i, r.s)]
    BY <1>3, KindsDiffer DEF Handled
  <2>4. QED
    BY <1>1, <2>1, <2>2, <2>3, OrdersTake DEF Copies
<1>4. CASE r.kind \notin StatusChanges /\ r.kind # "item"
  BY <1>1, <1>4 DEF Handled
<1>5. QED
  BY <1>2, <1>3, <1>4

LEMMA Reads ==
    ASSUME NEW u \in Users
    PROVE  /\ Boot(u) \in AllRequests /\ Boot(u).kind \in Loads /\ Boot(u).answer = None
           /\ Board(u) \in AllRequests /\ Board(u).kind = "board" /\ Board(u).answer = None
           /\ \A o \in Orders : /\ Get(u, o) \in AllRequests /\ Get(u, o).kind = "get"
                                /\ Get(u, o).o = o /\ Get(u, o).answer = None
  BY DEF Boot, Board, Get, Request, AllRequests, Loads

LEMMA ReadsAreOK ==
    ASSUME NEW u \in Users, NEW orders
    PROVE  /\ RequestOK(Boot(u), orders)
           /\ RequestOK(Board(u), orders)
           /\ \A o \in Orders : RequestOK(Get(u, o), orders)
<1>1. RequestOK(Boot(u), orders)
  BY Reads, KindsDiffer DEF RequestOK
<1>2. RequestOK(Board(u), orders)
  BY Reads, KindsDiffer DEF RequestOK
<1>3. ASSUME NEW o \in Orders PROVE RequestOK(Get(u, o), orders)
  BY Reads, KindsDiffer DEF RequestOK
<1>4. QED
  BY <1>1, <1>2, <1>3

\* Requests stay as good when the server's orders become more.
LEMMA MoreOrders ==
    ASSUME NEW a, NEW b, Exist(a, b)
    PROVE  /\ \A r : RequestOK(r, a) => RequestOK(r, b)
           /\ \A s : NetOK(s, a) => NetOK(s, b)
           /\ \A copies : Exist(copies, a) => Exist(copies, b)
<1>1. ASSUME NEW r, RequestOK(r, a) PROVE RequestOK(r, b)
  BY <1>1 DEF RequestOK, Exist
<1>2. QED
  BY <1>1 DEF NetOK, Exist

LEMMA NetTakes ==
    ASSUME NEW s, NEW orders, NetOK(s, orders)
    PROVE  /\ \A r \in AllRequests : RequestOK(r, orders) => NetOK(Append(s, r), orders)
           /\ \A t : NetOK(t, orders) => NetOK(s \o t, orders)
           /\ \A n \in DOMAIN s : NetOK(RemoveAt(s, n), orders)
           /\ \A n \in DOMAIN s, r \in AllRequests :
                RequestOK(r, orders) => NetOK(ReplaceAt(s, n, r), orders)
<1>1. s \in Seq(AllRequests) /\ Len(s) \in Nat /\ DOMAIN s = 1 .. Len(s)
  BY DEF NetOK
<1>2. ASSUME NEW r \in AllRequests, RequestOK(r, orders) PROVE NetOK(Append(s, r), orders)
  <2>1. Append(s, r) \in Seq(AllRequests) /\ DOMAIN Append(s, r) = 1 .. Len(s) + 1
    BY <1>1
  <2>2. ASSUME NEW n \in DOMAIN Append(s, r) PROVE RequestOK(Append(s, r)[n], orders)
    <3>1. CASE n = Len(s) + 1
      BY <1>1, <1>2, <3>1
    <3>2. CASE n # Len(s) + 1
      <4>1. n \in DOMAIN s /\ Append(s, r)[n] = s[n]
        BY <1>1, <2>1, <3>2
      <4>2. QED
        BY <4>1 DEF NetOK
    <3>3. QED
      BY <3>1, <3>2
  <2>3. QED
    BY <2>1, <2>2 DEF NetOK
<1>3. ASSUME NEW t, NetOK(t, orders) PROVE NetOK(s \o t, orders)
  <2>1. t \in Seq(AllRequests)
    BY <1>3 DEF NetOK
  <2>2. /\ s \o t \in Seq(AllRequests)
        /\ \A k \in DOMAIN (s \o t) :
             (\E i \in DOMAIN s : (s \o t)[k] = s[i]) \/ \E i \in DOMAIN t : (s \o t)[k] = t[i]
    BY <1>1, <2>1, ConcatKeeps
  <2>3. ASSUME NEW k \in DOMAIN (s \o t) PROVE RequestOK((s \o t)[k], orders)
    BY <1>3, <2>2 DEF NetOK
  <2>4. QED
    BY <2>2, <2>3 DEF NetOK
<1>4. ASSUME NEW n \in DOMAIN s PROVE NetOK(RemoveAt(s, n), orders)
  <2>1. /\ RemoveAt(s, n) \in Seq(AllRequests)
        /\ Len(RemoveAt(s, n)) = Len(s) - 1
        /\ \A k \in 1 .. Len(s) - 1 : RemoveAt(s, n)[k] = s[IF k < n THEN k ELSE k + 1]
    BY <1>1, RemovedAt
  <2>2. ASSUME NEW k \in DOMAIN RemoveAt(s, n) PROVE RequestOK(RemoveAt(s, n)[k], orders)
    <3>1. k \in 1 .. Len(s) - 1 /\ k \in DOMAIN s /\ k + 1 \in DOMAIN s
      BY <1>1, <2>1
    <3>2. RemoveAt(s, n)[k] = s[k] \/ RemoveAt(s, n)[k] = s[k + 1]
      BY <2>1, <3>1
    <3>3. QED
      BY <3>1, <3>2 DEF NetOK
  <2>3. QED
    BY <2>1, <2>2 DEF NetOK
<1>5. ASSUME NEW n \in DOMAIN s, NEW r \in AllRequests, RequestOK(r, orders)
      PROVE  NetOK(ReplaceAt(s, n, r), orders)
  <2>1. /\ ReplaceAt(s, n, r) \in Seq(AllRequests)
        /\ Len(ReplaceAt(s, n, r)) = Len(s)
        /\ \A k \in DOMAIN s : ReplaceAt(s, n, r)[k] = IF k = n THEN r ELSE s[k]
    <3>1. s \in Seq(AllRequests)
      BY <1>1
    <3>2. QED
      BY <3>1, ReplacedAt
  <2>2. DOMAIN ReplaceAt(s, n, r) = DOMAIN s
    BY <1>1, <2>1
  <2>3. QED
    BY <1>5, <2>1, <2>2 DEF NetOK
<1>6. QED
  BY <1>2, <1>3, <1>4, <1>5

\* What an event makes the client ask for.
LEMMA AskedRequests ==
    ASSUME auth \in Users \cup {None}, NEW o \in Orders, NEW orders
    PROVE  NetOK(Requests(o), orders)
<1>1. CASE Requests(o) = <<>>
  BY <1>1 DEF NetOK
<1>2. CASE Requests(o) # <<>>
  <2>1. auth \in Users /\ Requests(o) \in {<<Get(auth, o)>>, <<Get(auth, o), Board(auth)>>}
    BY <1>2 DEF Requests, Asked, Heard
  <2>2. CASE Requests(o) = <<Get(auth, o)>>
    BY <2>1, <2>2, Reads, ReadsAreOK DEF NetOK
  <2>3. CASE Requests(o) = <<Get(auth, o), Board(auth)>>
    <3>1. Requests(o) \in Seq(AllRequests) /\ DOMAIN Requests(o) = 1 .. 2
      BY <2>1, <2>3, Reads
    <3>2. \A n \in 1 .. 2 : RequestOK(Requests(o)[n], orders)
      BY <2>1, <2>3, ReadsAreOK
    <3>3. QED
      BY <3>1, <3>2 DEF NetOK
  <2>4. QED
    BY <2>1, <2>2, <2>3
<1>3. QED
  BY <1>1, <1>2

-----------------------------------------------------------------------------
(* Each step keeps IInv.                                                   *)

LEMMA ConnTypes ==
    ASSUME TypeOK, connectWs
    PROVE  sock' = "connecting" /\ dying' \in Nat
  BY DEF TypeOK, connectWs

LEMMA SpendTypes ==
    ASSUME TypeOK, Spend
    PROVE  moves' \in 0 .. MaxMoves
  BY ClientAssumption DEF TypeOK, Spend

\* Opening the page, or loading it again, starts with an empty store.
LEMMA OpenedOK ==
    ASSUME NEW u \in Users \cup {None}, NEW orders
    PROVE  Opened(u).sock \in {"none", "connecting"} /\ NetOK(Opened(u).net, orders)
<1>1. CASE u = None
  BY <1>1 DEF Opened, NetOK
<1>2. CASE u # None
  <2>1. Opened(u).net = <<Boot(u)>> /\ Opened(u).sock = "connecting"
    BY <1>2 DEF Opened
  <2>2. Boot(u) \in AllRequests /\ RequestOK(Boot(u), orders)
    BY <1>2, Reads, ReadsAreOK
  <2>3. QED
    BY <2>1, <2>2 DEF NetOK
<1>3. QED
  BY <1>1, <1>2

LEMMA InitInv == Init => IInv
<1> SUFFICES ASSUME Init PROVE IInv
  OBVIOUS
<1>1. Nothing \in [Orders -> Copies] /\ \A o \in Orders : Nothing[o] = None
  BY DEF Nothing, Copies
<1>2. db \in [Orders -> Copies]
  BY FirstOrders DEF Init, Copies
<1>3. sock \in {"none", "connecting"} /\ NetOK(net, db)
  BY OpenedOK DEF Init
<1>4. net \in Seq(AllRequests)
  BY <1>3 DEF NetOK
<1>5. TypeOK
  BY <1>1, <1>2, <1>3, <1>4, ClientAssumption DEF Init, TypeOK
<1>6. QED
  BY <1>1, <1>3, <1>5 DEF IInv, Exist, Init

LEMMA LoginKeeps == ASSUME IInv, NEW u \in Users, Login(u) PROVE IInv'
<1>1. net' = Append(net, Boot(u)) /\ db' = db /\ store' = store /\ board' = board
      /\ auth' = u /\ timers' = timers /\ lost' = lost /\ Spend /\ connectWs
  BY DEF Login
<1>2. NetOK(net', db')
  BY <1>1, NetTakes, Reads, ReadsAreOK DEF IInv
<1>3. TypeOK'
  BY <1>1, <1>2, ConnTypes, SpendTypes DEF IInv, TypeOK, NetOK
<1>4. QED
  BY <1>1, <1>2, <1>3 DEF IInv

LEMMA LogoutKeeps == ASSUME IInv, Logout PROVE IInv'
<1>1. TypeOK'
  BY SpendTypes DEF IInv, TypeOK, Logout
<1>2. QED
  BY <1>1 DEF IInv, Logout

LEMMA ReloadKeeps == ASSUME IInv, Reload PROVE IInv'
<1>1. /\ db' = db /\ store' = Nothing /\ board' = Nothing /\ auth' = auth /\ Spend
      /\ dying' = 0 /\ timers' = 0 /\ lost' = {}
      /\ sock' = Opened(auth).sock /\ net' = Opened(auth).net
  BY DEF Reload
<1>2. sock' \in {"none", "connecting"} /\ NetOK(net', db')
  BY <1>1, OpenedOK DEF IInv, TypeOK
<1>3. Nothing \in [Orders -> Copies] /\ \A o \in Orders : Nothing[o] = None
  BY DEF Nothing, Copies
<1>4. moves' \in 0 .. MaxMoves /\ net' \in Seq(AllRequests)
  BY <1>1, <1>2, SpendTypes DEF IInv, NetOK
<1>5. TypeOK'
  BY <1>1, <1>2, <1>3, <1>4 DEF IInv, TypeOK
<1>6. Exist(store', db') /\ Exist(board', db')
  BY <1>1, <1>3 DEF Exist
<1>7. QED
  BY <1>2, <1>5, <1>6 DEF IInv

LEMMA SocketKeeps ==
    ASSUME IInv, SocketOpens \/ SocketFails \/ OnClose \/ Reconnect PROVE IInv'
<1>1. CASE SocketOpens
  BY <1>1 DEF IInv, TypeOK, SocketOpens
<1>2. CASE SocketFails
  <2>1. TypeOK'
    BY <1>2, SpendTypes DEF IInv, TypeOK, SocketFails
  <2>2. QED
    BY <1>2, <2>1 DEF IInv, SocketFails
<1>3. CASE OnClose
  BY <1>3 DEF IInv, TypeOK, OnClose
<1>4. CASE Reconnect
  <2>1. TypeOK'
    BY <1>4, ConnTypes DEF IInv, TypeOK, Reconnect
  <2>2. QED
    BY <1>4, <2>1 DEF IInv, Reconnect
<1>5. QED
  BY <1>1, <1>2, <1>3, <1>4

LEMMA ButtonsFollow ==
    ASSUME NEW role \in {"waiter", "kitchen", "manager"}, NEW t \in OrderStatuses,
           NEW s \in Offered(role, t)
    PROVE  s \in OrderStatuses /\ (s = "cancelled" \/ s \in TRANSITIONS[t])
  BY DEF Offered, KDSCard, SessionActions, ManagerActions, OrderStatuses, ActiveStatuses,
         FinalStatuses, TRANSITIONS

LEMMA ShownExists ==
    ASSUME IInv, NEW o \in Orders, Shown[o] # None
    PROVE  Shown[o] \in Order /\ Shown[o].status \in OrderStatuses /\ db[o] # None
<1>1. Shown[o] \in Order
  BY DEF Shown, IInv, TypeOK, Copies
<1>2. QED
  BY <1>1 DEF Shown, IInv, Exist, Order

LEMMA ChangeStatusKeeps ==
    ASSUME IInv, NEW o \in Orders, NEW s \in OrderStatuses, ChangeStatus(o, s)
    PROVE  IInv'
<1> DEFINE r == Request(Button(RoleOf[auth]), auth, o, s, None, Shown[o].status)
<1>1. net' = Append(net, r) /\ UNCHANGED <<db, auth, store, board, sock, dying, timers, lost>>
      /\ Spend /\ auth # None /\ Shown[o] # None /\ s \in Offered(RoleOf[auth], Shown[o].status)
  BY DEF ChangeStatus, connection
<1>2. auth \in Users /\ RoleOf[auth] \in {"waiter", "kitchen", "manager"}
  BY <1>1, ClientAssumption DEF IInv, TypeOK
<1>3. s = "cancelled" \/ s \in TRANSITIONS[Shown[o].status]
  BY <1>1, <1>2, ShownExists, ButtonsFollow
<1>4. /\ r.kind \in StatusChanges /\ r.o = o /\ r.s = s /\ r.shown = Shown[o].status
      /\ r.answer = None /\ r \in AllRequests
  <2>1. Button(RoleOf[auth]) \in StatusChanges
    BY DEF Button, StatusChanges
  <2>2. QED
    BY <1>1, <1>2, <2>1, ShownExists, KindsDiffer DEF Request, AllRequests
<1> HIDE DEF r
<1>5. RequestOK(r, db)
  BY <1>1, <1>3, <1>4, ShownExists, KindsDiffer DEF RequestOK
<1>6. NetOK(net', db')
  BY <1>1, <1>4, <1>5, NetTakes DEF IInv
<1>7. TypeOK'
  BY <1>1, <1>6, SpendTypes DEF IInv, TypeOK, NetOK
<1>8. QED
  BY <1>1, <1>6, <1>7 DEF IInv

LEMMA UpdateItemKeeps ==
    ASSUME IInv, NEW o \in Orders, NEW i \in Items, NEW s \in ItemStatuses,
           UpdateItemStatus(o, i, s)
    PROVE  IInv'
<1> DEFINE r == Request("item", auth, o, s, i, Shown[o].status)
<1>1. net' = Append(net, r) /\ UNCHANGED <<db, auth, board, sock, dying, timers, lost>>
      /\ Spend /\ Shown[o] # None /\ auth \in Users
      /\ store' = IF store[o] = None THEN store
                  ELSE [store EXCEPT ![o] = WithItem(store[o], i, s)]
  BY DEF UpdateItemStatus, connection, IInv, TypeOK
<1>2. /\ r.kind = "item" /\ r.o = o /\ r.s = s /\ r.i = i
      /\ r.answer = None /\ r \in AllRequests
  BY <1>1, ShownExists DEF Request, Changes, StatusChanges, AllRequests
<1> HIDE DEF r
<1>3. RequestOK(r, db)
  BY <1>1, <1>2, ShownExists, KindsDiffer DEF RequestOK
<1>4. NetOK(net', db')
  BY <1>1, <1>2, <1>3, NetTakes DEF IInv
<1>5. store' \in [Orders -> Copies] /\ \A p \in Orders : store'[p] # None => store[p] # None
  <2>1. store \in [Orders -> Copies]
    BY DEF IInv, TypeOK
  <2>2. CASE store[o] = None
    BY <1>1, <2>1, <2>2
  <2>3. CASE store[o] # None
    <3>1. store[o] \in Order
      BY <2>1, <2>3 DEF Copies
    <3>2. WithItem(store[o], i, s) \in Order
      BY <3>1, OrdersTake
    <3>3. QED
      BY <1>1, <2>1, <2>3, <3>2 DEF Copies
  <2>4. QED
    BY <2>2, <2>3
<1>6. TypeOK'
  BY <1>1, <1>4, <1>5, SpendTypes DEF IInv, TypeOK, NetOK
<1>7. QED
  BY <1>1, <1>4, <1>5, <1>6 DEF IInv, Exist

LEMMA PollKeeps == ASSUME IInv, Poll PROVE IInv'
<1>1. /\ net' = Append(net, Board(auth)) /\ auth \in Users
      /\ UNCHANGED <<db, auth, store, board, sock, dying, timers, lost, moves>>
  BY DEF Poll, InKitchen, connection, IInv, TypeOK
<1>2. NetOK(net', db')
  BY <1>1, NetTakes, Reads, ReadsAreOK DEF IInv
<1>3. TypeOK'
  BY <1>1, <1>2 DEF IInv, TypeOK, NetOK
<1>4. QED
  BY <1>1, <1>2, <1>3 DEF IInv

LEMMA OtherDeviceKeeps == ASSUME IInv, NEW o \in Orders, OtherDevice(o) PROVE IInv'
<1>1. net' = net \o Requests(o) /\ lost' = lost \cup Missed(o) /\ Spend
      /\ UNCHANGED <<auth, store, board, sock, dying, timers>>
  BY DEF OtherDevice, connection
<1>2. db \in [Orders -> Copies]
  BY DEF IInv, TypeOK
<1>3. db' \in [Orders -> Copies] /\ Exist(db, db')
  <2>1. PICK new \in (IF db[o] = None THEN {Fresh} ELSE Elsewhere(db[o])) :
          db' = [db EXCEPT ![o] = new]
    BY DEF OtherDevice
  <2>2. new \in Order
    <3>1. CASE db[o] = None
      BY <2>1, <3>1, FirstOrders
    <3>2. CASE db[o] # None
      BY <1>2, <2>1, <3>2, ElsewhereIsOrder DEF Copies
    <3>3. QED
      BY <3>1, <3>2
  <2>3. QED
    BY <1>2, <2>1, <2>2, OrderAssumption DEF Copies, Exist
<1>4. NetOK(net', db') /\ Exist(store', db') /\ Exist(board', db')
  <2>1. NetOK(Requests(o), db')
    BY AskedRequests DEF IInv, TypeOK
  <2>2. QED
    BY <1>1, <1>3, <2>1, MoreOrders, NetTakes DEF IInv
<1>5. moves' \in 0 .. MaxMoves /\ lost' \subseteq Orders /\ net' \in Seq(AllRequests)
  BY <1>1, <1>4, SpendTypes DEF IInv, TypeOK, Missed, NetOK
<1>6. TypeOK'
  BY <1>1, <1>3, <1>5 DEF IInv, TypeOK
<1>7. QED
  BY <1>4, <1>6 DEF IInv

LEMMA SplitElsewhereKeeps == ASSUME IInv, NEW o \in Orders, SplitElsewhere(o) PROVE IInv'
<1>1. lost' = lost \cup {o} /\ Spend /\ db[o] # None
      /\ db' = [db EXCEPT ![o] = WithStatus(db[o], "cancelled")]
      /\ UNCHANGED <<auth, store, board, net, sock, dying, timers>>
  BY DEF SplitElsewhere, connection
<1>2. db \in [Orders -> Copies] /\ db[o] \in Order
  BY <1>1 DEF IInv, TypeOK, Copies
<1>3. WithStatus(db[o], "cancelled") \in Order
  BY <1>2, OrdersTake, StatusesExist
<1>4. db' \in [Orders -> Copies] /\ Exist(db, db')
  BY <1>1, <1>2, <1>3, OrderAssumption DEF Copies, Exist
<1>5. NetOK(net', db') /\ Exist(store', db') /\ Exist(board', db')
  BY <1>1, <1>4, MoreOrders DEF IInv
<1>6. moves' \in 0 .. MaxMoves /\ lost' \subseteq Orders
  BY <1>1, SpendTypes DEF IInv, TypeOK
<1>7. TypeOK'
  BY <1>1, <1>4, <1>6 DEF IInv, TypeOK
<1>8. QED
  BY <1>5, <1>7 DEF IInv

\* What the server tells is orders it has.
LEMMA ToldExists ==
    ASSUME NEW r \in AllRequests, NEW orders \in [Orders -> Copies]
    PROVE  Told(r, orders) \in [Orders -> Copies] /\ Exist(Told(r, orders), orders)
<1>1. OnBoard(orders) \in [Orders -> Copies] /\ Exist(OnBoard(orders), orders)
  BY DEF OnBoard, Exist, Copies
<1>2. ASSUME NEW u
      PROVE  Listed(u, orders) \in [Orders -> Copies] /\ Exist(Listed(u, orders), orders)
  <2> DEFINE own == [o \in Orders |-> IF WaiterOf[o] = u THEN orders[o] ELSE None]
  <2>1. own \in [Orders -> Copies] /\ Exist(own, orders)
    BY DEF Exist, Copies
  <2>2. Listed(u, orders) \in {OnBoard(orders), own, orders}
    BY DEF Listed
  <2>3. QED
    BY <1>1, <2>1, <2>2 DEF Exist
<1>3. Told(r, orders) \in {OnBoard(orders), Listed(r.by, orders), orders}
  BY DEF Told
<1>4. QED
  BY <1>1, <1>2, <1>3 DEF Exist

\* Requests are about orders.
LEMMA AboutOrders ==
    ASSUME NEW r \in AllRequests, NEW orders, RequestOK(r, orders)
    PROVE  About(r) \subseteq Orders
<1>1. CASE r.kind \in Loads
  BY <1>1 DEF About
<1>2. CASE r.kind = "board"
  BY <1>2 DEF About, Loads
<1>3. CASE r.kind \notin Loads /\ r.kind # "board"
  <2>1. r.kind \in Changes \cup {"get"}
    BY <1>3 DEF AllRequests
  <2>2. r.o \in Orders
    BY <2>1 DEF RequestOK
  <2>3. QED
    BY <1>3, <2>2 DEF About
<1>4. QED
  BY <1>1, <1>2, <1>3

\* Both ways in which a request gets its answer: the server's orders are db or what it
\* makes of them, and the answer is what the server tells of them or says that the
\* request failed.
LEMMA AnswersKeep ==
    ASSUME IInv, NEW n \in DOMAIN net,
           db' \in {db, Handled(net[n])},
           \E answer \in {Told(net[n], db'), Failed}, t \in {<<>>, Requests(net[n].o)} :
             /\ t # <<>> => net[n].kind \in Changes
             /\ net' = ReplaceAt(net, n, [net[n] EXCEPT !.answer = answer]) \o t,
           moves' \in 0 .. MaxMoves, lost' \subseteq Orders,
           UNCHANGED <<auth, store, board, sock, dying, timers>>
    PROVE  IInv'
<1>0. PICK answer \in {Told(net[n], db'), Failed}, t \in {<<>>, Requests(net[n].o)} :
        /\ t # <<>> => net[n].kind \in Changes
        /\ net' = ReplaceAt(net, n, [net[n] EXCEPT !.answer = answer]) \o t
  OBVIOUS
<1> DEFINE r == [net[n] EXCEPT !.answer = answer]
<1>1. /\ net[n] \in AllRequests /\ RequestOK(net[n], db) /\ NetOK(net, db)
      /\ db \in [Orders -> Copies]
  BY DEF IInv, TypeOK, NetOK
<1>2. db' \in [Orders -> Copies] /\ Exist(db, db')
  BY <1>1, HandledKeeps DEF IInv, Exist
<1>3. NetOK(net, db') /\ RequestOK(net[n], db')
  BY <1>1, <1>2, MoreOrders
<1>4. /\ r.kind = net[n].kind /\ r.o = net[n].o /\ r.s = net[n].s /\ r.i = net[n].i
      /\ r.shown = net[n].shown /\ r.answer = answer /\ r \in AllRequests
  <2>1. answer \in [Orders -> Copies] \cup {None, Failed}
    BY <1>0, <1>1, <1>2, ToldExists
  <2>2. QED
    BY <1>1, <2>1 DEF AllRequests
<1> HIDE DEF r
<1>5. RequestOK(r, db')
  <2>1. answer = Failed \/ Exist(answer, db')
    BY <1>0, <1>1, <1>2, ToldExists
  <2>2. QED
    BY <1>3, <1>4, <2>1 DEF RequestOK, Exist
<1>6. NetOK(ReplaceAt(net, n, r), db')
  BY <1>3, <1>4, <1>5, NetTakes
<1>7. NetOK(t, db')
  <2>1. CASE t = <<>>
    BY <2>1 DEF NetOK
  <2>2. CASE t = Requests(net[n].o) /\ net[n].kind \in Changes
    BY <1>1, <2>2, AskedRequests DEF RequestOK, IInv, TypeOK
  <2>3. QED
    BY <1>0, <2>1, <2>2
<1>8. NetOK(net', db')
  <2>1. net' = ReplaceAt(net, n, r) \o t
    BY <1>0 DEF r
  <2>2. QED
    BY <1>6, <1>7, <2>1, NetTakes
<1>9. Exist(store', db') /\ Exist(board', db')
  BY <1>2, MoreOrders DEF IInv
<1>10. net' \in Seq(AllRequests)
  BY <1>8 DEF NetOK
<1>11. TypeOK'
  BY <1>2, <1>10 DEF IInv, TypeOK
<1>12. QED
  BY <1>8, <1>9, <1>11 DEF IInv

LEMMA AnswerKeeps == ASSUME IInv, NEW n \in DOMAIN net, Answer(n) PROVE IInv'
<1> DEFINE t == IF net[n].kind \in Changes THEN Requests(net[n].o) ELSE <<>>
<1>1. /\ db' = Handled(net[n])
      /\ net' = ReplaceAt(net, n, [net[n] EXCEPT !.answer = Told(net[n], db')]) \o t
      /\ lost' = Crossed(n) \cup
                   (IF net[n].kind \in Changes THEN lost \cup Missed(net[n].o) ELSE Found(net[n]))
      /\ UNCHANGED <<auth, store, board, sock, dying, timers, moves>>
  BY DEF Answer, connection
<1>2. t \in {<<>>, Requests(net[n].o)} /\ (t # <<>> => net[n].kind \in Changes)
  OBVIOUS
<1>3. lost' \subseteq Orders
  <2>1. RequestOK(net[n], db) /\ lost \subseteq Orders /\ net[n] \in AllRequests
    BY DEF IInv, TypeOK, NetOK
  <2>2. Crossed(n) \subseteq Orders
    BY <2>1, AboutOrders DEF Crossed
  <2>3. QED
    BY <1>1, <2>1, <2>2 DEF Missed, Found, RequestOK
<1>4. moves' \in 0 .. MaxMoves
  BY <1>1 DEF IInv, TypeOK
<1> HIDE DEF t
<1>5. /\ db' \in {db, Handled(net[n])}
      /\ UNCHANGED <<auth, store, board, sock, dying, timers>>
  BY <1>1
<1>6. \E answer \in {Told(net[n], db'), Failed}, u \in {<<>>, Requests(net[n].o)} :
        /\ u # <<>> => net[n].kind \in Changes
        /\ net' = ReplaceAt(net, n, [net[n] EXCEPT !.answer = answer]) \o u
  BY <1>1, <1>2
<1>7. QED
  BY <1>3, <1>4, <1>5, <1>6, AnswersKeep

LEMMA FailingKeeps == ASSUME IInv, NEW n \in DOMAIN net, Failing(n) PROVE IInv'
<1> DEFINE t == IF db' # db THEN Requests(net[n].o) ELSE <<>>
<1>1. /\ db' \in {db, Handled(net[n])}
      /\ net' = ReplaceAt(net, n, [net[n] EXCEPT !.answer = Failed]) \o t
      /\ lost' = lost \cup Lacking(net[n]) \cup (IF db' # db THEN Missed(net[n].o) ELSE {})
      /\ UNCHANGED <<auth, store, board, sock, dying, timers>>
      /\ moves' = moves \/ Spend
  BY DEF Failing, connection
<1>2. db' # db => net[n].kind \in Changes
  BY <1>1, KindsDiffer DEF Handled
<1>3. t \in {<<>>, Requests(net[n].o)} /\ (t # <<>> => net[n].kind \in Changes)
  BY <1>2
<1>4. lost' \subseteq Orders
  <2>1. RequestOK(net[n], db) /\ lost \subseteq Orders
    BY DEF IInv, TypeOK, NetOK
  <2>2. db' # db => net[n].o \in Orders
    BY <1>2, <2>1 DEF RequestOK
  <2>3. Lacking(net[n]) \subseteq Orders
    BY <2>1, KindsDiffer DEF Lacking, RequestOK
  <2>4. QED
    BY <1>1, <2>1, <2>2, <2>3 DEF Missed
<1>5. moves' \in 0 .. MaxMoves
  BY <1>1, SpendTypes DEF IInv, TypeOK
<1> HIDE DEF t
<1>6. /\ db' \in {db, Handled(net[n])}
      /\ UNCHANGED <<auth, store, board, sock, dying, timers>>
  BY <1>1
<1>7. \E answer \in {Told(net[n], db'), Failed}, u \in {<<>>, Requests(net[n].o)} :
        /\ u # <<>> => net[n].kind \in Changes
        /\ net' = ReplaceAt(net, n, [net[n] EXCEPT !.answer = answer]) \o u
  BY <1>1, <1>3
<1>8. QED
  BY <1>4, <1>5, <1>6, <1>7, AnswersKeep

\* What an answer brings to the list and the board exists on the server.
LEMMA DeliveredExists ==
    ASSUME IInv, NEW n \in DOMAIN net, net[n].answer \notin {None, Failed}
    PROVE  LET r == net[n]
           IN  /\ Reduced(store, r) \in [Orders -> Copies] /\ Exist(Reduced(store, r), db)
               /\ NewBoard(r) \in [Orders -> Copies] /\ Exist(NewBoard(r), db)
<1> DEFINE r == net[n]
<1>1. /\ store \in [Orders -> Copies] /\ board \in [Orders -> Copies]
      /\ Exist(store, db) /\ Exist(board, db)
      /\ r \in AllRequests /\ RequestOK(r, db)
  BY DEF IInv, TypeOK, NetOK
<1>2. r.answer \in [Orders -> Copies] /\ Exist(r.answer, db)
  BY <1>1 DEF AllRequests, RequestOK, Exist
<1>3. Reduced(store, r) \in [Orders -> Copies] /\ Exist(Reduced(store, r), db)
  <2>1. CASE r.kind \in Loads
    <3>1. Reduced(store, r) = r.answer
      BY <2>1, KindsDiffer DEF Reduced
    <3>2. QED
      BY <1>2, <3>1
  <2>2. CASE r.kind \notin Loads /\ r.kind \in Changes \cup {"get"}
    <3>1. r.o \in Orders
      BY <1>1, <2>2 DEF RequestOK
    <3>2. Reduced(store, r) = [store EXCEPT ![r.o] = r.answer[r.o]]
      BY <2>2 DEF Reduced
    <3>3. QED
      BY <1>1, <1>2, <3>1, <3>2 DEF Exist
  <2>3. CASE r.kind \notin Loads /\ r.kind \notin Changes \cup {"get"}
    BY <1>1, <2>3 DEF Reduced
  <2>4. QED
    BY <2>1, <2>2, <2>3
<1>4. NewBoard(r) \in [Orders -> Copies] /\ Exist(NewBoard(r), db)
  BY <1>1, <1>2 DEF NewBoard
<1>5. QED
  BY <1>3, <1>4

LEMMA DeliverKeeps == ASSUME IInv, NEW n \in DOMAIN net, Deliver(n) PROVE IInv'
<1>1. /\ UNCHANGED <<db, auth, sock, dying, timers, moves>>
      /\ net[n].answer # None /\ lost' = lost \cup Overtaken(n)
  BY DEF Deliver, connection
<1>2. NetOK(net, db) /\ NetOK(RemoveAt(net, n), db)
  BY NetTakes DEF IInv
<1>3. NetOK(<<>>, db) /\ NetOK(<<Board(net[n].by)>>, db)
  <2>1. net[n] \in AllRequests
    BY DEF IInv, NetOK
  <2>2. net[n].by \in Users
    BY <2>1 DEF AllRequests
  <2>3. Board(net[n].by) \in AllRequests /\ RequestOK(Board(net[n].by), db)
    BY <2>2, Reads, ReadsAreOK
  <2>4. QED
    BY <2>3 DEF NetOK
<1>4. net' = RemoveAt(net, n) \/ \E t \in {<<>>, <<Board(net[n].by)>>} : net' = RemoveAt(net, n) \o t
  BY DEF Deliver
<1>5. NetOK(net', db')
  <2>1. CASE net' = RemoveAt(net, n)
    BY <1>1, <1>2, <2>1
  <2>2. ASSUME NEW t \in {<<>>, <<Board(net[n].by)>>}, net' = RemoveAt(net, n) \o t PROVE NetOK(net', db')
    <3>1. NetOK(t, db)
      BY <1>3
    <3>2. NetOK(RemoveAt(net, n) \o t, db)
      BY <1>2, <3>1, NetTakes
    <3>3. QED
      BY <1>1, <2>2, <3>2
  <2>3. QED
    BY <1>4, <2>1, <2>2
<1>6. /\ {store', board'} \subseteq [Orders -> Copies]
      /\ Exist(store', db') /\ Exist(board', db')
  <2>1. CASE net[n].answer = Failed
    BY <1>1, <2>1 DEF Deliver, Succeeded, IInv, TypeOK
  <2>2. CASE net[n].answer # Failed
    BY <1>1, <2>2, DeliveredExists DEF Deliver, Succeeded
  <2>3. QED
    BY <2>1, <2>2
<1>7. net' \in Seq(AllRequests)
  BY <1>5 DEF NetOK
<1>8. lost' \subseteq Orders
  <2>1. lost \subseteq Orders /\ About(net[n]) \subseteq Orders
    BY AboutOrders DEF IInv, TypeOK, NetOK
  <2>2. QED
    BY <1>1, <2>1 DEF Overtaken
<1>9. TypeOK'
  BY <1>1, <1>6, <1>7, <1>8 DEF IInv, TypeOK
<1>10. QED
  BY <1>5, <1>6, <1>9 DEF IInv

\* Every step keeps the invariant: one lemma per action above.
LEMMA StepKeeps == IInv /\ [Next]_vars => IInv'
<1> SUFFICES ASSUME IInv, [Next]_vars PROVE IInv'
  OBVIOUS
<1>1. CASE UserStep
  BY <1>1, LoginKeeps, LogoutKeeps, ReloadKeeps, ChangeStatusKeeps, UpdateItemKeeps DEF UserStep
<1>2. CASE SocketOpens \/ SocketFails \/ OnClose \/ Reconnect
  BY <1>2, SocketKeeps
<1>3. CASE Poll
  BY <1>3, PollKeeps
<1>4. CASE \E o \in Orders : OtherDevice(o) \/ SplitElsewhere(o)
  BY <1>4, OtherDeviceKeeps, SplitElsewhereKeeps
<1>5. CASE \E n \in DOMAIN net : Answer(n) \/ Failing(n) \/ Deliver(n)
  BY <1>5, AnswerKeeps, FailingKeeps, DeliverKeeps
<1>6. CASE UNCHANGED vars
  BY <1>6 DEF vars, IInv, TypeOK
<1>7. QED
  BY <1>1, <1>2, <1>3, <1>4, <1>5, <1>6 DEF Next

\* The store, the board, the requests and the socket keep their types, through failed
\* requests, logins and answers in any order (store.tsx:41-162).
THEOREM StoreTypes == Spec => []TypeOK
<1>1. IInv => TypeOK
  BY DEF IInv
<1>2. QED
  BY <1>1, InitInv, StepKeeps, PTL DEF Spec

\* Only one status leads to each status a button sets, apart from a cancellation.
LEMMA OneWayThere ==
    ASSUME NEW t \in OrderStatuses, NEW u \in OrderStatuses, NEW s,
           s \in TRANSITIONS[t], s \in TRANSITIONS[u], s # "cancelled"
    PROVE  t = u
  BY DEF OrderStatuses, ActiveStatuses, FinalStatuses, TRANSITIONS

SeenStep ==
    \A n \in DOMAIN net :
      /\ net[n].kind \in {"kds", "status"}
      /\ net[n].answer = None
      /\ n \in DOMAIN net' /\ net'[n].answer \notin {None, Failed}
      /\ db' # db
      => \/ db[net[n].o].status = net[n].shown
         \/ net[n].s = "cancelled"

LEMMA AppendedKeep ==
    ASSUME NEW s \in Seq(AllRequests), NEW t \in Seq(AllRequests), NEW n \in DOMAIN s
    PROVE  (s \o t)[n] = s[n]
  BY ConcatKeeps

\* Every step keeps what the button's user saw.
LEMMA SeenIsMovedStep == IInv /\ [Next]_vars => SeenStep
<1> SUFFICES ASSUME IInv, [Next]_vars, NEW n \in DOMAIN net,
                    net[n].kind \in {"kds", "status"}, net[n].answer = None,
                    n \in DOMAIN net', net'[n].answer \notin {None, Failed},
                    db' # db
             PROVE  db[net[n].o].status = net[n].shown \/ net[n].s = "cancelled"
  BY DEF SeenStep
<1>1. net \in Seq(AllRequests) /\ RequestOK(net[n], db) /\ db \in [Orders -> Copies]
      /\ net[n].kind \in StatusChanges
  BY DEF IInv, TypeOK, NetOK, StatusChanges
<1>2. ASSUME NEW o \in Orders, OtherDevice(o) PROVE FALSE
  <2>1. net' = net \o Requests(o) /\ Requests(o) \in Seq(AllRequests)
    BY <1>2, AskedRequests DEF OtherDevice, NetOK, IInv, TypeOK
  <2>2. net'[n] = net[n]
    BY <1>1, <2>1, AppendedKeep
  <2>3. QED
    BY <2>2
<1>2a. ASSUME NEW o \in Orders, SplitElsewhere(o) PROVE FALSE
  BY <1>2a DEF SplitElsewhere
<1>3. ASSUME NEW m \in DOMAIN net, NEW answer, NEW t \in Seq(AllRequests),
             [net[m] EXCEPT !.answer = answer] \in AllRequests,
             net' = ReplaceAt(net, m, [net[m] EXCEPT !.answer = answer]) \o t
      PROVE  m = n /\ answer \notin {None, Failed}
  <2> DEFINE r == [net[m] EXCEPT !.answer = answer]
  <2>1. r \in AllRequests /\ r.answer = answer
    BY <1>1, <1>3 DEF AllRequests
  <2> HIDE DEF r
  <2>2. /\ ReplaceAt(net, m, r) \in Seq(AllRequests)
        /\ Len(ReplaceAt(net, m, r)) = Len(net)
        /\ ReplaceAt(net, m, r)[n] = IF n = m THEN r ELSE net[n]
    <3>1. net \in Seq(AllRequests)
      BY <1>1
    <3>2. /\ ReplaceAt(net, m, r) \in Seq(AllRequests)
          /\ Len(ReplaceAt(net, m, r)) = Len(net)
          /\ \A k \in DOMAIN net : ReplaceAt(net, m, r)[k] = IF k = m THEN r ELSE net[k]
      BY <2>1, <3>1, ReplacedAt
    <3>3. QED
      BY <3>2
  <2>3. n \in DOMAIN ReplaceAt(net, m, r)
    BY <1>1, <2>2
  <2>4. net'[n] = IF n = m THEN r ELSE net[n]
    BY <1>3, <2>2, <2>3, AppendedKeep DEF r
  <2>5. QED
    BY <2>1, <2>4
<1>4. ASSUME NEW m \in DOMAIN net, Answer(m)
      PROVE  db[net[n].o].status = net[n].shown \/ net[n].s = "cancelled"
  <2> DEFINE t == IF net[m].kind \in Changes THEN Requests(net[m].o) ELSE <<>>
  <2>1. /\ net' = ReplaceAt(net, m, [net[m] EXCEPT !.answer = Told(net[m], db')]) \o t
        /\ net[m].kind \in StatusChanges => Accepts(net[m])
    BY <1>4 DEF Answer
  <2>2. IInv'
    BY <1>4, AnswerKeeps
  <2>3. db' \in [Orders -> Copies] /\ net[m] \in AllRequests /\ RequestOK(net[m], db)
    BY <2>2 DEF IInv, TypeOK, NetOK
  <2>4. [net[m] EXCEPT !.answer = Told(net[m], db')] \in AllRequests
    BY <2>3, ToldExists DEF AllRequests
  <2>5. t \in Seq(AllRequests)
    BY <2>3, AskedRequests DEF RequestOK, NetOK, IInv, TypeOK
  <2> HIDE DEF t
  <2>6. m = n
    BY <1>3, <2>1, <2>4, <2>5
  <2>7. net[n].s \in TRANSITIONS[db[net[n].o].status]
    BY <1>1, <2>1, <2>6 DEF Accepts
  <2>8. /\ db[net[n].o].status \in OrderStatuses /\ net[n].shown \in OrderStatuses
        /\ net[n].s = "cancelled" \/ net[n].s \in TRANSITIONS[net[n].shown]
    <3>1. db[net[n].o] \in Order
      BY <1>1, KindsDiffer DEF RequestOK, Copies
    <3>2. QED
      BY <1>1, <3>1 DEF RequestOK, Order
  <2>9. QED
    BY <2>7, <2>8, OneWayThere
<1>5. ASSUME NEW m \in DOMAIN net, Failing(m) PROVE FALSE
  <2> DEFINE t == IF db' # db THEN Requests(net[m].o) ELSE <<>>
  <2>1. /\ net' = ReplaceAt(net, m, [net[m] EXCEPT !.answer = Failed]) \o t
        /\ db' \in {db, Handled(net[m])}
    BY <1>5 DEF Failing
  <2>2. net[m] \in AllRequests /\ RequestOK(net[m], db) /\ net[m].kind \in Changes
    BY <2>1, KindsDiffer DEF IInv, TypeOK, NetOK, Handled
  <2>3. [net[m] EXCEPT !.answer = Failed] \in AllRequests
    BY <2>2 DEF AllRequests
  <2>4. t \in Seq(AllRequests)
    BY <2>2, AskedRequests DEF RequestOK, NetOK, IInv, TypeOK
  <2> HIDE DEF t
  <2>5. QED
    BY <1>3, <2>1, <2>3, <2>4
<1>6. ASSUME UNCHANGED db PROVE FALSE
  BY <1>6
<1>7. CASE UserStep
  BY <1>6, <1>7 DEF UserStep, Login, Logout, Reload, ChangeStatus, UpdateItemStatus
<1>8. CASE SocketOpens \/ SocketFails \/ OnClose \/ Reconnect \/ Poll
  BY <1>6, <1>8 DEF SocketOpens, SocketFails, OnClose, Reconnect, Poll
<1>9. ASSUME NEW m \in DOMAIN net, Deliver(m) PROVE FALSE
  BY <1>6, <1>9 DEF Deliver
<1>10. CASE UNCHANGED vars
  BY <1>6, <1>10 DEF vars
<1>11. QED
  BY <1>2, <1>4, <1>5, <1>7, <1>8, <1>9, <1>10, <1>2a DEF Next

\* A status request of the kitchen or a waiter that the server accepts finds the order in the status its user saw, or
\* cancels it, however stale the screen, in whatever order answers come
\* (Kitchen.tsx:154-189, TableSession.tsx:275-283, orders.py:409-413).
THEOREM ButtonsActOnWhatIsSeen == Spec => SeenIsMoved
<1>1. IInv /\ [Next]_vars => [SeenStep]_vars
  BY SeenIsMovedStep
<1>2. QED
  BY <1>1, InitInv, StepKeeps, PTL DEF Spec, SeenIsMoved, SeenStep

=============================================================================
