---------------------------- MODULE OrdersProofs ----------------------------
(***************************************************************************)
(* Theorems about Orders, for any users, tables, menu, keys and bounds.    *)
(***************************************************************************)
EXTENDS Orders, SequenceTheorems, SumLemmas

\* A function on 1..n is a sequence.
LEMMA FunctionIsSeq ==
    ASSUME NEW S, NEW n \in Nat, NEW f \in [1 .. n -> S]
    PROVE  f \in Seq(S) /\ Len(f) = n
  OBVIOUS

\* SetToSeq lists the elements of a finite set.
LEMMA SetToSeqIsSeq ==
    ASSUME NEW S, IsFiniteSet(S)
    PROVE  SetToSeq(S) \in Seq(S)
<1> DEFINE N == Cardinality(S)
<1>1. N \in Nat /\ ExistsBijection(1 .. N, S)
  BY FS_CardinalityType
<1>2. PICK f \in Bijection(1 .. N, S) : TRUE
  BY <1>1 DEF ExistsBijection
<1>3. f \in [1 .. N -> S] /\ IsInjective(f)
  BY <1>2 DEF Bijection, Injection, IsInjective
<1>4. SetToSeq(S) \in [1 .. N -> S]
  BY <1>3 DEF SetToSeq
<1>5. QED
  BY <1>1, <1>4, FunctionIsSeq

\* It lists each of them once.
Lists(s, S) ==
    /\ Len(s) \in Nat /\ s \in [1 .. Len(s) -> S]
    /\ \A i, j \in 1 .. Len(s) : s[i] = s[j] => i = j
    /\ \A x \in S : \E i \in 1 .. Len(s) : s[i] = x

LEMMA SetToSeqLists == ASSUME NEW S, IsFiniteSet(S) PROVE Lists(SetToSeq(S), S)
<1> DEFINE N == Cardinality(S)
           s == SetToSeq(S)
<1>1. N \in Nat /\ ExistsBijection(1 .. N, S)
  BY FS_CardinalityType
<1>2. PICK f \in Bijection(1 .. N, S) : TRUE
  BY <1>1 DEF ExistsBijection
<1>3. f \in [1 .. N -> S] /\ IsInjective(f)
  BY <1>2 DEF Bijection, Injection, IsInjective
<1>4. s \in [1 .. N -> S] /\ IsInjective(s)
  BY <1>3 DEF SetToSeq
<1>5. IsFiniteSet(1 .. N) /\ Cardinality(1 .. N) = N
  BY <1>1, FS_Interval
<1> HIDE DEF s
<1>6. s \in Injection(1 .. N, S)
  BY <1>4 DEF Injection, IsInjective
<1>7. s \in Surjection(1 .. N, S)
  BY <1>5, <1>6, FS_Injection
<1>8. Len(s) = N
  BY <1>1, <1>4, FunctionIsSeq
<1>9. \A x \in S : \E i \in 1 .. N : s[i] = x
  BY <1>7 DEF Surjection
<1>10. QED
  BY <1>1, <1>4, <1>8, <1>9 DEF s, IsInjective, Lists

-----------------------------------------------------------------------------
(* Types of what the handlers compute.                                     *)

LEMMA PricedType ==
    ASSUME RowsOK, NEW cart \in Carts
    PROVE  Priced(cart) \in Seq(Line)
<1>1. PICK n \in 1 .. MaxLines : cart \in [1 .. n -> CartLine]
  BY DEF Carts
<1>2. n \in Nat
  BY Bounds
<1>3. ASSUME NEW i \in 1 .. n
      PROVE  [menu |-> cart[i].menu, qty |-> cart[i].qty,
              price |-> menu[cart[i].menu].price, status |-> "pending"] \in Line
  BY <1>1, <1>3 DEF RowsOK, CartLine, MenuRow, Line, ItemStatuses
<1>4. Priced(cart) \in [1 .. n -> Line]
  BY <1>1, <1>3 DEF Priced
<1>5. QED
  BY <1>2, <1>4, FunctionIsSeq

LEMMA ServedItemsType ==
    ASSUME NEW items \in Seq(Line)
    PROVE  AllServed(items) \in Seq(Line)
<1>1. DOMAIN items = 1 .. Len(items) /\ Len(items) \in Nat
  BY LenProperties
<1>2. ASSUME NEW i \in 1 .. Len(items)
      PROVE  [items[i] EXCEPT !.status = "served"] \in Line
  <2>1. items[i] \in Line
    BY ElementOfSeq
  <2>2. QED
    BY <2>1 DEF Line, ItemStatuses
<1>3. AllServed(items) \in [1 .. Len(items) -> Line]
  BY <1>1, <1>2 DEF AllServed
<1>4. QED
  BY <1>1, <1>3, FunctionIsSeq

LEMMA ItemStatusType ==
    ASSUME NEW items \in Seq(Line), NEW i \in DOMAIN items, NEW s \in ItemStatuses
    PROVE  [items EXCEPT ![i] = [@ EXCEPT !.status = s]] \in Seq(Line)
<1>1. DOMAIN items = 1 .. Len(items)
  BY LenProperties
<1>2. items[i] \in Line
  BY <1>1, ElementOfSeq
<1>3. [items[i] EXCEPT !.status = s] \in Line
  BY <1>2 DEF Line
<1>4. QED
  BY <1>1, <1>3, ExceptSeq

\* The row that results from reaching a status is a row with that status, the
\* stamp that belongs to it, and everything else as it was.
LEMMA AdvancedRow ==
    ASSUME NEW row \in OrderRow, NEW s \in OrderStatuses
    PROVE  /\ Advanced(row, s) \in OrderRow
           /\ Advanced(row, s).status = s
           /\ s = "ready" => Advanced(row, s).readyAt
           /\ s = "served" => Advanced(row, s).servedAt
           /\ s = "paid" => Advanced(row, s).paidAt
           /\ \A f \in {"table", "waiter", "key", "born", "items"} : Advanced(row, s)[f] = row[f]
  BY DEF Advanced, OrderRow

LEMMA ActiveOrders ==
    ASSUME NEW t, NEW o \in Active(t)
    PROVE  o \in DOMAIN orders /\ orders[o].table = t /\ orders[o].status \notin FinalStatuses
  BY DEF Active, IsActive

LEMMA RowType ==
    ASSUME RowsOK, NEW o \in DOMAIN orders
    PROVE  /\ DOMAIN orders = 1 .. Len(orders)
           /\ orders[o] \in OrderRow
  BY LenProperties, ElementOfSeq DEF RowsOK

-----------------------------------------------------------------------------
(* A split.                                                                *)

LEMMA ActiveItemsFinite ==
    ASSUME RowsOK, NEW t
    PROVE  IsFiniteSet(ActiveItems(t))
<1> DEFINE f == [o \in Active(t) |-> {o} \X DOMAIN orders[o].items]
           T == {f[o] : o \in Active(t)}
<1>1. IsFiniteSet(Active(t))
  <2>1. Len(orders) \in Nat /\ DOMAIN orders = 1 .. Len(orders)
    BY LenProperties DEF RowsOK
  <2>2. IsFiniteSet(1 .. Len(orders))
    BY <2>1, FS_Interval
  <2>3. Active(t) \in SUBSET (1 .. Len(orders))
    BY <2>1 DEF Active
  <2>4. QED
    BY <2>2, <2>3, FS_Subset
<1>2. ASSUME NEW o \in Active(t)
      PROVE  IsFiniteSet(f[o])
  <2>1. o \in DOMAIN orders
    BY ActiveOrders
  <2>2. orders[o].items \in Seq(Line)
    BY <2>1, RowType DEF OrderRow
  <2>3. DOMAIN orders[o].items = 1 .. Len(orders[o].items) /\ Len(orders[o].items) \in Nat
    BY <2>2, LenProperties
  <2>4. IsFiniteSet(DOMAIN orders[o].items)
    <3> DEFINE n == Len(orders[o].items)
    <3>1. n \in Int
      BY <2>3
    <3> HIDE DEF n
    <3>2. IsFiniteSet(1 .. n)
      BY <3>1, FS_Interval
    <3>3. QED
      BY <2>3, <3>2 DEF n
  <2>5. IsFiniteSet({o})
    BY FS_Singleton
  <2>6. IsFiniteSet({o} \X DOMAIN orders[o].items)
    BY <2>4, <2>5, FS_Product
  <2>7. QED
    BY <2>6
<1>3. IsFiniteSet(T)
  <2>1. f \in Surjection(Active(t), T)
    BY DEF Surjection
  <2>2. QED
    BY <1>1, <2>1, FS_Surjection DEF ExistsSurjection
<1>4. IsFiniteSet(UNION T)
  <2>1. \A X \in T : IsFiniteSet(X)
    BY <1>2
  <2>2. QED
    BY <1>3, <2>1, FS_UNION
<1>5. UNION T = ActiveItems(t)
  BY DEF ActiveItems
<1>6. QED
  BY <1>4, <1>5

LEMMA CheckLinesType ==
    ASSUME RowsOK, NEW t, NEW share \in SplitRequests(t), NEW c \in Checks
    PROVE  CheckLines(share, c) \in Seq(Line)
<1>1. PICK m \in SUBSET ActiveItems(t) : share \in [m -> [Checks -> 0 .. MaxQty]]
  BY DEF SplitRequests
<1> DEFINE S == {x \in DOMAIN share : share[x][c] > 0}
           items == CheckItems(share, c)
<1>2. IsFiniteSet(S)
  BY <1>1, ActiveItemsFinite, FS_Subset
<1>3. items \in Seq(S) /\ Len(items) \in Nat /\ DOMAIN items = 1 .. Len(items)
  BY <1>2, SetToSeqIsSeq, LenProperties DEF CheckItems
<1>4. ASSUME NEW k \in 1 .. Len(items)
      PROVE  [Item(items[k]) EXCEPT !.qty = share[items[k]][c]] \in Line
  <2>1. items[k] \in S
    BY <1>3, ElementOfSeq
  <2>2. PICK o \in Active(t) : items[k] \in {o} \X DOMAIN orders[o].items
    BY <1>1, <2>1 DEF ActiveItems
  <2>3. orders[o].items \in Seq(Line)
    BY ActiveOrders, RowType DEF OrderRow
  <2>4. Item(items[k]) \in Line
    BY <2>2, <2>3, LenProperties, ElementOfSeq DEF Item
  <2>5. share[items[k]][c] \in 1 .. MaxQty
    BY <1>1, <2>1, Bounds
  <2>6. QED
    BY <2>4, <2>5 DEF Line
<1>5. CheckLines(share, c) \in [1 .. Len(items) -> Line]
  BY <1>3, <1>4 DEF CheckLines
<1>6. QED
  BY <1>3, <1>5, FunctionIsSeq

LEMMA FilledChecksType ==
    ASSUME NEW share
    PROVE  /\ FilledChecks(share) \in Seq(Checks)
           /\ Len(FilledChecks(share)) \in Nat
           /\ DOMAIN FilledChecks(share) = 1 .. Len(FilledChecks(share))
<1> DEFINE S == {c \in Checks : CheckItems(share, c) # <<>>}
<1>1. IsFiniteSet(Checks)
  BY FS_Interval, Bounds DEF Checks
<1>2. IsFiniteSet(S)
  BY <1>1, FS_Subset
<1>3. FilledChecks(share) \in Seq(S)
  BY <1>2, SetToSeqIsSeq DEF FilledChecks
<1>4. FilledChecks(share) \in Seq(Checks)
  BY <1>3, SeqMonotonic
<1>5. QED
  BY <1>4, LenProperties

\* What a split does to the order rows: the active ones of the table become
\* cancelled, the others stay, and the rows it adds are split rows of `first`.
LEMMA SplitShape ==
    ASSUME RowsOK, NEW u, NEW t, NEW share \in SplitRequests(t),
           NEW first \in Newest(Active(t)), SplitTable(u, t, share, first)
    PROVE  /\ orders' \in Seq(OrderRow)
           /\ Len(orders') = Len(orders) + Len(FilledChecks(share))
           /\ \A o \in 1 .. Len(orders) :
                orders'[o] = IF o \in Active(t) THEN [orders[o] EXCEPT !.status = "cancelled"]
                                                ELSE orders[o]
           /\ \A o \in Len(orders) + 1 .. Len(orders') :
                orders'[o] = SplitRow(first, CheckLines(share, FilledChecks(share)[o - Len(orders)]))
<1> DEFINE filled == FilledChecks(share)
           old == Superseded(t)
           new == [n \in DOMAIN filled |-> SplitRow(first, CheckLines(share, filled[n]))]
           L == Len(orders)
           F == Len(filled)
<1>1. L \in Nat /\ DOMAIN orders = 1 .. L
  BY LenProperties DEF RowsOK
<1>2. F \in Nat /\ DOMAIN filled = 1 .. F
  BY FilledChecksType
<1>3. old \in Seq(OrderRow) /\ Len(old) = L
  <2>1. ASSUME NEW o \in 1 .. L
        PROVE  /\ orders[o] \in OrderRow
               /\ [orders[o] EXCEPT !.status = "cancelled"] \in OrderRow
    BY <1>1, RowType DEF OrderRow, OrderStatuses, FinalStatuses
  <2>2. old \in [1 .. L -> OrderRow]
    BY <1>1, <2>1 DEF Superseded
  <2>3. QED
    BY <1>1, <2>2, FunctionIsSeq
<1>4. new \in Seq(OrderRow) /\ Len(new) = F
  <2>1. first \in DOMAIN orders /\ orders[first] \in OrderRow
    BY ActiveOrders, RowType DEF Newest
  <2>2. ASSUME NEW n \in 1 .. F
        PROVE  SplitRow(first, CheckLines(share, filled[n])) \in OrderRow
    <3>1. filled[n] \in Checks
      BY <1>2, FilledChecksType, ElementOfSeq
    <3>2. CheckLines(share, filled[n]) \in Seq(Line)
      BY <3>1, CheckLinesType
    <3>3. QED
      BY <1>1, <2>1, <3>2 DEF SplitRow, OrderRow
  <2>3. new \in [1 .. F -> OrderRow]
    BY <1>2, <2>2
  <2>4. QED
    BY <1>2, <2>3, FunctionIsSeq
<1>5. orders' = old \o new
  BY DEF SplitTable
<1> HIDE DEF filled, old, new, L, F
<1>6. /\ orders' \in Seq(OrderRow)
      /\ Len(orders') = L + F
      /\ \A i \in 1 .. L + F : orders'[i] = IF i <= L THEN old[i] ELSE new[i - L]
  BY <1>3, <1>4, <1>5, ConcatProperties
<1>7. ASSUME NEW o \in 1 .. L
      PROVE  orders'[o] = IF o \in Active(t) THEN [orders[o] EXCEPT !.status = "cancelled"]
                                             ELSE orders[o]
  <2>1. old[o] = IF o \in Active(t) THEN [orders[o] EXCEPT !.status = "cancelled"] ELSE orders[o]
    BY <1>1 DEF old, Superseded
  <2>2. o \in 1 .. L + F /\ o <= L
    BY <1>1, <1>2
  <2>3. orders'[o] = old[o]
    BY <1>6, <2>2
  <2>4. QED
    BY <2>1, <2>3
<1>8. ASSUME NEW o \in L + 1 .. L + F
      PROVE  orders'[o] = SplitRow(first, CheckLines(share, filled[o - L]))
  <2>1. o - L \in 1 .. F
    BY <1>1, <1>2
  <2>2. new[o - L] = SplitRow(first, CheckLines(share, filled[o - L]))
    BY <1>2, <2>1 DEF new
  <2>3. o \in 1 .. L + F /\ ~(o <= L)
    BY <1>1, <1>2
  <2>4. orders'[o] = new[o - L]
    BY <1>6, <2>3
  <2>5. QED
    BY <2>2, <2>4
<1>9. QED
  BY <1>1, <1>2, <1>6, <1>7, <1>8 DEF filled, L, F

-----------------------------------------------------------------------------
(* Every step keeps the types of the rows.                                 *)

LEMMA CreateRows ==
    ASSUME RowsOK, NEW u \in Users, NEW t \in Tables, NEW k \in Keys \cup {None},
           NEW cart \in Carts, CreateOrder(u, t, k, cart)
    PROVE  RowsOK'
<1> DEFINE row ==
      [table |-> t, waiter |-> u, key |-> k, status |-> "pending",
       readyAt |-> FALSE, servedAt |-> FALSE, paidAt |-> FALSE,
       born |-> Len(orders) + 1, items |-> Priced(cart), logged |-> "pending"]
<1>1. row \in OrderRow
  BY PricedType, LenProperties DEF RowsOK, OrderRow, OrderStatuses, ActiveStatuses
<1>2. orders' \in Seq(OrderRow)
  <2>1. orders' = Append(orders, row)
    BY DEF CreateOrder
  <2> HIDE DEF row
  <2>2. QED
    BY <1>1, <2>1, AppendProperties DEF RowsOK
<1>3. tables' \in [Tables -> TableStatuses]
  BY DEF CreateOrder, RowsOK, TableStatuses
<1>4. QED
  BY <1>2, <1>3 DEF CreateOrder, RowsOK

LEMMA TablesWithoutType ==
    ASSUME NEW o, NEW ts \in [Tables -> TableStatuses]
    PROVE  TablesWithout(o, ts) \in [Tables -> TableStatuses]
  BY DEF TablesWithout, TableStatuses

LEMMA UpdateRows ==
    ASSUME RowsOK, NEW u \in Users, NEW o \in DOMAIN orders, NEW t \in Tables \cup {None},
           NEW cart \in Carts \cup {<<>>}, UpdateOrder(u, o, t, cart)
    PROVE  RowsOK'
<1>1. orders[o] \in OrderRow /\ o \in 1 .. Len(orders)
  BY RowType
<1>2. Edited(orders[o], t, cart) \in OrderRow
  <2>1. cart # <<>> => Priced(cart) \in Seq(Line)
    BY PricedType
  <2>2. QED
    BY <1>1, <2>1 DEF OrderRow, Edited
<1>3. orders' \in Seq(OrderRow)
  BY <1>1, <1>2, ExceptSeq DEF RowsOK, UpdateOrder
<1>4. tables' \in [Tables -> TableStatuses]
  BY TablesWithoutType DEF UpdateOrder, TablesAfterMove, RowsOK, TableStatuses
<1>5. QED
  BY <1>3, <1>4 DEF UpdateOrder, RowsOK

LEMMA ServedRow ==
    ASSUME NEW row \in OrderRow, NEW s
    PROVE  /\ ServedIf(row, s) \in OrderRow
           /\ \A f \in {"table", "waiter", "key", "status", "readyAt", "servedAt", "paidAt",
                         "born", "logged"} : ServedIf(row, s)[f] = row[f]
  BY ServedItemsType DEF ServedIf, OrderRow

LEMMA StatusRows ==
    ASSUME RowsOK, NEW u \in Users, NEW o \in DOMAIN orders, NEW s \in OrderStatuses,
           UpdateOrderStatus(u, o, s)
    PROVE  RowsOK'
<1>1. orders[o] \in OrderRow /\ o \in 1 .. Len(orders)
  BY RowType
<1>2. Advanced(ServedIf(orders[o], s), s) \in OrderRow
  BY <1>1, ServedRow, AdvancedRow
<1>3. orders' \in Seq(OrderRow)
  BY <1>1, <1>2, ExceptSeq DEF RowsOK, UpdateOrderStatus
<1>4. tables' \in [Tables -> TableStatuses]
  BY TablesWithoutType DEF UpdateOrderStatus, RowsOK
<1>5. QED
  BY <1>3, <1>4 DEF UpdateOrderStatus, RowsOK

LEMMA ItemRow ==
    ASSUME NEW row \in OrderRow, NEW i \in DOMAIN row.items, NEW s \in ItemStatuses
    PROVE  /\ WithItemStatus(row, i, s) \in OrderRow
           /\ \A f \in {"table", "waiter", "key", "status", "readyAt", "servedAt", "paidAt",
                         "born", "logged"} : WithItemStatus(row, i, s)[f] = row[f]
<1> DEFINE items == [row.items EXCEPT ![i] = [row.items[i] EXCEPT !.status = s]]
<1>1. row.items \in Seq(Line)
  BY DEF OrderRow
<1>2. items \in Seq(Line)
  BY <1>1, ItemStatusType
<1>3. WithItemStatus(row, i, s) = [row EXCEPT !.items = items]
  BY DEF WithItemStatus
<1> HIDE DEF items
<1>4. QED
  BY <1>2, <1>3 DEF OrderRow

LEMMA ItemRows ==
    ASSUME RowsOK, NEW o \in DOMAIN orders, NEW i \in DOMAIN orders[o].items,
           NEW s \in ItemRequests, UpdateItemStatus(o, i, s)
    PROVE  RowsOK'
<1> DEFINE row == WithItemStatus(orders[o], i, s)
<1>1. orders[o] \in OrderRow /\ o \in 1 .. Len(orders)
  BY RowType
<1>2. row \in OrderRow
  BY <1>1, ItemRow, ItemRequestsAreStatuses
<1>3. ItemAdvances(row, s) => s \in OrderStatuses
  BY DEF ItemAdvances, OrderStatuses, ActiveStatuses
<1>4. orders' = [orders EXCEPT ![o] = IF ItemAdvances(row, s) THEN Advanced(row, s) ELSE row]
  BY DEF UpdateItemStatus
<1> HIDE DEF row
<1>5. orders' \in Seq(OrderRow)
  BY <1>1, <1>2, <1>3, <1>4, AdvancedRow, ExceptSeq DEF RowsOK
<1>6. QED
  BY <1>5 DEF UpdateItemStatus, RowsOK

LEMMA RowsStep == RowsOK /\ [Next]_vars => RowsOK'
<1> SUFFICES ASSUME RowsOK, [Next]_vars
             PROVE  RowsOK'
  OBVIOUS
<1>1. ASSUME NEW u \in Users, NEW t \in Tables, NEW k \in Keys \cup {None}, NEW cart \in Carts,
             CreateOrder(u, t, k, cart)
      PROVE  RowsOK'
  BY <1>1, CreateRows
<1>2. ASSUME NEW u \in Users, NEW o \in DOMAIN orders, NEW t \in Tables \cup {None},
             NEW cart \in Carts \cup {<<>>}, UpdateOrder(u, o, t, cart)
      PROVE  RowsOK'
  BY <1>2, UpdateRows
<1>3. ASSUME NEW u \in Users, NEW o \in DOMAIN orders, NEW s \in OrderStatuses,
             UpdateOrderStatus(u, o, s)
      PROVE  RowsOK'
  BY <1>3, StatusRows
<1>4. ASSUME NEW o \in DOMAIN orders, NEW i \in DOMAIN orders[o].items, NEW s \in ItemRequests,
             UpdateItemStatus(o, i, s)
      PROVE  RowsOK'
  BY <1>4, ItemRows
<1>5. ASSUME NEW u \in Users, NEW t \in Tables, NEW share \in SplitRequests(t),
             NEW first \in Newest(Active(t)), SplitTable(u, t, share, first)
      PROVE  RowsOK'
  BY <1>5, SplitShape DEF SplitTable, RowsOK
<1>6. ASSUME NEW u \in Users, NEW t \in Tables, NEW s \in TableStatuses, UpdateTable(u, t, s)
      PROVE  RowsOK'
  BY <1>6 DEF UpdateTable, RowsOK
<1>7. ASSUME NEW u \in Users, NEW m \in Menu, NEW row \in MenuRow, UpdateMenuItem(u, m, row)
      PROVE  RowsOK'
  BY <1>7 DEF UpdateMenuItem, RowsOK
<1>8. CASE UNCHANGED vars
  BY <1>8 DEF vars, RowsOK
<1>9. QED
  BY <1>1, <1>2, <1>3, <1>4, <1>5, <1>6, <1>7, <1>8 DEF Next

\* The order, table and menu rows keep their types in every reachable state.
THEOREM RowsAreTyped == Spec => []RowsOK
<1>1. Init => RowsOK
  <2> SUFFICES ASSUME Init
               PROVE  RowsOK
    OBVIOUS
  <2>1. orders \in Seq(OrderRow)
    BY EmptySeq DEF Init
  <2>2. tables \in [Tables -> TableStatuses]
    BY DEF Init
  <2>3. menu \in [Menu -> MenuRow]
    BY DEF Init, MenuRow
  <2>4. QED
    BY <2>1, <2>2, <2>3 DEF RowsOK
<1>2. QED
  BY <1>1, RowsStep, PTL DEF Spec

-----------------------------------------------------------------------------
(* What one step does to one row.                                          *)

Stamped(row) ==
    /\ row.status = "ready" => row.readyAt
    /\ row.status = "served" => row.servedAt
    /\ row.status = "paid" => row.paidAt

\* A step on a stored row: the request it stems from stays, stamps still follow
\* the status, and without overrides the status goes onward.
RowStep(row, new) ==
    /\ new.key = row.key /\ new.waiter = row.waiter
    /\ Stamped(row) => Stamped(new)
    /\ ~Overrides => new.status \in Onward[row.status]

LEMMA SameRow ==
    ASSUME NEW row \in OrderRow
    PROVE  RowStep(row, row)
  BY DEF RowStep, OrderRow, OrderStatuses, ActiveStatuses, FinalStatuses, Onward

\* Steps that replace one row in place.
LEMMA InPlace ==
    ASSUME RowsOK, NEW o \in DOMAIN orders, NEW new,
           orders' = [orders EXCEPT ![o] = new], RowStep(orders[o], new)
    PROVE  /\ DOMAIN orders' = DOMAIN orders
           /\ \A p \in DOMAIN orders : RowStep(orders[p], orders'[p])
  BY SameRow, RowType

LEMMA UpdateRowStep ==
    ASSUME RowsOK, NEW u \in Users, NEW o \in DOMAIN orders, NEW t \in Tables \cup {None},
           NEW cart \in Carts \cup {<<>>}, UpdateOrder(u, o, t, cart)
    PROVE  /\ DOMAIN orders' = DOMAIN orders
           /\ \A p \in DOMAIN orders : RowStep(orders[p], orders'[p])
<1>1. orders[o] \in OrderRow
  BY RowType
<1>2. RowStep(orders[o], Edited(orders[o], t, cart))
  BY <1>1 DEF RowStep, Stamped, Edited, OrderRow, OrderStatuses, ActiveStatuses, FinalStatuses, Onward
<1>3. QED
  BY <1>2, InPlace DEF UpdateOrder

LEMMA StatusRowStep ==
    ASSUME RowsOK, NEW u \in Users, NEW o \in DOMAIN orders, NEW s \in OrderStatuses,
           UpdateOrderStatus(u, o, s)
    PROVE  /\ DOMAIN orders' = DOMAIN orders
           /\ \A p \in DOMAIN orders : RowStep(orders[p], orders'[p])
<1> DEFINE row == ServedIf(orders[o], s)
<1>1. orders[o] \in OrderRow
  BY RowType
<1>2. row \in OrderRow /\ row.key = orders[o].key /\ row.waiter = orders[o].waiter
  BY <1>1, ServedRow
<1>3. ~Overrides => s \in Onward[orders[o].status]
  <2>1. ~Overrides => s \in TRANSITIONS[orders[o].status]
    BY DEF UpdateOrderStatus, MaySetStatus
  <2>2. orders[o].status \in OrderStatuses
    BY <1>1 DEF OrderRow
  <2>3. QED
    BY <2>1, <2>2 DEF TRANSITIONS, Onward, OrderStatuses, ActiveStatuses, FinalStatuses
<1> HIDE DEF row
<1>4. RowStep(orders[o], Advanced(row, s))
  BY <1>2, <1>3, AdvancedRow DEF RowStep, Stamped
<1>5. QED
  BY <1>4, InPlace DEF UpdateOrderStatus, row

LEMMA ItemRowStep ==
    ASSUME RowsOK, NEW o \in DOMAIN orders, NEW i \in DOMAIN orders[o].items,
           NEW s \in ItemRequests, UpdateItemStatus(o, i, s)
    PROVE  /\ DOMAIN orders' = DOMAIN orders
           /\ \A p \in DOMAIN orders : RowStep(orders[p], orders'[p])
<1> DEFINE row == WithItemStatus(orders[o], i, s)
           new == IF ItemAdvances(row, s) THEN Advanced(row, s) ELSE row
<1>1. orders[o] \in OrderRow
  BY RowType
<1>2. /\ row \in OrderRow
      /\ row.key = orders[o].key /\ row.waiter = orders[o].waiter /\ row.status = orders[o].status
      /\ Stamped(orders[o]) => Stamped(row)
  BY <1>1, ItemRow, ItemRequestsAreStatuses DEF Stamped
<1> HIDE DEF row
<1>3. RowStep(orders[o], row)
  BY <1>1, <1>2, SameRow DEF RowStep
<1>4. ASSUME ItemAdvances(row, s)
      PROVE  RowStep(orders[o], Advanced(row, s))
  <2>1. s \in OrderStatuses
    BY <1>4 DEF ItemAdvances, OrderStatuses, ActiveStatuses
  <2>2. s \in Onward[row.status]
    BY <1>2, <1>4 DEF ItemAdvances, OrderRow, OrderStatuses, ActiveStatuses, FinalStatuses, Onward
  <2>3. QED
    BY <1>2, <2>1, <2>2, AdvancedRow DEF RowStep, Stamped
<1>5. RowStep(orders[o], new)
  BY <1>3, <1>4
<1>6. orders' = [orders EXCEPT ![o] = new]
  BY DEF UpdateItemStatus, row
<1> HIDE DEF new
<1>7. QED
  BY <1>5, <1>6, InPlace

LEMMA SplitRowStep ==
    ASSUME RowsOK, NEW u \in Users, NEW t \in Tables, NEW share \in SplitRequests(t),
           NEW first \in Newest(Active(t)), SplitTable(u, t, share, first)
    PROVE  \A p \in DOMAIN orders : p \in DOMAIN orders' /\ RowStep(orders[p], orders'[p])
<1> SUFFICES ASSUME NEW p \in DOMAIN orders
             PROVE  p \in DOMAIN orders' /\ RowStep(orders[p], orders'[p])
  OBVIOUS
<1>1. orders[p] \in OrderRow /\ p \in 1 .. Len(orders) /\ Len(orders) \in Nat
  BY RowType, LenProperties DEF RowsOK
<1>2. p \in DOMAIN orders'
  <2>1. DOMAIN orders' = 1 .. Len(orders')
    BY SplitShape, LenProperties
  <2>2. Len(orders') = Len(orders) + Len(FilledChecks(share))
    BY SplitShape
  <2>3. Len(FilledChecks(share)) \in Nat
    BY FilledChecksType
  <2> HIDE DEF FilledChecks
  <2>4. QED
    BY <1>1, <2>1, <2>2, <2>3
<1>3. \/ orders'[p] = orders[p]
      \/ p \in Active(t) /\ orders'[p] = [orders[p] EXCEPT !.status = "cancelled"]
  BY <1>1, SplitShape
<1>4. ASSUME p \in Active(t)
      PROVE  RowStep(orders[p], [orders[p] EXCEPT !.status = "cancelled"])
  <2>1. orders[p].status \in ActiveStatuses
    BY <1>1, <1>4, ActiveOrders DEF OrderRow, OrderStatuses
  <2>2. QED
    BY <1>1, <2>1 DEF RowStep, Stamped, OrderRow, ActiveStatuses, FinalStatuses, Onward
<1>5. QED
  BY <1>1, <1>2, <1>3, <1>4, SameRow

LEMMA CreateRowStep ==
    ASSUME RowsOK, NEW u \in Users, NEW t \in Tables, NEW k \in Keys \cup {None},
           NEW cart \in Carts, CreateOrder(u, t, k, cart)
    PROVE  /\ Len(orders') = Len(orders) + 1
           /\ DOMAIN orders' = DOMAIN orders \cup {Len(orders')}
           /\ \A p \in DOMAIN orders : orders'[p] = orders[p]
           /\ orders'[Len(orders')].key = k
           /\ orders'[Len(orders')].waiter = u
           /\ orders'[Len(orders')].status = "pending"
           /\ orders'[Len(orders')].table = t
<1> DEFINE row ==
      [table |-> t, waiter |-> u, key |-> k, status |-> "pending",
       readyAt |-> FALSE, servedAt |-> FALSE, paidAt |-> FALSE,
       born |-> Len(orders) + 1, items |-> Priced(cart), logged |-> "pending"]
<1>1. row.key = k /\ row.waiter = u /\ row.status = "pending" /\ row.table = t
  OBVIOUS
<1>2. orders' = Append(orders, row)
  BY DEF CreateOrder
<1> HIDE DEF row
<1>3. QED
  BY <1>1, <1>2, LenProperties DEF RowsOK

\* Every stored row makes one of the steps of RowStep.
LEMMA OldRows ==
    ASSUME RowsOK, [Next]_vars, NEW o \in DOMAIN orders
    PROVE  o \in DOMAIN orders' /\ RowStep(orders[o], orders'[o])
<1> DEFINE Goal == o \in DOMAIN orders' /\ RowStep(orders[o], orders'[o])
<1>0. RowStep(orders[o], orders[o])
  BY RowType, SameRow
<1>1. ASSUME NEW u \in Users, NEW t \in Tables, NEW k \in Keys \cup {None}, NEW cart \in Carts,
             CreateOrder(u, t, k, cart)
      PROVE  Goal
  BY <1>0, <1>1, CreateRowStep
<1>2. ASSUME NEW u \in Users, NEW p \in DOMAIN orders, NEW t \in Tables \cup {None},
             NEW cart \in Carts \cup {<<>>}, UpdateOrder(u, p, t, cart)
      PROVE  Goal
  BY <1>2, UpdateRowStep
<1>3. ASSUME NEW u \in Users, NEW p \in DOMAIN orders, NEW s \in OrderStatuses,
             UpdateOrderStatus(u, p, s)
      PROVE  Goal
  BY <1>3, StatusRowStep
<1>4. ASSUME NEW p \in DOMAIN orders, NEW i \in DOMAIN orders[p].items, NEW s \in ItemRequests,
             UpdateItemStatus(p, i, s)
      PROVE  Goal
  BY <1>4, ItemRowStep
<1>5. ASSUME NEW u \in Users, NEW t \in Tables, NEW share \in SplitRequests(t),
             NEW first \in Newest(Active(t)), SplitTable(u, t, share, first)
      PROVE  Goal
  BY <1>5, SplitRowStep
<1>6. CASE UNCHANGED orders
  BY <1>0, <1>6
<1>7. QED
  BY <1>1, <1>2, <1>3, <1>4, <1>5, <1>6 DEF Next, vars, UpdateTable, UpdateMenuItem

\* A row that a step adds has its stamps, and is either the only one, for a new
\* request, or a split's, for none.
LEMMA NewRows ==
    ASSUME RowsOK, StampsFollowStatus, [Next]_vars, NEW o \in DOMAIN orders', o \notin DOMAIN orders
    PROVE  /\ Stamped(orders'[o])
           /\ \/ orders'[o].key = None
              \/ /\ DOMAIN orders' = DOMAIN orders \cup {o}
                 /\ NewRequest(orders'[o].waiter, orders'[o].key)
<1> DEFINE Goal ==
      /\ Stamped(orders'[o])
      /\ \/ orders'[o].key = None
         \/ /\ DOMAIN orders' = DOMAIN orders \cup {o}
            /\ NewRequest(orders'[o].waiter, orders'[o].key)
<1>1. ASSUME NEW u \in Users, NEW t \in Tables, NEW k \in Keys \cup {None}, NEW cart \in Carts,
             CreateOrder(u, t, k, cart)
      PROVE  Goal
  <2>1. o = Len(orders')
    BY <1>1, CreateRowStep
  <2>2. NewRequest(u, k)
    BY <1>1 DEF CreateOrder
  <2>3. QED
    BY <1>1, <2>1, <2>2, CreateRowStep DEF Stamped
<1>2. ASSUME NEW u \in Users, NEW p \in DOMAIN orders, NEW t \in Tables \cup {None},
             NEW cart \in Carts \cup {<<>>}, UpdateOrder(u, p, t, cart)
      PROVE  Goal
  BY <1>2, UpdateRowStep
<1>3. ASSUME NEW u \in Users, NEW p \in DOMAIN orders, NEW s \in OrderStatuses,
             UpdateOrderStatus(u, p, s)
      PROVE  Goal
  BY <1>3, StatusRowStep
<1>4. ASSUME NEW p \in DOMAIN orders, NEW i \in DOMAIN orders[p].items, NEW s \in ItemRequests,
             UpdateItemStatus(p, i, s)
      PROVE  Goal
  BY <1>4, ItemRowStep
<1>5. ASSUME NEW u \in Users, NEW t \in Tables, NEW share \in SplitRequests(t),
             NEW first \in Newest(Active(t)), SplitTable(u, t, share, first)
      PROVE  Goal
  <2>1. o \in Len(orders) + 1 .. Len(orders')
    <3>1. DOMAIN orders = 1 .. Len(orders) /\ Len(orders) \in Nat
      BY LenProperties DEF RowsOK
    <3>2. DOMAIN orders' = 1 .. Len(orders') /\ Len(orders') \in Nat
      BY <1>5, SplitShape, LenProperties
    <3>3. QED
      BY <3>1, <3>2
  <2> DEFINE lines == CheckLines(share, FilledChecks(share)[o - Len(orders)])
  <2>2. orders'[o] = SplitRow(first, lines)
    BY <1>5, <2>1, SplitShape
  <2> HIDE DEF lines
  <2>3. first \in DOMAIN orders /\ orders[first].status \notin FinalStatuses
    BY ActiveOrders DEF Newest
  <2>4. QED
    BY <2>2, <2>3 DEF SplitRow, Stamped, StampsFollowStatus, FinalStatuses
<1>6. CASE UNCHANGED orders
  BY <1>6
<1>7. QED
  BY <1>1, <1>2, <1>3, <1>4, <1>5, <1>6 DEF Next, vars, UpdateTable, UpdateMenuItem

-----------------------------------------------------------------------------
\* Every ready, served or paid order has the time it became so, whichever of the
\* status handler, the items, a split or an overriding manager brought it there.
THEOREM StampsAlwaysFollowStatus == Spec => []StampsFollowStatus
<1>1. Init => StampsFollowStatus
  BY DEF Init, StampsFollowStatus
<1>2. RowsOK /\ StampsFollowStatus /\ [Next]_vars => StampsFollowStatus'
  <2> SUFFICES ASSUME RowsOK, StampsFollowStatus, [Next]_vars, NEW o \in DOMAIN orders'
               PROVE  Stamped(orders'[o])
    BY DEF StampsFollowStatus, Stamped
  <2>1. CASE o \in DOMAIN orders
    BY <2>1, OldRows DEF RowStep, Stamped, StampsFollowStatus
  <2>2. CASE o \notin DOMAIN orders
    BY <2>2, NewRows
  <2>3. QED
    BY <2>1, <2>2
<1>3. QED
  BY <1>1, <1>2, RowsAreTyped, PTL DEF Spec

\* No two orders stem from the same request of the same user.
THEOREM RequestsMakeOneOrder == Spec => []OneOrderPerRequest
<1>1. Init => OneOrderPerRequest
  BY DEF Init, OneOrderPerRequest
<1>2. RowsOK /\ StampsFollowStatus /\ OneOrderPerRequest /\ [Next]_vars => OneOrderPerRequest'
  <2> SUFFICES ASSUME RowsOK, StampsFollowStatus, OneOrderPerRequest, [Next]_vars,
                      NEW o \in DOMAIN orders', NEW p \in DOMAIN orders',
                      o # p, orders'[o].key # None,
                      orders'[o].waiter = orders'[p].waiter, orders'[o].key = orders'[p].key
               PROVE  FALSE
    BY DEF OneOrderPerRequest
  <2>1. CASE o \in DOMAIN orders /\ p \in DOMAIN orders
    BY <2>1, OldRows DEF RowStep, OneOrderPerRequest
  <2>2. CASE o \notin DOMAIN orders
    <3>1. DOMAIN orders' = DOMAIN orders \cup {o} /\ NewRequest(orders'[o].waiter, orders'[o].key)
      BY <2>2, NewRows
    <3>2. p \in DOMAIN orders /\ RowStep(orders[p], orders'[p])
      BY <3>1, OldRows
    <3>3. QED
      BY <3>1, <3>2 DEF RowStep, NewRequest
  <2>3. CASE p \notin DOMAIN orders
    <3>1. DOMAIN orders' = DOMAIN orders \cup {p} /\ NewRequest(orders'[p].waiter, orders'[p].key)
      BY <2>3, NewRows
    <3>2. o \in DOMAIN orders /\ RowStep(orders[o], orders'[o])
      BY <3>1, OldRows
    <3>3. QED
      BY <3>1, <3>2 DEF RowStep, NewRequest
  <2>4. QED
    BY <2>1, <2>2, <2>3
<1>3. QED
  BY <1>1, <1>2, RowsAreTyped, StampsAlwaysFollowStatus, PTL DEF Spec

\* Where no manager overrides the workflow, no step takes an order back, out of a
\* final status, or to paid before it was served.
THEOREM OrdersNeverGoBack == ~Overrides => (Spec => NeverBackwards)
<1> SUFFICES ASSUME ~Overrides
             PROVE  Spec => NeverBackwards
  OBVIOUS
<1>1. RowsOK /\ [Next]_vars => [\A o \in DOMAIN orders : orders'[o].status \in Onward[orders[o].status]]_vars
  BY OldRows DEF RowStep
<1>2. QED
  BY <1>1, RowsAreTyped, PTL DEF Spec, NeverBackwards

-----------------------------------------------------------------------------
(* Tables of active orders stay occupied.                                  *)

LEMMA UpdateKeepsOccupied ==
    ASSUME ~SelfMoves, RowsOK, OccupiedWhileActive, NEW u \in Users, NEW o \in DOMAIN orders,
           NEW t \in Tables \cup {None}, NEW cart \in Carts \cup {<<>>}, UpdateOrder(u, o, t, cart)
    PROVE  OccupiedWhileActive'
<1> DEFINE new == Edited(orders[o], t, cart)
           old == orders[o].table
<1>1. orders[o] \in OrderRow /\ old \in Tables /\ DOMAIN tables = Tables
  BY RowType DEF OrderRow, RowsOK
<1>2. new.status = orders[o].status /\ new.table = IF t = None THEN old ELSE t
  BY <1>1 DEF Edited, OrderRow
<1>3. orders' = [orders EXCEPT ![o] = new]
  BY DEF UpdateOrder
<1>4. orders[o].status \notin FinalStatuses /\ t # old
  BY <1>1 DEF UpdateOrder, FinalStatuses
<1> HIDE DEF new
<1> SUFFICES ASSUME NEW p \in DOMAIN orders, orders'[p].status \notin FinalStatuses
             PROVE  tables'[orders'[p].table] = "occupied"
  BY <1>3 DEF OccupiedWhileActive, IsActive
<1>5. orders[p] \in OrderRow /\ orders[p].table \in Tables
  BY RowType DEF OrderRow
<1>6. CASE t = None
  <2>1. tables' = tables
    BY <1>6 DEF UpdateOrder
  <2>2. orders'[p].table = orders[p].table /\ orders'[p].status = orders[p].status
    BY <1>2, <1>3, <1>6
  <2>3. QED
    BY <2>1, <2>2 DEF OccupiedWhileActive, IsActive
<1>7. CASE t # None
  <2>1. tables' = IF Active(old) \ {o} = {}
                  THEN [[tables EXCEPT ![t] = "occupied"] EXCEPT ![old] = "free"]
                  ELSE [tables EXCEPT ![t] = "occupied"]
    BY <1>7 DEF UpdateOrder, TablesAfterMove, TablesWithout
  <2>2. CASE p = o
    BY <1>1, <1>2, <1>3, <1>4, <1>7, <2>1, <2>2
  <2>3. CASE p # o
    <3>1. orders'[p] = orders[p]
      BY <1>3, <2>3
    <3>2. tables[orders[p].table] = "occupied"
      BY <3>1 DEF OccupiedWhileActive, IsActive
    <3>3. orders[p].table = old => p \in Active(old) \ {o}
      BY <2>3, <3>1 DEF Active, IsActive
    <3>4. QED
      BY <1>1, <1>4, <1>5, <1>7, <2>1, <3>1, <3>2, <3>3
  <2>4. QED
    BY <2>2, <2>3
<1>8. QED
  BY <1>6, <1>7

LEMMA StatusKeepsOccupied ==
    ASSUME ~Overrides, RowsOK, OccupiedWhileActive, NEW u \in Users, NEW o \in DOMAIN orders,
           NEW s \in OrderStatuses, UpdateOrderStatus(u, o, s)
    PROVE  OccupiedWhileActive'
<1> DEFINE row == ServedIf(orders[o], s)
           new == Advanced(row, s)
           old == orders[o].table
<1>1. orders[o] \in OrderRow /\ old \in Tables /\ DOMAIN tables = Tables
  BY RowType DEF OrderRow, RowsOK
<1>2. row \in OrderRow /\ row.table = old
  BY <1>1, ServedRow
<1>3. orders' = [orders EXCEPT ![o] = new]
  BY DEF UpdateOrderStatus
<1> HIDE DEF row
<1>4. new.status = s /\ new.table = old
  BY <1>2, AdvancedRow
<1> HIDE DEF new
<1>5. orders[o].status \notin FinalStatuses
  <2>1. s \in TRANSITIONS[orders[o].status]
    BY DEF UpdateOrderStatus, MaySetStatus
  <2>2. QED
    BY <2>1 DEF TRANSITIONS, FinalStatuses
<1> SUFFICES ASSUME NEW p \in DOMAIN orders, orders'[p].status \notin FinalStatuses
             PROVE  tables'[orders'[p].table] = "occupied"
  BY <1>3 DEF OccupiedWhileActive, IsActive
<1>6. orders'[p].table = orders[p].table /\ orders[p].status \notin FinalStatuses
  BY <1>3, <1>4, <1>5
<1>7. tables[orders[p].table] = "occupied" /\ orders[p].table \in Tables
  BY <1>6, RowType DEF OccupiedWhileActive, IsActive, OrderRow
<1>8. CASE s \notin FinalStatuses
  BY <1>6, <1>7, <1>8 DEF UpdateOrderStatus
<1>9. CASE s \in FinalStatuses
  <2>1. p # o
    BY <1>3, <1>4, <1>9
  <2>2. orders[p].table = old => p \in Active(old) \ {o}
    BY <1>6, <2>1 DEF Active, IsActive
  <2>3. tables' = IF Active(old) \ {o} = {} THEN [tables EXCEPT ![old] = "free"] ELSE tables
    BY <1>9 DEF UpdateOrderStatus, TablesWithout
  <2>4. QED
    BY <1>1, <1>6, <1>7, <2>2, <2>3
<1>10. QED
  BY <1>8, <1>9

LEMMA ItemKeepsOccupied ==
    ASSUME RowsOK, OccupiedWhileActive, NEW o \in DOMAIN orders,
           NEW i \in DOMAIN orders[o].items, NEW s \in ItemRequests, UpdateItemStatus(o, i, s)
    PROVE  OccupiedWhileActive'
<1> DEFINE row == WithItemStatus(orders[o], i, s)
           new == IF ItemAdvances(row, s) THEN Advanced(row, s) ELSE row
<1>1. orders[o] \in OrderRow
  BY RowType
<1>2. row \in OrderRow /\ row.table = orders[o].table /\ row.status = orders[o].status
  BY <1>1, ItemRow, ItemRequestsAreStatuses
<1>3. orders' = [orders EXCEPT ![o] = new]
  BY DEF UpdateItemStatus
<1> HIDE DEF row
<1>4. new.table = orders[o].table
  <2>1. ItemAdvances(row, s) => s \in OrderStatuses
    BY DEF ItemAdvances, OrderStatuses, ActiveStatuses
  <2>2. QED
    BY <1>2, <2>1, AdvancedRow
<1>5. new.status \notin FinalStatuses => orders[o].status \notin FinalStatuses
  BY <1>2 DEF ItemAdvances, FinalStatuses
<1> HIDE DEF new
<1>6. QED
  BY <1>3, <1>4, <1>5 DEF OccupiedWhileActive, IsActive, UpdateItemStatus

LEMMA SplitKeepsOccupied ==
    ASSUME RowsOK, OccupiedWhileActive, NEW u \in Users, NEW t \in Tables,
           NEW share \in SplitRequests(t), NEW first \in Newest(Active(t)),
           SplitTable(u, t, share, first)
    PROVE  OccupiedWhileActive'
<1> SUFFICES ASSUME NEW p \in DOMAIN orders', orders'[p].status \notin FinalStatuses
             PROVE  tables'[orders'[p].table] = "occupied"
  BY DEF OccupiedWhileActive, IsActive
<1>1. DOMAIN orders = 1 .. Len(orders) /\ Len(orders) \in Nat
  BY LenProperties DEF RowsOK
<1>2. DOMAIN orders' = 1 .. Len(orders') /\ Len(orders') \in Nat
  BY SplitShape, LenProperties
<1>3. tables' = tables
  BY DEF SplitTable
<1>4. CASE p \in DOMAIN orders
  <2>1. orders[p] \in OrderRow
    BY <1>4, RowType
  <2>2. \/ orders'[p] = orders[p]
        \/ orders'[p] = [orders[p] EXCEPT !.status = "cancelled"]
    BY <1>1, <1>4, SplitShape
  <2>3. orders'[p] = orders[p]
    BY <2>1, <2>2 DEF OrderRow, FinalStatuses
  <2>4. QED
    BY <1>3, <1>4, <2>3 DEF OccupiedWhileActive, IsActive
<1>5. CASE p \notin DOMAIN orders
  <2>1. p \in Len(orders) + 1 .. Len(orders')
    BY <1>1, <1>2, <1>5
  <2> DEFINE lines == CheckLines(share, FilledChecks(share)[p - Len(orders)])
  <2>2. orders'[p] = SplitRow(first, lines)
    BY <2>1, SplitShape
  <2> HIDE DEF lines
  <2>3. first \in DOMAIN orders /\ orders[first].status \notin FinalStatuses
    BY ActiveOrders DEF Newest
  <2>4. orders'[p].table = orders[first].table
    BY <2>2 DEF SplitRow
  <2>5. QED
    BY <1>3, <2>3, <2>4 DEF OccupiedWhileActive, IsActive
<1>6. QED
  BY <1>4, <1>5

\* Where no manager overrides tables or workflow and no client moves an order to
\* the table it is at, an active order's table is occupied.
THEOREM ActiveOrdersOccupyTables ==
    ~Overrides /\ ~SelfMoves => (Spec => []OccupiedWhileActive)
<1> SUFFICES ASSUME ~Overrides, ~SelfMoves
             PROVE  Spec => []OccupiedWhileActive
  OBVIOUS
<1>1. Init => OccupiedWhileActive
  BY DEF Init, OccupiedWhileActive
<1>2. RowsOK /\ OccupiedWhileActive /\ [Next]_vars => OccupiedWhileActive'
  <2> SUFFICES ASSUME RowsOK, OccupiedWhileActive, [Next]_vars
               PROVE  OccupiedWhileActive'
    OBVIOUS
  <2>1. ASSUME NEW u \in Users, NEW t \in Tables, NEW k \in Keys \cup {None}, NEW cart \in Carts,
               CreateOrder(u, t, k, cart)
        PROVE  OccupiedWhileActive'
    <3>1. tables' = [tables EXCEPT ![t] = "occupied"] /\ tables \in [Tables -> TableStatuses]
      BY <2>1 DEF CreateOrder, RowsOK
    <3>2. ASSUME NEW p \in DOMAIN orders
          PROVE  orders'[p] = orders[p] /\ orders[p].table \in Tables
      BY <2>1, CreateRowStep, RowType DEF OrderRow
    <3>3. QED
      BY <2>1, <3>1, <3>2, CreateRowStep DEF OccupiedWhileActive, IsActive
  <2>2. ASSUME NEW u \in Users, NEW o \in DOMAIN orders, NEW t \in Tables \cup {None},
               NEW cart \in Carts \cup {<<>>}, UpdateOrder(u, o, t, cart)
        PROVE  OccupiedWhileActive'
    BY <2>2, UpdateKeepsOccupied
  <2>3. ASSUME NEW u \in Users, NEW o \in DOMAIN orders, NEW s \in OrderStatuses,
               UpdateOrderStatus(u, o, s)
        PROVE  OccupiedWhileActive'
    BY <2>3, StatusKeepsOccupied
  <2>4. ASSUME NEW o \in DOMAIN orders, NEW i \in DOMAIN orders[o].items, NEW s \in ItemRequests,
               UpdateItemStatus(o, i, s)
        PROVE  OccupiedWhileActive'
    BY <2>4, ItemKeepsOccupied
  <2>5. ASSUME NEW u \in Users, NEW t \in Tables, NEW share \in SplitRequests(t),
               NEW first \in Newest(Active(t)), SplitTable(u, t, share, first)
        PROVE  OccupiedWhileActive'
    BY <2>5, SplitKeepsOccupied
  <2>6. ASSUME NEW u \in Users, NEW t \in Tables, NEW s \in TableStatuses, UpdateTable(u, t, s)
        PROVE  OccupiedWhileActive'
    BY <2>6 DEF UpdateTable
  <2>7. CASE UNCHANGED <<orders, tables>>
    BY <2>7 DEF OccupiedWhileActive, IsActive
  <2>8. QED
    BY <2>1, <2>2, <2>3, <2>4, <2>5, <2>6, <2>7 DEF Next, vars, UpdateMenuItem
<1>3. QED
  BY <1>1, <1>2, RowsAreTyped, PTL DEF Spec

-----------------------------------------------------------------------------
(* The stored total of an order is the bill of its lines.                  *)

\* The amounts orders can charge, as a type for `total` that looks into no sum;
\* that they are never negative is shown below (BillNat).
Amounts == {Bill(items) : items \in Seq(Line)}

TotalsFollow ==
    /\ total \in Seq(Amounts)
    /\ Len(total) = Len(orders)
    /\ \A o \in DOMAIN orders : total[o] = Bill(orders[o].items)

\* Item statuses are not on the bill.
LEMMA ServedBill ==
    ASSUME NEW row \in OrderRow, NEW s
    PROVE  Bill(ServedIf(row, s).items) = Bill(row.items)
<1>1. row.items \in Seq(Line)
  BY DEF OrderRow
<1>2. DOMAIN AllServed(row.items) = DOMAIN row.items
  BY DEF AllServed
<1>3. ASSUME NEW i \in DOMAIN row.items
      PROVE  /\ AllServed(row.items)[i].qty = row.items[i].qty
             /\ AllServed(row.items)[i].price = row.items[i].price
  <2>1. row.items[i] \in Line
    BY <1>1, LenProperties, ElementOfSeq
  <2>2. QED
    BY <2>1 DEF AllServed, Line
<1>4. Bill(AllServed(row.items)) = Bill(row.items)
  BY <1>2, <1>3 DEF Bill
<1>5. ServedIf(row, s).items \in {row.items, AllServed(row.items)}
  BY DEF ServedIf, OrderRow
<1>6. QED
  BY <1>4, <1>5

LEMMA ItemBill ==
    ASSUME NEW row \in OrderRow, NEW i \in DOMAIN row.items, NEW s \in ItemStatuses
    PROVE  Bill(WithItemStatus(row, i, s).items) = Bill(row.items)
<1> DEFINE items == [row.items EXCEPT ![i] = [row.items[i] EXCEPT !.status = s]]
<1>1. row.items \in Seq(Line)
  BY DEF OrderRow
<1>2. WithItemStatus(row, i, s).items = items
  BY DEF WithItemStatus, OrderRow
<1>3. ASSUME NEW j \in DOMAIN row.items
      PROVE  items[j].qty = row.items[j].qty /\ items[j].price = row.items[j].price
  <2>1. row.items[j] \in Line
    BY <1>1, LenProperties, ElementOfSeq
  <2>2. QED
    BY <2>1 DEF Line
<1>4. DOMAIN items = DOMAIN row.items
  OBVIOUS
<1> HIDE DEF items
<1>5. Bill(items) = Bill(row.items)
  BY <1>3, <1>4 DEF Bill
<1>6. QED
  BY <1>2, <1>5

\* Steps that replace one row in place and leave the totals alone.
LEMMA SameBill ==
    ASSUME RowsOK, TotalsFollow, NEW o \in DOMAIN orders, NEW new,
           orders' = [orders EXCEPT ![o] = new], total' = total,
           Bill(new.items) = Bill(orders[o].items)
    PROVE  TotalsFollow'
<1>1. orders \in Seq(OrderRow) /\ DOMAIN orders' = DOMAIN orders
  BY DEF RowsOK
<1>2. Len(orders') = Len(orders)
  BY LenProperties DEF RowsOK
<1>3. QED
  BY <1>1, <1>2 DEF TotalsFollow

LEMMA CreateTotals ==
    ASSUME RowsOK, TotalsFollow, NEW u \in Users, NEW t \in Tables, NEW k \in Keys \cup {None},
           NEW cart \in Carts, CreateOrder(u, t, k, cart)
    PROVE  TotalsFollow'
<1> DEFINE row ==
      [table |-> t, waiter |-> u, key |-> k, status |-> "pending",
       readyAt |-> FALSE, servedAt |-> FALSE, paidAt |-> FALSE,
       born |-> Len(orders) + 1, items |-> Priced(cart), logged |-> "pending"]
           bill == Bill(Priced(cart))
<1>1. bill \in Amounts /\ bill = Bill(row.items)
  BY PricedType DEF Amounts
<1>2. orders' = Append(orders, row) /\ total' = Append(total, bill)
  BY DEF CreateOrder
<1> HIDE DEF row, bill
<1>3. total' \in Seq(Amounts) /\ Len(total') = Len(orders')
  BY <1>1, <1>2, AppendProperties DEF TotalsFollow, RowsOK
<1>4. ASSUME NEW o \in DOMAIN orders'
      PROVE  total'[o] = Bill(orders'[o].items)
  <2>1. orders \in Seq(OrderRow) /\ total \in Seq(Amounts) /\ Len(total) = Len(orders)
    BY DEF TotalsFollow, RowsOK
  <2>2. o \in 1 .. Len(orders) \/ o = Len(orders) + 1
    BY <1>2, <2>1
  <2>3. CASE o = Len(orders) + 1
    BY <1>1, <1>2, <2>1, <2>3
  <2>4. CASE o \in 1 .. Len(orders)
    <3>1. total'[o] = total[o] /\ orders'[o] = orders[o]
      BY <1>2, <2>1, <2>4
    <3>2. o \in DOMAIN orders
      BY <2>1, <2>4
    <3>3. QED
      BY <3>1, <3>2 DEF TotalsFollow
  <2>5. QED
    BY <2>2, <2>3, <2>4
<1>5. QED
  BY <1>3, <1>4 DEF TotalsFollow

LEMMA UpdateTotals ==
    ASSUME RowsOK, TotalsFollow, NEW u \in Users, NEW o \in DOMAIN orders,
           NEW t \in Tables \cup {None}, NEW cart \in Carts \cup {<<>>}, UpdateOrder(u, o, t, cart)
    PROVE  TotalsFollow'
<1> DEFINE new == Edited(orders[o], t, cart)
           bill == IF cart = <<>> THEN total[o] ELSE Bill(Priced(cart))
<1>1. orders[o] \in OrderRow /\ o \in 1 .. Len(orders) /\ DOMAIN orders = 1 .. Len(orders)
  BY RowType
<1>2. total[o] \in Amounts /\ total[o] = Bill(orders[o].items)
  BY <1>1, ElementOfSeq DEF TotalsFollow
<1>3. cart # <<>> => Bill(Priced(cart)) \in Amounts
  BY PricedType DEF Amounts
<1>4. bill \in Amounts /\ bill = Bill(new.items)
  BY <1>1, <1>2, <1>3 DEF Edited, OrderRow
<1>5. orders' = [orders EXCEPT ![o] = new] /\ total' = [total EXCEPT ![o] = bill]
  BY DEF UpdateOrder
<1> HIDE DEF new, bill
<1>6. total' \in Seq(Amounts) /\ Len(total') = Len(total)
  BY <1>1, <1>4, <1>5, ExceptSeq DEF TotalsFollow
<1>7. Len(orders') = Len(orders) /\ DOMAIN orders' = DOMAIN orders
  BY <1>5, LenProperties DEF RowsOK
<1>8. ASSUME NEW p \in DOMAIN orders
      PROVE  total'[p] = Bill(orders'[p].items)
  <2>1. p \in 1 .. Len(total)
    BY <1>1 DEF TotalsFollow
  <2>2. DOMAIN total = 1 .. Len(total)
    BY LenProperties DEF TotalsFollow
  <2>3. QED
    BY <1>4, <1>5, <2>1, <2>2 DEF TotalsFollow
<1>9. QED
  BY <1>6, <1>7, <1>8 DEF TotalsFollow

LEMMA SplitTotals ==
    ASSUME RowsOK, TotalsFollow, NEW u \in Users, NEW t \in Tables,
           NEW share \in SplitRequests(t), NEW first \in Newest(Active(t)),
           SplitTable(u, t, share, first)
    PROVE  TotalsFollow'
<1> DEFINE filled == FilledChecks(share)
           bills == [n \in DOMAIN filled |-> CheckLines(share, filled[n])]
           new == [n \in DOMAIN filled |-> Bill(bills[n])]
           L == Len(orders)
           F == Len(filled)
<1>1. L \in Nat /\ DOMAIN orders = 1 .. L
  BY LenProperties DEF RowsOK
<1>2. F \in Nat /\ DOMAIN filled = 1 .. F
  BY FilledChecksType
<1>3. new \in Seq(Amounts) /\ Len(new) = F
  <2>1. ASSUME NEW n \in 1 .. F
        PROVE  Bill(CheckLines(share, filled[n])) \in Amounts
    <3>1. filled[n] \in Checks
      BY <1>2, FilledChecksType, ElementOfSeq
    <3>2. QED
      BY <3>1, CheckLinesType DEF Amounts
  <2>2. new \in [1 .. F -> Amounts]
    BY <1>2, <2>1
  <2>3. QED
    BY <1>2, <2>2, FunctionIsSeq
<1>4. total' = total \o new
  BY DEF SplitTable
<1>5. ASSUME NEW n \in 1 .. F
      PROVE  new[n] = Bill(CheckLines(share, filled[n]))
  BY <1>2
<1>6. /\ Len(orders') = L + F
      /\ DOMAIN orders' = 1 .. Len(orders')
  BY SplitShape, LenProperties
<1>7. ASSUME NEW o \in 1 .. L
      PROVE  orders'[o].items = orders[o].items
  <2>1. orders[o] \in OrderRow
    BY <1>1, RowType
  <2>2. \/ orders'[o] = orders[o]
        \/ orders'[o] = [orders[o] EXCEPT !.status = "cancelled"]
    BY SplitShape
  <2>3. QED
    BY <2>1, <2>2 DEF OrderRow
<1>8. ASSUME NEW o \in L + 1 .. L + F
      PROVE  orders'[o].items = CheckLines(share, filled[o - L])
  <2>1. o \in Len(orders) + 1 .. Len(orders')
    BY <1>6
  <2>2. orders'[o] = SplitRow(first, CheckLines(share, FilledChecks(share)[o - Len(orders)]))
    BY <2>1, SplitShape
  <2>3. QED
    BY <2>2 DEF SplitRow
<1> HIDE DEF filled, bills, new, L, F
<1>9. total \in Seq(Amounts) /\ Len(total) = L
  BY DEF TotalsFollow, L
<1>10. /\ total' \in Seq(Amounts)
       /\ Len(total') = L + F
       /\ \A i \in 1 .. L + F : total'[i] = IF i <= L THEN total[i] ELSE new[i - L]
  BY <1>3, <1>4, <1>9, ConcatProperties
<1>11. ASSUME NEW o \in 1 .. L + F
       PROVE  total'[o] = Bill(orders'[o].items)
  <2>1. CASE o <= L
    <3>1. o \in 1 .. L
      BY <1>1, <1>2, <2>1
    <3>2. total[o] = Bill(orders[o].items)
      BY <1>1, <3>1 DEF TotalsFollow
    <3>3. QED
      BY <1>7, <1>10, <2>1, <3>1, <3>2
  <2>2. CASE ~(o <= L)
    <3>1. o \in L + 1 .. L + F /\ o - L \in 1 .. F
      BY <1>1, <1>2, <2>2
    <3>2. total'[o] = new[o - L]
      BY <1>10, <2>2
    <3>3. QED
      BY <1>5, <1>8, <3>1, <3>2
  <2>3. QED
    BY <2>1, <2>2
<1>12. QED
  BY <1>6, <1>10, <1>11 DEF TotalsFollow

LEMMA TotalsAlwaysFollow == Spec => []TotalsFollow
<1>1. Init => TotalsFollow
  <2> SUFFICES ASSUME Init
               PROVE  TotalsFollow
    OBVIOUS
  <2>1. orders = <<>> /\ total = <<>>
    BY DEF Init
  <2>2. QED
    BY <2>1, EmptySeq DEF TotalsFollow
<1>2. RowsOK /\ TotalsFollow /\ [Next]_vars => TotalsFollow'
  <2> SUFFICES ASSUME RowsOK, TotalsFollow, [Next]_vars
               PROVE  TotalsFollow'
    OBVIOUS
  <2>1. ASSUME NEW u \in Users, NEW t \in Tables, NEW k \in Keys \cup {None}, NEW cart \in Carts,
               CreateOrder(u, t, k, cart)
        PROVE  TotalsFollow'
    BY <2>1, CreateTotals
  <2>2. ASSUME NEW u \in Users, NEW o \in DOMAIN orders, NEW t \in Tables \cup {None},
               NEW cart \in Carts \cup {<<>>}, UpdateOrder(u, o, t, cart)
        PROVE  TotalsFollow'
    BY <2>2, UpdateTotals
  <2>3. ASSUME NEW u \in Users, NEW o \in DOMAIN orders, NEW s \in OrderStatuses,
               UpdateOrderStatus(u, o, s)
        PROVE  TotalsFollow'
    <3> DEFINE row == ServedIf(orders[o], s)
               new == Advanced(row, s)
    <3>1. orders[o] \in OrderRow
      BY RowType
    <3>2. row \in OrderRow /\ Bill(row.items) = Bill(orders[o].items)
      BY <3>1, ServedRow, ServedBill
    <3>3. orders' = [orders EXCEPT ![o] = new] /\ total' = total
      BY <2>3 DEF UpdateOrderStatus
    <3> HIDE DEF row
    <3>4. Bill(new.items) = Bill(orders[o].items)
      BY <3>2, AdvancedRow
    <3> HIDE DEF new
    <3>5. QED
      BY <3>3, <3>4, SameBill
  <2>4. ASSUME NEW o \in DOMAIN orders, NEW i \in DOMAIN orders[o].items, NEW s \in ItemRequests,
               UpdateItemStatus(o, i, s)
        PROVE  TotalsFollow'
    <3> DEFINE row == WithItemStatus(orders[o], i, s)
               new == IF ItemAdvances(row, s) THEN Advanced(row, s) ELSE row
    <3>1. orders[o] \in OrderRow
      BY RowType
    <3>2. row \in OrderRow /\ Bill(row.items) = Bill(orders[o].items)
      BY <3>1, ItemRow, ItemBill, ItemRequestsAreStatuses
    <3>3. orders' = [orders EXCEPT ![o] = new] /\ total' = total
      BY <2>4 DEF UpdateItemStatus
    <3> HIDE DEF row
    <3>4. ItemAdvances(row, s) => s \in OrderStatuses
      BY DEF ItemAdvances, OrderStatuses, ActiveStatuses
    <3>5. Bill(new.items) = Bill(orders[o].items)
      BY <3>2, <3>4, AdvancedRow
    <3> HIDE DEF new
    <3>6. QED
      BY <3>3, <3>5, SameBill
  <2>5. ASSUME NEW u \in Users, NEW t \in Tables, NEW share \in SplitRequests(t),
               NEW first \in Newest(Active(t)), SplitTable(u, t, share, first)
        PROVE  TotalsFollow'
    BY <2>5, SplitTotals
  <2>6. CASE UNCHANGED <<orders, total>>
    BY <2>6 DEF TotalsFollow
  <2>7. QED
    BY <2>1, <2>2, <2>3, <2>4, <2>5, <2>6 DEF Next, vars, UpdateTable, UpdateMenuItem
<1>3. QED
  BY <1>1, <1>2, RowsAreTyped, PTL DEF Spec

\* What an order charges is the sum over its stored lines, after every edit, item
\* update and split, whatever happened to the menu since.
THEOREM OrdersChargeTheirLines == Spec => []BilledAsListed
<1>1. TotalsFollow => BilledAsListed
  BY DEF TotalsFollow, BilledAsListed, Bill
<1>2. QED
  BY <1>1, TotalsAlwaysFollow, PTL

LEMMA LineNumbers ==
    \A line \in Line : /\ line.qty \in Nat \ {0} /\ line.price \in Nat
                      /\ line.qty * line.price \in Nat
<1> SUFFICES ASSUME NEW line \in Line
             PROVE  line.qty \in Nat \ {0} /\ line.price \in Nat /\ line.qty * line.price \in Nat
  OBVIOUS
<1> DEFINE q == line.qty
           p == line.price
<1>1. q \in 1 .. MaxQty /\ p \in Prices
  BY DEF Line
<1>2. MaxQty \in Nat /\ Prices \subseteq Nat
  BY Bounds
<1> HIDE DEF q, p
<1>3. q \in Nat \ {0} /\ p \in Nat /\ q * p \in Nat
  BY <1>1, <1>2
<1>4. QED
  BY <1>3 DEF q, p

\* A bill is a natural number.
LEMMA BillNat ==
    ASSUME NEW items \in Seq(Line)
    PROVE  Bill(items) \in Nat
<1> DEFINE f == [i \in DOMAIN items |-> items[i].qty * items[i].price]
           I == DOMAIN items
<1>1. IsFiniteSet(I)
  <2>1. Len(items) \in Int /\ I = 1 .. Len(items)
    OBVIOUS
  <2>2. QED
    BY <2>1, Positions
<1>2. \A i \in I : f[i] \in Nat
  <2>1. \A i \in I : items[i] \in Line
    OBVIOUS
  <2>2. \A i \in I : items[i].qty * items[i].price \in Nat
    BY <2>1, LineNumbers
  <2>3. QED
    BY <2>2
<1>3. Bill(items) = SumFunctionOnSet(f, I)
  BY DEF Bill, SumFunction
<1> HIDE DEF f, I
<1>4. QED
  BY <1>1, <1>2, <1>3, SumNat

\* The rows keep their types, and every order has an amount that is not negative.
THEOREM OrderTypes == Spec => []TypeOK
<1>1. Spec => []TotalsFollow
  BY TotalsAlwaysFollow
<1>2. RowsOK /\ TotalsFollow => TypeOK
  <2> SUFFICES ASSUME RowsOK, TotalsFollow PROVE TypeOK
    OBVIOUS
  <2>1. DOMAIN total = DOMAIN orders /\ total = [o \in DOMAIN orders |-> total[o]]
    BY LenProperties DEF TotalsFollow, RowsOK
  <2>2. \A o \in DOMAIN orders : total[o] \in Nat
    BY BillNat, RowType DEF TotalsFollow, OrderRow
  <2>3. QED
    BY <2>1, <2>2 DEF TypeOK
<1>3. QED
  BY <1>1, <1>2, RowsAreTyped, PTL

-----------------------------------------------------------------------------
(* Tables without active orders are not left occupied.                     *)

\* An order has items: a split that shares out everything therefore fills a check.
ItemsThere == \A o \in DOMAIN orders : DOMAIN orders[o].items # {}

LEMMA ChecksFinite == IsFiniteSet(Checks)
  BY FS_Interval, Bounds DEF Checks

\* The items on a check, and the checks with items.
Taken(share, c) == {x \in DOMAIN share : share[x][c] > 0}
Filled(share) == {c \in Checks : CheckItems(share, c) # <<>>}

LEMMA CheckItemsListed ==
    ASSUME RowsOK, NEW t, NEW share \in SplitRequests(t), NEW c \in Checks
    PROVE  /\ IsFiniteSet(Taken(share, c)) /\ IsFiniteSet(DOMAIN share)
           /\ Lists(CheckItems(share, c), Taken(share, c))
           /\ CheckItems(share, c) = <<>> <=> Taken(share, c) = {}
<1>1. PICK m \in SUBSET ActiveItems(t) : share \in [m -> [Checks -> 0 .. MaxQty]]
  BY DEF SplitRequests
<1>2. IsFiniteSet(Taken(share, c)) /\ IsFiniteSet(DOMAIN share)
  BY <1>1, ActiveItemsFinite, FS_Subset DEF Taken
<1>3. CheckItems(share, c) = SetToSeq(Taken(share, c))
  BY DEF CheckItems, Taken
<1>4. Lists(CheckItems(share, c), Taken(share, c))
  BY <1>2, <1>3, SetToSeqLists
<1> DEFINE s == CheckItems(share, c)
           X == Taken(share, c)
<1>5. s = <<>> <=> X = {}
  <2>1. Lists(s, X)
    BY <1>4
  <2> HIDE DEF s, X
  <2>2. s = <<>> <=> Len(s) = 0
    BY <2>1 DEF Lists
  <2>3. QED
    BY <2>1, <2>2 DEF Lists
<1>6. QED
  BY <1>2, <1>4, <1>5

LEMMA FilledChecksListed ==
    ASSUME NEW share
    PROVE  IsFiniteSet(Filled(share)) /\ Lists(FilledChecks(share), Filled(share))
<1>1. IsFiniteSet(Filled(share))
  BY ChecksFinite, FS_Subset DEF Filled
<1>2. FilledChecks(share) = SetToSeq(Filled(share))
  BY DEF FilledChecks, Filled
<1>3. QED
  BY <1>1, <1>2, SetToSeqLists

LEMMA ItemTypes ==
    ASSUME RowsOK, NEW t, NEW x \in ActiveItems(t)
    PROVE  /\ x[1] \in Active(t) /\ x[2] \in DOMAIN orders[x[1]].items /\ x = <<x[1], x[2]>>
           /\ Item(x) \in Line /\ Item(x).qty \in Nat \ {0} /\ Item(x).price \in Nat
<1>1. PICK o \in Active(t) : x \in {o} \X DOMAIN orders[o].items
  BY DEF ActiveItems
<1>2. orders[o].items \in Seq(Line)
  BY ActiveOrders, RowType DEF OrderRow
<1>3. orders[o].items[x[2]] \in Line
  BY <1>1, <1>2, LenProperties, ElementOfSeq
<1>4. QED
  BY <1>1, <1>3, LineNumbers DEF Item

\* A mentioned item has a unit on some check.
LEMMA SomeCheckHas ==
    ASSUME RowsOK, NEW t, NEW share \in SplitRequests(t), NEW x \in DOMAIN share
    PROVE  \E c \in Checks : share[x][c] > 0
<1>1. PICK m \in SUBSET ActiveItems(t) :
        /\ share \in [m -> [Checks -> 0 .. MaxQty]]
        /\ \A y \in m : SumFunction(share[y]) = Item(y).qty
  BY DEF SplitRequests
<1>2. x \in ActiveItems(t) /\ share[x] \in [Checks -> 0 .. MaxQty]
  BY <1>1
<1>3. SumFunctionOnSet(share[x], Checks) # 0
  BY <1>1, <1>2, ItemTypes DEF SumFunction
<1>4. PICK c \in Checks : share[x][c] # 0
  BY <1>3, ChecksFinite, SumZero
<1>5. share[x][c] \in 0 .. MaxQty /\ MaxQty \in Nat
  BY <1>2, Bounds
<1>6. QED
  BY <1>4, <1>5

LEMMA SplitFills ==
    ASSUME RowsOK, ItemsThere, ~PartialSplits, NEW t, NEW share \in SplitRequests(t),
           Active(t) # {}
    PROVE  Len(FilledChecks(share)) >= 1
<1>1. DOMAIN share = ActiveItems(t)
  BY DEF SplitRequests
<1>2. PICK o \in Active(t) : TRUE
  OBVIOUS
<1>3. PICK i \in DOMAIN orders[o].items : TRUE
  BY <1>2, ActiveOrders DEF ItemsThere
<1>4. <<o, i>> \in DOMAIN share
  BY <1>1 DEF ActiveItems
<1>5. PICK c \in Checks : share[<<o, i>>][c] > 0
  BY <1>4, SomeCheckHas
<1>6. CheckItems(share, c) # <<>>
  BY <1>4, <1>5, CheckItemsListed DEF Taken
<1>7. PICK n \in 1 .. Len(FilledChecks(share)) : TRUE
  BY <1>6, FilledChecksListed DEF Filled, Lists
<1>8. QED
  BY <1>7, FilledChecksListed DEF Lists

LEMMA ItemsInPlace ==
    ASSUME RowsOK, ItemsThere, NEW o \in DOMAIN orders, NEW new,
           orders' = [orders EXCEPT ![o] = new], DOMAIN new.items # {}
    PROVE  ItemsThere'
  BY DEF ItemsThere

LEMMA ItemsStep == ASSUME RowsOK, ItemsThere, [Next]_vars PROVE ItemsThere'
<1>1. ASSUME NEW cart \in Carts PROVE DOMAIN Priced(cart) # {}
  <2>1. PICK n \in 1 .. MaxLines : DOMAIN cart = 1 .. n
    BY DEF Carts
  <2>2. 1 \in 1 .. n
    BY <2>1, Bounds
  <2>3. QED
    BY <2>1, <2>2 DEF Priced
<1>2. ASSUME NEW u \in Users, NEW t \in Tables, NEW k \in Keys \cup {None}, NEW cart \in Carts,
             CreateOrder(u, t, k, cart)
      PROVE  ItemsThere'
  <2> DEFINE row ==
        [table |-> t, waiter |-> u, key |-> k, status |-> "pending",
         readyAt |-> FALSE, servedAt |-> FALSE, paidAt |-> FALSE,
         born |-> Len(orders) + 1, items |-> Priced(cart), logged |-> "pending"]
  <2>1. orders' = Append(orders, row) /\ DOMAIN row.items # {}
    BY <1>1, <1>2 DEF CreateOrder
  <2> HIDE DEF row
  <2>2. orders \in Seq(OrderRow)
    BY DEF RowsOK
  <2>3. /\ DOMAIN orders' = 1 .. Len(orders) + 1 /\ orders'[Len(orders) + 1] = row
        /\ \A o \in 1 .. Len(orders) : orders'[o] = orders[o] /\ o \in DOMAIN orders
        /\ \A o \in 1 .. Len(orders) + 1 : o \in 1 .. Len(orders) \/ o = Len(orders) + 1
    BY <2>1, <2>2
  <2>4. QED
    BY <2>1, <2>3 DEF ItemsThere
<1>3. ASSUME NEW u \in Users, NEW o \in DOMAIN orders, NEW t \in Tables \cup {None},
             NEW cart \in Carts \cup {<<>>}, UpdateOrder(u, o, t, cart)
      PROVE  ItemsThere'
  <2>1. orders[o] \in OrderRow
    BY RowType
  <2>2. Edited(orders[o], t, cart).items = IF cart = <<>> THEN orders[o].items ELSE Priced(cart)
    BY <2>1 DEF Edited, OrderRow
  <2>3. DOMAIN Edited(orders[o], t, cart).items # {}
    BY <1>1, <2>2 DEF ItemsThere
  <2>4. QED
    BY <1>3, <2>3, ItemsInPlace DEF UpdateOrder
<1>4. ASSUME NEW u \in Users, NEW o \in DOMAIN orders, NEW s \in OrderStatuses,
             UpdateOrderStatus(u, o, s)
      PROVE  ItemsThere'
  <2>1. orders[o] \in OrderRow
    BY RowType
  <2>2. DOMAIN ServedIf(orders[o], s).items = DOMAIN orders[o].items
    BY <2>1 DEF ServedIf, AllServed, OrderRow
  <2>3. DOMAIN Advanced(ServedIf(orders[o], s), s).items # {}
    BY <2>1, <2>2, ServedRow, AdvancedRow DEF ItemsThere
  <2>4. QED
    BY <1>4, <2>3, ItemsInPlace DEF UpdateOrderStatus
<1>5. ASSUME NEW o \in DOMAIN orders, NEW i \in DOMAIN orders[o].items, NEW s \in ItemRequests,
             UpdateItemStatus(o, i, s)
      PROVE  ItemsThere'
  <2> DEFINE row == WithItemStatus(orders[o], i, s)
             new == IF ItemAdvances(row, s) THEN Advanced(row, s) ELSE row
  <2>1. orders[o] \in OrderRow
    BY RowType
  <2>2. row \in OrderRow /\ DOMAIN row.items = DOMAIN orders[o].items
    <3>1. row \in OrderRow
      BY <2>1, ItemRow, ItemRequestsAreStatuses
    <3>2. QED
      BY <2>1, <3>1 DEF WithItemStatus, OrderRow
  <2>3. ItemAdvances(row, s) => s \in OrderStatuses
    BY DEF ItemAdvances, OrderStatuses, ActiveStatuses
  <2>4. orders' = [orders EXCEPT ![o] = new]
    BY <1>5 DEF UpdateItemStatus
  <2> HIDE DEF row
  <2>5. DOMAIN new.items # {}
    BY <2>2, <2>3, AdvancedRow DEF ItemsThere
  <2> HIDE DEF new
  <2>6. QED
    BY <2>4, <2>5, ItemsInPlace
<1>6. ASSUME NEW u \in Users, NEW t \in Tables, NEW share \in SplitRequests(t),
             NEW first \in Newest(Active(t)), SplitTable(u, t, share, first)
      PROVE  ItemsThere'
  <2> SUFFICES ASSUME NEW p \in DOMAIN orders' PROVE DOMAIN orders'[p].items # {}
    BY DEF ItemsThere
  <2>1. /\ Len(orders) \in Nat /\ DOMAIN orders = 1 .. Len(orders)
        /\ Len(orders') \in Nat /\ DOMAIN orders' = 1 .. Len(orders')
    BY <1>6, SplitShape, LenProperties DEF RowsOK
  <2>2. CASE p \in 1 .. Len(orders)
    <3>1. \/ orders'[p] = orders[p]
          \/ orders'[p] = [orders[p] EXCEPT !.status = "cancelled"]
      BY <1>6, <2>2, SplitShape
    <3>2. orders[p] \in OrderRow
      BY <2>1, <2>2, RowType
    <3>3. QED
      BY <2>1, <2>2, <3>1, <3>2 DEF OrderRow, ItemsThere
  <2>3. CASE p \in Len(orders) + 1 .. Len(orders')
    <3> DEFINE n == p - Len(orders)
               c == FilledChecks(share)[n]
    <3>1. n \in 1 .. Len(FilledChecks(share))
      <4>1. /\ Len(orders') = Len(orders) + Len(FilledChecks(share))
            /\ Len(FilledChecks(share)) \in Nat
        BY <1>6, SplitShape, FilledChecksListed DEF Lists
      <4>2. QED
        BY <2>1, <2>3, <4>1
    <3>2. c \in Checks /\ CheckItems(share, c) # <<>>
      <4>1. \A k \in 1 .. Len(FilledChecks(share)) : FilledChecks(share)[k] \in Filled(share)
        BY FilledChecksListed DEF Lists
      <4>2. c \in Filled(share)
        BY <3>1, <4>1
      <4>3. QED
        BY <4>2 DEF Filled
    <3>3. orders'[p].items = CheckLines(share, c)
      <4>1. orders'[p] = SplitRow(first, CheckLines(share, c))
        BY <1>6, <2>3, SplitShape
      <4>2. QED
        BY <4>1 DEF SplitRow
    <3> HIDE DEF n, c
    <3>4. DOMAIN CheckItems(share, c) # {}
      <4>1. Taken(share, c) # {} /\ Lists(CheckItems(share, c), Taken(share, c))
        BY <3>2, CheckItemsListed
      <4>2. QED
        BY <4>1 DEF Lists
    <3>5. QED
      BY <3>3, <3>4 DEF CheckLines
  <2>4. QED
    BY <2>1, <2>2, <2>3
<1>7. CASE UNCHANGED orders
  BY <1>7 DEF ItemsThere
<1>8. QED
  BY <1>2, <1>3, <1>4, <1>5, <1>6, <1>7 DEF Next, vars, UpdateTable, UpdateMenuItem

\* A step that changes one row in place leaves the other rows of its table active.
LEMMA FreeInPlace ==
    ASSUME RowsOK, FreeWhenDone, NEW o \in DOMAIN orders, NEW new,
           orders' = [orders EXCEPT ![o] = new],
           \A t \in Tables : tables'[t] = "occupied" =>
              \/ tables[t] = "occupied" /\ Active(t) # {o}
              \/ new.table = t /\ new.status \notin FinalStatuses
    PROVE  FreeWhenDone'
<1> SUFFICES ASSUME NEW t \in Tables, tables'[t] = "occupied"
             PROVE  \E p \in DOMAIN orders : orders'[p].table = t /\ orders'[p].status \notin FinalStatuses
  BY DEF FreeWhenDone, Active, IsActive
<1>1. CASE tables[t] = "occupied" /\ Active(t) # {o}
  <2>1. PICK p \in Active(t) : p # o
    BY <1>1 DEF FreeWhenDone
  <2>2. orders'[p] = orders[p] /\ p \in DOMAIN orders
    BY <2>1 DEF Active
  <2>3. QED
    BY <2>2 DEF Active, IsActive
<1>2. CASE new.table = t /\ new.status \notin FinalStatuses
  BY <1>2
<1>3. QED
  BY <1>1, <1>2

LEMMA UpdateFrees ==
    ASSUME RowsOK, FreeWhenDone, NEW u \in Users, NEW o \in DOMAIN orders,
           NEW t \in Tables \cup {None}, NEW cart \in Carts \cup {<<>>}, UpdateOrder(u, o, t, cart)
    PROVE  FreeWhenDone'
<1> DEFINE new == Edited(orders[o], t, cart)
           old == orders[o].table
<1>1. orders[o] \in OrderRow /\ old \in Tables /\ tables \in [Tables -> TableStatuses]
  BY RowType DEF OrderRow, RowsOK
<1>2. new.status = orders[o].status /\ new.table = IF t = None THEN old ELSE t
  BY <1>1 DEF Edited, OrderRow
<1>3. orders' = [orders EXCEPT ![o] = new]
  BY DEF UpdateOrder
<1>4. new.status \notin FinalStatuses
  BY <1>1, <1>2 DEF UpdateOrder, FinalStatuses
<1> HIDE DEF new
<1>5. ASSUME NEW r \in Tables, tables'[r] = "occupied"
      PROVE  (tables[r] = "occupied" /\ Active(r) # {o}) \/ new.table = r
  <2>1. CASE t = None
    <3>1. tables' = tables
      BY <2>1 DEF UpdateOrder
    <3>2. o \in Active(r) => r = old
      BY DEF Active
    <3>3. QED
      BY <1>2, <1>5, <2>1, <3>1, <3>2
  <2>2. CASE t # None /\ r # t
    <3>1. tables' = IF Active(old) \ {o} = {}
                    THEN [[tables EXCEPT ![t] = "occupied"] EXCEPT ![old] = "free"]
                    ELSE [tables EXCEPT ![t] = "occupied"]
      BY <2>2 DEF UpdateOrder, TablesAfterMove, TablesWithout
    <3>2. tables[r] = "occupied" /\ ~(r = old /\ Active(old) \ {o} = {})
      BY <1>1, <1>5, <2>2, <3>1
    <3>3. o \in Active(r) => r = old
      BY DEF Active
    <3>4. QED
      BY <3>2, <3>3
  <2>3. CASE t # None /\ r = t
    BY <1>2, <2>3
  <2>4. QED
    BY <2>1, <2>2, <2>3
<1>6. QED
  BY <1>3, <1>4, <1>5, FreeInPlace

LEMMA StatusFrees ==
    ASSUME RowsOK, FreeWhenDone, NEW u \in Users, NEW o \in DOMAIN orders,
           NEW s \in OrderStatuses, UpdateOrderStatus(u, o, s)
    PROVE  FreeWhenDone'
<1> DEFINE row == ServedIf(orders[o], s)
           new == Advanced(row, s)
           old == orders[o].table
<1>1. orders[o] \in OrderRow /\ old \in Tables /\ tables \in [Tables -> TableStatuses]
  BY RowType DEF OrderRow, RowsOK
<1>2. row \in OrderRow /\ row.table = old
  BY <1>1, ServedRow
<1>3. orders' = [orders EXCEPT ![o] = new]
  BY DEF UpdateOrderStatus
<1> HIDE DEF row
<1>4. new.status = s /\ new.table = old
  BY <1>2, AdvancedRow
<1> HIDE DEF new
<1>5. ASSUME NEW r \in Tables, tables'[r] = "occupied"
      PROVE  \/ tables[r] = "occupied" /\ Active(r) # {o}
             \/ new.table = r /\ new.status \notin FinalStatuses
  <2>1. o \in Active(r) => r = old
    BY DEF Active
  <2>2. CASE s \notin FinalStatuses
    BY <1>4, <1>5, <2>1, <2>2 DEF UpdateOrderStatus
  <2>3. CASE s \in FinalStatuses
    <3>1. tables' = IF Active(old) \ {o} = {} THEN [tables EXCEPT ![old] = "free"] ELSE tables
      BY <2>3 DEF UpdateOrderStatus, TablesWithout
    <3>2. tables[r] = "occupied" /\ ~(r = old /\ Active(old) \ {o} = {})
      BY <1>1, <1>5, <3>1
    <3>3. QED
      BY <2>1, <3>2
  <2>4. QED
    BY <2>2, <2>3
<1>6. QED
  BY <1>3, <1>5, FreeInPlace

LEMMA ItemFrees ==
    ASSUME RowsOK, FreeWhenDone, NEW o \in DOMAIN orders,
           NEW i \in DOMAIN orders[o].items, NEW s \in ItemRequests, UpdateItemStatus(o, i, s)
    PROVE  FreeWhenDone'
<1> DEFINE row == WithItemStatus(orders[o], i, s)
           new == IF ItemAdvances(row, s) THEN Advanced(row, s) ELSE row
<1>1. orders[o] \in OrderRow
  BY RowType
<1>2. row \in OrderRow /\ row.table = orders[o].table /\ row.status = orders[o].status
  BY <1>1, ItemRow, ItemRequestsAreStatuses
<1>3. orders' = [orders EXCEPT ![o] = new] /\ tables' = tables
  BY DEF UpdateItemStatus
<1> HIDE DEF row
<1>4. new.table = orders[o].table /\ (ItemAdvances(row, s) => new.status = s)
  <2>1. ItemAdvances(row, s) => s \in OrderStatuses
    BY DEF ItemAdvances, OrderStatuses, ActiveStatuses
  <2>2. QED
    BY <1>2, <2>1, AdvancedRow
<1>5. orders[o].status \notin FinalStatuses => new.status \notin FinalStatuses
  BY <1>2, <1>4 DEF ItemAdvances, FinalStatuses
<1> HIDE DEF new
<1>6. ASSUME NEW r \in Tables, tables'[r] = "occupied"
      PROVE  \/ tables[r] = "occupied" /\ Active(r) # {o}
             \/ new.table = r /\ new.status \notin FinalStatuses
  BY <1>3, <1>4, <1>5, <1>6 DEF Active, IsActive
<1>7. QED
  BY <1>3, <1>6, FreeInPlace

LEMMA SplitFrees ==
    ASSUME RowsOK, ItemsThere, FreeWhenDone, ~PartialSplits, NEW u \in Users, NEW t \in Tables,
           NEW share \in SplitRequests(t), NEW first \in Newest(Active(t)),
           SplitTable(u, t, share, first)
    PROVE  FreeWhenDone'
<1> DEFINE L == Len(orders)
           n == L + 1
<1>1. /\ L \in Nat /\ DOMAIN orders = 1 .. L
      /\ Len(orders') \in Nat /\ DOMAIN orders' = 1 .. Len(orders')
  BY SplitShape, LenProperties DEF RowsOK
<1>2. first \in Active(t)
  BY DEF Newest
<1>3. n \in L + 1 .. Len(orders') /\ n \in DOMAIN orders'
  <2>1. /\ Len(orders') = L + Len(FilledChecks(share))
        /\ Len(FilledChecks(share)) \in Nat /\ Len(FilledChecks(share)) >= 1
    BY <1>2, SplitShape, SplitFills, FilledChecksListed DEF Lists
  <2>2. QED
    BY <1>1, <2>1
<1>4. orders'[n] = SplitRow(first, CheckLines(share, FilledChecks(share)[n - L]))
  BY <1>3, SplitShape
<1>5. orders'[n].table = t /\ orders'[n].status \notin FinalStatuses
  BY <1>2, <1>4, ActiveOrders DEF SplitRow
<1> HIDE DEF n
<1> SUFFICES ASSUME NEW r \in Tables, tables'[r] = "occupied"
             PROVE  \E p \in DOMAIN orders' : orders'[p].table = r /\ orders'[p].status \notin FinalStatuses
  BY DEF FreeWhenDone, Active, IsActive
<1>6. CASE r = t
  BY <1>3, <1>5, <1>6
<1>7. CASE r # t
  <2>1. tables' = tables
    BY DEF SplitTable
  <2>2. PICK p \in Active(r) : TRUE
    BY <2>1 DEF FreeWhenDone
  <2>3. p \in 1 .. L /\ p \notin Active(t) /\ p \in 1 .. Len(orders')
    <3>1. p \in 1 .. L /\ p \notin Active(t)
      BY <1>1, <1>7, <2>2 DEF Active
    <3>2. QED
      BY <1>1, <1>3, <3>1
  <2>4. orders'[p] = orders[p]
    BY <2>3, SplitShape
  <2>5. QED
    BY <1>1, <2>2, <2>3, <2>4, ActiveOrders
<1>8. QED
  BY <1>6, <1>7

\* Where nobody overrides the workflow and splits share out everything, a table that is
\* shown occupied has an active order, through moves, cancellations, payments and splits
\* (orders.py:355-364, 428-436, split_table_orders).
THEOREM TablesAreFreed ==
    ~Overrides /\ ~PartialSplits => (Spec => []FreeWhenDone)
<1> SUFFICES ASSUME ~Overrides, ~PartialSplits PROVE Spec => []FreeWhenDone
  OBVIOUS
<1>1. Init => ItemsThere /\ FreeWhenDone
  BY DEF Init, ItemsThere, FreeWhenDone
<1>2. RowsOK /\ ItemsThere /\ FreeWhenDone /\ [Next]_vars => ItemsThere' /\ FreeWhenDone'
  <2> SUFFICES ASSUME RowsOK, ItemsThere, FreeWhenDone, [Next]_vars
               PROVE  FreeWhenDone'
    BY ItemsStep
  <2>1. ASSUME NEW u \in Users, NEW t \in Tables, NEW k \in Keys \cup {None}, NEW cart \in Carts,
               CreateOrder(u, t, k, cart)
        PROVE  FreeWhenDone'
    <3> DEFINE row ==
          [table |-> t, waiter |-> u, key |-> k, status |-> "pending",
           readyAt |-> FALSE, servedAt |-> FALSE, paidAt |-> FALSE,
           born |-> Len(orders) + 1, items |-> Priced(cart), logged |-> "pending"]
    <3>1. /\ orders' = Append(orders, row) /\ orders \in Seq(OrderRow)
          /\ tables' = [tables EXCEPT ![t] = "occupied"] /\ tables \in [Tables -> TableStatuses]
      BY <2>1 DEF CreateOrder, RowsOK
    <3>2. row.table = t /\ row.status \notin FinalStatuses
      BY DEF FinalStatuses
    <3> HIDE DEF row
    <3>3. /\ DOMAIN orders' = 1 .. Len(orders) + 1 /\ orders'[Len(orders) + 1] = row
          /\ Len(orders) + 1 \in DOMAIN orders'
          /\ \A o \in DOMAIN orders : o \in DOMAIN orders' /\ orders'[o] = orders[o]
      BY <3>1
    <3> SUFFICES ASSUME NEW r \in Tables, tables'[r] = "occupied"
                 PROVE  \E p \in DOMAIN orders' :
                           orders'[p].table = r /\ orders'[p].status \notin FinalStatuses
      BY DEF FreeWhenDone, Active, IsActive
    <3>4. CASE r = t
      BY <3>2, <3>3, <3>4
    <3>5. CASE r # t
      <4>1. tables[r] = "occupied"
        BY <3>1, <3>5
      <4>2. PICK p \in Active(r) : TRUE
        BY <4>1 DEF FreeWhenDone
      <4>3. QED
        BY <3>3, <4>2, ActiveOrders
    <3>6. QED
      BY <3>4, <3>5
  <2>2. ASSUME NEW u \in Users, NEW o \in DOMAIN orders, NEW t \in Tables \cup {None},
               NEW cart \in Carts \cup {<<>>}, UpdateOrder(u, o, t, cart)
        PROVE  FreeWhenDone'
    BY <2>2, UpdateFrees
  <2>3. ASSUME NEW u \in Users, NEW o \in DOMAIN orders, NEW s \in OrderStatuses,
               UpdateOrderStatus(u, o, s)
        PROVE  FreeWhenDone'
    BY <2>3, StatusFrees
  <2>4. ASSUME NEW o \in DOMAIN orders, NEW i \in DOMAIN orders[o].items, NEW s \in ItemRequests,
               UpdateItemStatus(o, i, s)
        PROVE  FreeWhenDone'
    BY <2>4, ItemFrees
  <2>5. ASSUME NEW u \in Users, NEW t \in Tables, NEW share \in SplitRequests(t),
               NEW first \in Newest(Active(t)), SplitTable(u, t, share, first)
        PROVE  FreeWhenDone'
    BY <2>5, SplitFrees
  <2>6. ASSUME NEW u \in Users, NEW t \in Tables, NEW s \in TableStatuses, UpdateTable(u, t, s)
        PROVE  FreeWhenDone'
    BY <2>6 DEF UpdateTable
  <2>7. CASE UNCHANGED <<orders, tables>>
    BY <2>7 DEF FreeWhenDone, Active, IsActive
  <2>8. QED
    BY <2>1, <2>2, <2>3, <2>4, <2>5, <2>6, <2>7 DEF Next, vars, UpdateMenuItem
<1>3. QED
  BY <1>1, <1>2, RowsAreTyped, PTL DEF Spec

-----------------------------------------------------------------------------
(* Events.                                                                 *)

\* Whatever managers override, a status changes with an event of its own, or in a split,
\* which cancels all the active orders of the table (orders.py:_event, split_table_orders).
THEOREM OnlySplitsAreUnlogged == Spec => UnloggedOnlyBySplit
<1> DEFINE Logged(o) ==
      \/ orders'[o].status = orders[o].status
      \/ orders'[o].logged = orders'[o].status
      \/ \A p \in Active(orders[o].table) : orders'[p].status = "cancelled"
<1>1. ASSUME NEW o \in DOMAIN orders, NEW new, orders' = [orders EXCEPT ![o] = new],
             new.status = orders[o].status \/ new.logged = new.status
      PROVE  \A p \in DOMAIN orders : Logged(p)
  BY <1>1
<1>2. ASSUME RowsOK, [Next]_vars PROVE [\A o \in DOMAIN orders : Logged(o)]_vars
  <2>1. ASSUME NEW u \in Users, NEW t \in Tables, NEW k \in Keys \cup {None}, NEW cart \in Carts,
               CreateOrder(u, t, k, cart)
        PROVE  \A o \in DOMAIN orders : Logged(o)
    BY <1>2, <2>1, CreateRowStep
  <2>2. ASSUME NEW u \in Users, NEW o \in DOMAIN orders, NEW t \in Tables \cup {None},
               NEW cart \in Carts \cup {<<>>}, UpdateOrder(u, o, t, cart)
        PROVE  \A p \in DOMAIN orders : Logged(p)
    <3> DEFINE new == Edited(orders[o], t, cart)
    <3>1. orders[o] \in OrderRow
      BY <1>2, RowType
    <3>2. new.status = orders[o].status /\ orders' = [orders EXCEPT ![o] = new]
      BY <2>2, <3>1 DEF UpdateOrder, Edited, OrderRow
    <3> HIDE DEF new, Logged
    <3>3. QED
      BY <1>1, <3>2
  <2>3. ASSUME NEW u \in Users, NEW o \in DOMAIN orders, NEW s \in OrderStatuses,
               UpdateOrderStatus(u, o, s)
        PROVE  \A p \in DOMAIN orders : Logged(p)
    <3> DEFINE row == ServedIf(orders[o], s)
               new == Advanced(row, s)
    <3>1. row \in OrderRow
      BY <1>2, RowType, ServedRow
    <3>2. orders' = [orders EXCEPT ![o] = new]
      BY <2>3 DEF UpdateOrderStatus
    <3> HIDE DEF row
    <3>3. new.status = s /\ new.logged = s
      BY <3>1 DEF Advanced, OrderRow
    <3> HIDE DEF new, Logged
    <3>4. QED
      BY <1>1, <3>2, <3>3
  <2>4. ASSUME NEW o \in DOMAIN orders, NEW i \in DOMAIN orders[o].items, NEW s \in ItemRequests,
               UpdateItemStatus(o, i, s)
        PROVE  \A p \in DOMAIN orders : Logged(p)
    <3> DEFINE row == WithItemStatus(orders[o], i, s)
               new == IF ItemAdvances(row, s) THEN Advanced(row, s) ELSE row
    <3>1. row \in OrderRow /\ row.status = orders[o].status
      BY <1>2, RowType, ItemRow, ItemRequestsAreStatuses
    <3>2. orders' = [orders EXCEPT ![o] = new]
      BY <2>4 DEF UpdateItemStatus
    <3> HIDE DEF row
    <3>3. new.status = orders[o].status \/ new.logged = new.status
      BY <3>1 DEF Advanced, OrderRow
    <3> HIDE DEF new, Logged
    <3>4. QED
      BY <1>1, <3>2, <3>3
  <2>5. ASSUME NEW u \in Users, NEW t \in Tables, NEW share \in SplitRequests(t),
               NEW first \in Newest(Active(t)), SplitTable(u, t, share, first)
        PROVE  \A o \in DOMAIN orders : Logged(o)
    <3> SUFFICES ASSUME NEW o \in DOMAIN orders PROVE Logged(o)
      OBVIOUS
    <3>1. \A p \in DOMAIN orders :
            orders'[p] = IF p \in Active(t) THEN [orders[p] EXCEPT !.status = "cancelled"]
                                            ELSE orders[p]
      BY <1>2, <2>5, SplitShape, LenProperties DEF RowsOK
    <3>2. CASE o \in Active(t)
      <4>1. orders[o].table = t
        BY <3>2, ActiveOrders
      <4>2. \A p \in Active(t) : p \in DOMAIN orders /\ orders[p] \in OrderRow
        BY <1>2, ActiveOrders, RowType
      <4>3. \A p \in Active(t) : orders'[p].status = "cancelled"
        BY <3>1, <4>2 DEF OrderRow
      <4>4. QED
        BY <4>1, <4>3
    <3>3. CASE o \notin Active(t)
      BY <3>1, <3>3
    <3>4. QED
      BY <3>2, <3>3
  <2>6. CASE UNCHANGED orders
    BY <2>6
  <2> HIDE DEF Logged
  <2>7. QED
    BY <1>2, <2>1, <2>2, <2>3, <2>4, <2>5, <2>6 DEF Next, vars, UpdateTable, UpdateMenuItem
<1>3. QED
  BY <1>2, RowsAreTyped, PTL DEF Spec, UnloggedOnlyBySplit

-----------------------------------------------------------------------------
(* A split changes who pays, not how much.                                 *)

\* What an item of a table costs on a check.
Costs(share) == [x \in DOMAIN share |-> [c \in Checks |-> share[x][c] * Item(x).price]]
ItemCosts(t) == [x \in ActiveItems(t) |-> Item(x).qty * Item(x).price]
CheckCosts(share) == [c \in Checks |-> Bill(CheckLines(share, c))]

LEMMA CostsInt ==
    ASSUME RowsOK, NEW t, NEW share \in SplitRequests(t)
    PROVE  /\ DOMAIN share \subseteq ActiveItems(t)
           /\ \A x \in DOMAIN share : \A c \in Checks :
                share[x][c] \in Nat /\ Costs(share)[x][c] \in Int
           /\ \A x \in DOMAIN share :
                /\ DOMAIN share[x] = Checks
                /\ SumFunctionOnSet(share[x], Checks) = Item(x).qty
<1>1. PICK m \in SUBSET ActiveItems(t) :
        /\ share \in [m -> [Checks -> 0 .. MaxQty]]
        /\ \A y \in m : SumFunction(share[y]) = Item(y).qty
  BY DEF SplitRequests
<1>2. \A x \in m : share[x] \in [Checks -> 0 .. MaxQty] /\ Item(x).price \in Nat
  BY <1>1, ItemTypes
<1>3. \A x \in m : \A c \in Checks : share[x][c] \in Nat /\ Item(x).price \in Nat
  BY <1>2
<1>4. \A x \in m : \A c \in Checks : share[x][c] * Item(x).price \in Int
  BY <1>3
<1>5. QED
  BY <1>1, <1>2, <1>3, <1>4 DEF Costs, SumFunction

\* The bill of a check is the sum over all items of what they cost there.
LEMMA CheckBill ==
    ASSUME RowsOK, NEW t, NEW share \in SplitRequests(t), NEW c \in Checks
    PROVE  Bill(CheckLines(share, c))
             = SumFunctionOnSet([x \in DOMAIN share |-> Costs(share)[x][c]], DOMAIN share)
<1> DEFINE s == CheckItems(share, c)
           N == Len(s)
           X == DOMAIN share
           T == Taken(share, c)
           lines == CheckLines(share, c)
           f == [x \in X |-> Costs(share)[x][c]]
           g == [k \in 1 .. N |-> lines[k].qty * lines[k].price]
<1>1. IsFiniteSet(X) /\ IsFiniteSet(T) /\ Lists(s, T) /\ T \in SUBSET X
  BY CheckItemsListed DEF Taken
<1>2. \A x \in X : f[x] \in Int /\ (x \notin T => f[x] = 0)
  <2>1. ASSUME NEW x \in X PROVE share[x][c] \in Nat /\ Item(x).price \in Nat /\ Costs(share)[x][c] \in Int
    BY CostsInt, ItemTypes
  <2>2. ASSUME NEW x \in X, x \notin T PROVE Costs(share)[x][c] = 0
    <3>1. share[x][c] = 0
      BY <2>1, <2>2 DEF Taken
    <3>2. QED
      BY <2>1, <3>1 DEF Costs
  <2>3. QED
    BY <2>1, <2>2
<1>3. /\ N \in Nat /\ s \in [1 .. N -> T] /\ DOMAIN s = 1 .. N /\ DOMAIN lines = 1 .. N
      /\ \A i, j \in 1 .. N : s[i] = s[j] => i = j
      /\ \A x \in T : \E i \in 1 .. N : s[i] = x
  BY <1>1 DEF Lists, CheckLines
<1>4. \A k \in 1 .. N : g[k] = f[s[k]]
  <2>1. ASSUME NEW k \in 1 .. N
        PROVE  lines[k].qty = share[s[k]][c] /\ lines[k].price = Item(s[k]).price /\ s[k] \in X
    <3>1. s[k] \in X
      BY <1>1, <1>3
    <3>2. Item(s[k]) \in Line
      BY <3>1, CostsInt, ItemTypes
    <3>3. lines[k] = [Item(s[k]) EXCEPT !.qty = share[s[k]][c]]
      BY <1>3 DEF CheckLines
    <3>4. QED
      BY <3>1, <3>2, <3>3 DEF Line
  <2>2. QED
    BY <2>1 DEF Costs
<1>5. Bill(lines) = SumFunctionOnSet(g, 1 .. N)
  BY <1>3 DEF Bill, SumFunction
<1>6. IsFiniteSet(1 .. N)
  <2> HIDE DEF N
  <2>1. QED
    BY <1>3, FS_Interval
<1>7. \A x \in T : f[x] \in Int
  BY <1>1, <1>2
<1> HIDE DEF s, N, T, f, g, lines
<1>8. SumFunctionOnSet(f, T) = SumFunctionOnSet(g, 1 .. N)
  <2> DEFINE I == 1 .. N
  <2>1. /\ IsFiniteSet(I) /\ s \in [I -> T] /\ \A i, j \in I : s[i] = s[j] => i = j
        /\ \A x \in T : \E i \in I : s[i] = x
        /\ \A i \in I : g[i] = f[s[i]]
    BY <1>3, <1>4, <1>6
  <2> HIDE DEF I
  <2>2. SumFunctionOnSet(f, T) = SumFunctionOnSet(g, I)
    BY <1>7, <2>1, SumRename
  <2>3. QED
    BY <2>2 DEF I
<1>9. SumFunctionOnSet(f, X) = SumFunctionOnSet(f, T)
  BY <1>1, <1>2, SumPart
<1>10. QED
  BY <1>5, <1>8, <1>9 DEF f, lines

\* The checks together bill what the items cost.
LEMMA ChecksBillItems ==
    ASSUME RowsOK, ~PartialSplits, NEW t, NEW share \in SplitRequests(t)
    PROVE  SumFunctionOnSet(CheckCosts(share), Checks)
             = SumFunctionOnSet(ItemCosts(t), ActiveItems(t))
<1> DEFINE X == DOMAIN share
           f == Costs(share)
           rows == ItemCosts(t)
           columns == CheckCosts(share)
           turned == [c \in Checks |-> [x \in X |-> f[x][c]]]
<1>1. X = ActiveItems(t)
  BY DEF SplitRequests
<1>2. IsFiniteSet(X)
  BY <1>1, ActiveItemsFinite
<1>3. \A x \in X : \A c \in Checks : f[x][c] \in Int
  BY CostsInt
<1>4. \A x \in X : rows[x] = SumFunctionOnSet(f[x], Checks)
  <2> SUFFICES ASSUME NEW x \in X PROVE rows[x] = SumFunctionOnSet(f[x], Checks)
    OBVIOUS
  <2>1. Item(x).price \in Int /\ Item(x).qty \in Nat
    BY <1>1, ItemTypes
  <2>2. \A c \in Checks : share[x][c] \in Int
    BY CostsInt
  <2>3. \A c \in Checks : f[x][c] = share[x][c] * Item(x).price
    BY DEF Costs
  <2> HIDE DEF f
  <2>4. SumFunctionOnSet(f[x], Checks) = SumFunctionOnSet(share[x], Checks) * Item(x).price
    BY <2>1, <2>2, <2>3, ChecksFinite, SumTimes
  <2>5. SumFunctionOnSet(share[x], Checks) = Item(x).qty
    BY CostsInt
  <2>6. rows[x] = Item(x).qty * Item(x).price
    BY <1>1 DEF ItemCosts
  <2>7. QED
    BY <2>4, <2>5, <2>6
<1>5. \A c \in Checks : columns[c] = SumFunctionOnSet(turned[c], X)
  BY CheckBill DEF CheckCosts
<1>6. \A x \in X : \A c \in Checks : turned[c][x] = f[x][c]
  OBVIOUS
<1>7. DOMAIN f = X /\ DOMAIN turned = Checks
  BY DEF Costs
<1> HIDE DEF X, f, rows, columns, turned
<1>8. SumFunctionOnSet(rows, X) = SumFunctionOnSet(columns, Checks)
  BY <1>2, <1>3, <1>4, <1>5, <1>6, <1>7, ChecksFinite, SumSwap
<1>9. QED
  BY <1>1, <1>8 DEF rows, columns

\* The items of a table cost what its active orders charge.
LEMMA ItemsCostTotals ==
    ASSUME RowsOK, TotalsFollow, NEW t
    PROVE  SumFunctionOnSet(ItemCosts(t), ActiveItems(t)) = Owed(t)
<1> DEFINE A == Active(t)
           D == [o \in A |-> DOMAIN orders[o].items]
           f == ItemCosts(t)
           inner == [o \in A |-> [i \in D[o] |-> orders[o].items[i].qty * orders[o].items[i].price]]
<1>1. IsFiniteSet(A)
  <2>1. Len(orders) \in Int /\ DOMAIN orders = 1 .. Len(orders)
    BY LenProperties DEF RowsOK
  <2>2. IsFiniteSet(DOMAIN orders)
    BY <2>1, Positions
  <2>3. QED
    BY <2>2, FS_Subset DEF Active
<1>2. \A o \in A : IsFiniteSet(D[o])
  <2> SUFFICES ASSUME NEW o \in A PROVE IsFiniteSet(DOMAIN orders[o].items)
    OBVIOUS
  <2>1. orders[o].items \in Seq(Line)
    BY ActiveOrders, RowType DEF OrderRow
  <2>2. Len(orders[o].items) \in Int /\ DOMAIN orders[o].items = 1 .. Len(orders[o].items)
    BY <2>1
  <2>3. QED
    BY <2>2, Positions
<1>3. Pairs(A, D) = ActiveItems(t)
  BY DEF ActiveItems, Pairs
<1>4. \A o \in A : \A i \in D[o] : <<o, i>> \in ActiveItems(t)
  BY DEF ActiveItems
<1>5. /\ \A o \in A : \A i \in D[o] : f[<<o, i>>] \in Int
      /\ \A o \in A : \A i \in D[o] : inner[o][i] = f[<<o, i>>]
  <2> SUFFICES ASSUME NEW o \in A, NEW i \in D[o]
               PROVE  f[<<o, i>>] \in Int /\ inner[o][i] = f[<<o, i>>]
    OBVIOUS
  <2>1. <<o, i>> \in ActiveItems(t)
    BY <1>4
  <2>2. Item(<<o, i>>) = orders[o].items[i]
    BY DEF Item
  <2>3. orders[o].items[i] \in Line
    BY <2>1, <2>2, ItemTypes
  <2>4. f[<<o, i>>] = orders[o].items[i].qty * orders[o].items[i].price
    BY <2>1, <2>2 DEF ItemCosts
  <2>5. QED
    BY <2>3, <2>4, LineNumbers
<1>6. \A o \in A : total[o] = SumFunctionOnSet(inner[o], D[o])
  <2> SUFFICES ASSUME NEW o \in A
               PROVE  total[o] = SumFunctionOnSet(inner[o], DOMAIN inner[o])
    OBVIOUS
  <2>1. total[o] = Bill(orders[o].items)
    BY ActiveOrders DEF TotalsFollow
  <2>2. QED
    BY <2>1 DEF Bill, SumFunction
<1>7. DOMAIN inner = A
  OBVIOUS
<1> HIDE DEF A, D, f, inner
<1>8. SumFunctionOnSet(f, Pairs(A, D)) = SumFunctionOnSet(total, A)
  BY <1>1, <1>2, <1>5, <1>6, <1>7, SumPairs
<1>9. SumFunctionOnSet(f, ActiveItems(t)) = SumFunctionOnSet(total, A)
  BY <1>3, <1>8
<1>10. QED
  BY <1>9 DEF Owed, A, f

\* A split replaces the active orders of its table by the rows it adds.
LEMMA SplitActive ==
    ASSUME RowsOK, NEW u, NEW t, NEW share \in SplitRequests(t),
           NEW first \in Newest(Active(t)), SplitTable(u, t, share, first)
    PROVE  /\ Active(t)' = Len(orders) + 1 .. Len(orders) + Len(FilledChecks(share))
           /\ \A r : r # t => Active(r) \subseteq Active(r)'
<1> DEFINE L == Len(orders)
           F == Len(FilledChecks(share))
<1>1. /\ L \in Nat /\ DOMAIN orders = 1 .. L /\ F \in Nat
      /\ Len(orders') = L + F /\ DOMAIN orders' = 1 .. L + F
  BY SplitShape, LenProperties, FilledChecksListed DEF RowsOK, Lists
<1>2. first \in DOMAIN orders /\ orders[first].table = t /\ orders[first].status \notin FinalStatuses
  BY ActiveOrders DEF Newest
<1>3. \A p \in L + 1 .. L + F : orders'[p].table = t /\ orders'[p].status \notin FinalStatuses
  <2> SUFFICES ASSUME NEW p \in L + 1 .. L + F
               PROVE  orders'[p].table = t /\ orders'[p].status \notin FinalStatuses
    OBVIOUS
  <2>1. p \in Len(orders) + 1 .. Len(orders')
    BY <1>1
  <2>2. orders'[p] = SplitRow(first, CheckLines(share, FilledChecks(share)[p - Len(orders)]))
    BY <2>1, SplitShape
  <2>3. QED
    BY <1>2, <2>2 DEF SplitRow
<1>4. \A p \in 1 .. L : /\ p \in Active(t) => orders'[p].status = "cancelled"
                        /\ p \notin Active(t) => orders'[p] = orders[p]
  <2>1. \A p \in 1 .. L : orders[p] \in OrderRow
    BY <1>1, RowType
  <2>2. QED
    BY <2>1, SplitShape DEF OrderRow
<1>5. \A p \in DOMAIN orders' : p \in 1 .. L \/ p \in L + 1 .. L + F
  BY <1>1
<1>6. \A p \in L + 1 .. L + F : p \in DOMAIN orders'
  BY <1>1
<1>7. Active(t)' = L + 1 .. L + F
  <2>1. \A p \in 1 .. L : ~(orders'[p].table = t /\ orders'[p].status \notin FinalStatuses)
    BY <1>1, <1>4 DEF Active, IsActive, FinalStatuses
  <2>2. Active(t)' = {p \in DOMAIN orders' : orders'[p].table = t /\ orders'[p].status \notin FinalStatuses}
    BY DEF Active, IsActive
  <2> HIDE DEF L, F
  <2>3. QED
    BY <1>3, <1>5, <1>6, <2>1, <2>2
<1>8. ASSUME NEW r, r # t, NEW p \in Active(r) PROVE p \in Active(r)'
  <2>1. p \in 1 .. L /\ p \notin Active(t)
    BY <1>1, <1>8, ActiveOrders
  <2>2. p \in DOMAIN orders'
    BY <1>1, <2>1
  <2>3. QED
    BY <1>4, <1>8, <2>1, <2>2 DEF Active, IsActive
<1>9. QED
  BY <1>7, <1>8

LEMMA SplitOwes ==
    ASSUME RowsOK, TotalsFollow, ~PartialSplits, NEW u \in Users, NEW t \in Tables,
           NEW share \in SplitRequests(t), NEW first \in Newest(Active(t)),
           SplitTable(u, t, share, first)
    PROVE  Owed(t)' = Owed(t)
<1> DEFINE filled == FilledChecks(share)
           L == Len(orders)
           F == Len(filled)
           I == 1 .. F
           T == L + 1 .. L + F
           C == Filled(share)
           costs == CheckCosts(share)
           h == [n \in I |-> L + n]
           g == [n \in I |-> costs[filled[n]]]
<1>1. /\ L \in Nat /\ F \in Nat /\ IsFiniteSet(C) /\ C \in SUBSET Checks /\ filled \in [I -> C]
      /\ \A i, j \in I : filled[i] = filled[j] => i = j
      /\ \A c \in C : \E i \in I : filled[i] = c
  BY LenProperties, FilledChecksListed DEF RowsOK, Filled, Lists
<1>2. \A c \in Checks : costs[c] \in Int
  BY CheckLinesType, BillNat DEF CheckCosts
<1>3. \A c \in Checks \ C : costs[c] = 0
  <2> SUFFICES ASSUME NEW c \in Checks, CheckItems(share, c) = <<>> PROVE Bill(CheckLines(share, c)) = 0
    BY DEF CheckCosts, Filled
  <2> DEFINE lines == CheckLines(share, c)
             bill == [i \in DOMAIN lines |-> lines[i].qty * lines[i].price]
  <2>1. DOMAIN lines = {}
    BY DEF CheckLines
  <2>2. Bill(lines) = SumFunctionOnSet(bill, {})
    BY <2>1 DEF Bill, SumFunction
  <2>3. QED
    BY <2>2, SumEmpty
<1>4. Len(orders') = L + F /\ DOMAIN orders' = 1 .. L + F
  <2>1. Len(orders') = Len(orders) + Len(FilledChecks(share)) /\ orders' \in Seq(OrderRow)
    BY SplitShape
  <2>2. QED
    BY <2>1, LenProperties
<1>5. \A n \in I : total'[L + n] = costs[filled[n]]
  <2>1. TotalsFollow'
    BY SplitTotals
  <2> SUFFICES ASSUME NEW n \in I PROVE total'[L + n] = Bill(CheckLines(share, filled[n]))
    BY <1>1 DEF CheckCosts
  <2>2. L + n \in L + 1 .. Len(orders') /\ L + n - L = n /\ L + n \in DOMAIN orders'
    BY <1>1, <1>4
  <2>3. orders'[L + n] = SplitRow(first, CheckLines(share, filled[n]))
    <3>1. \A p \in Len(orders) + 1 .. Len(orders') :
             orders'[p] = SplitRow(first, CheckLines(share, FilledChecks(share)[p - Len(orders)]))
      BY SplitShape
    <3> HIDE DEF filled
    <3>2. orders'[L + n] = SplitRow(first, CheckLines(share, FilledChecks(share)[L + n - L]))
      BY <2>2, <3>1
    <3>3. QED
      BY <2>2, <3>2 DEF filled
  <2>4. orders'[L + n].items = CheckLines(share, filled[n])
    BY <2>3 DEF SplitRow
  <2>5. QED
    BY <2>1, <2>2, <2>4 DEF TotalsFollow
<1>6. /\ h \in [I -> T] /\ \A i, j \in I : h[i] = h[j] => i = j
      /\ \A p \in T : \E i \in I : h[i] = p
  <2>1. \A p \in T : p - L \in I /\ L + (p - L) = p
    BY <1>1
  <2>2. \A n \in I : L + n \in T
    BY <1>1
  <2>3. h \in [I -> T]
    BY <2>2
  <2>4. \A i, j \in I : h[i] = h[j] => i = j
    BY <1>1
  <2>5. \A p \in T : p - L \in I /\ h[p - L] = p
    BY <2>1
  <2>6. QED
    BY <2>3, <2>4, <2>5
<1>7. \A n \in I : g[n] = total'[h[n]] /\ g[n] = costs[filled[n]] /\ g[n] \in Int
  BY <1>1, <1>2, <1>5
<1>8. \A p \in T : total'[p] \in Int
  BY <1>6, <1>7
<1>9. IsFiniteSet(I)
  <2> HIDE DEF F
  <2>1. QED
    BY <1>1, FS_Interval
<1>10. Active(t)' = T
  BY SplitActive
<1> HIDE DEF filled, L, F, I, T, C, costs, h, g
<1>11. SumFunctionOnSet(total', T) = SumFunctionOnSet(g, I)
  BY <1>6, <1>7, <1>8, <1>9, SumRename
<1>12. SumFunctionOnSet(costs, C) = SumFunctionOnSet(g, I)
  <2>1. \A c \in C : costs[c] \in Int
    BY <1>1, <1>2
  <2>2. QED
    BY <1>1, <1>7, <1>9, <2>1, SumRename
<1>13. SumFunctionOnSet(costs, Checks) = SumFunctionOnSet(costs, C)
  BY <1>1, <1>2, <1>3, ChecksFinite, SumPart
<1>14. SumFunctionOnSet(costs, Checks) = Owed(t)
  BY ChecksBillItems, ItemsCostTotals DEF costs
<1>15. Owed(t)' = SumFunctionOnSet(total', T)
  BY <1>10 DEF Owed
<1>16. QED
  BY <1>11, <1>12, <1>13, <1>14, <1>15

\* A split that shares out everything keeps what the guests of a table owe in all, for
\* any lines, prices, checks and shares, whatever the menu says by then (split_table_orders).
THEOREM SplitsKeepDebts == ~PartialSplits => (Spec => SplitKeepsOwed)
<1> SUFFICES ASSUME ~PartialSplits PROVE Spec => SplitKeepsOwed
  OBVIOUS
<1> DEFINE Keeps(t) ==
      Len(orders') > Len(orders) /\ Active(t)' \cap Active(t) = {} /\ Active(t) # {}
         => Owed(t)' = Owed(t)
<1>1. ASSUME RowsOK, TotalsFollow, [Next]_vars PROVE [\A t \in Tables : Keeps(t)]_vars
  <2> SUFFICES ASSUME NEW t \in Tables, ~UNCHANGED vars PROVE Keeps(t)
    OBVIOUS
  <2>1. ASSUME NEW o, NEW new, orders' = [orders EXCEPT ![o] = new] PROVE Keeps(t)
    BY <1>1, <2>1 DEF RowsOK
  <2>2. ASSUME UNCHANGED orders PROVE Keeps(t)
    BY <1>1, <2>2 DEF RowsOK
  <2>3. ASSUME NEW u \in Users, NEW r \in Tables, NEW k \in Keys \cup {None}, NEW cart \in Carts,
               CreateOrder(u, r, k, cart)
        PROVE  Keeps(t)
    <3>1. Active(t) \subseteq Active(t)'
      BY <1>1, <2>3, CreateRowStep DEF Active, IsActive
    <3>2. QED
      BY <3>1
  <2>4. ASSUME NEW u \in Users, NEW r \in Tables, NEW share \in SplitRequests(r),
               NEW first \in Newest(Active(r)), SplitTable(u, r, share, first)
        PROVE  Keeps(t)
    <3>1. CASE r = t
      BY <1>1, <2>4, <3>1, SplitOwes
    <3>2. CASE r # t
      <4>1. Active(t) \subseteq Active(t)'
        BY <1>1, <2>4, <3>2, SplitActive
      <4>2. QED
        BY <4>1
    <3>3. QED
      BY <3>1, <3>2
  <2> HIDE DEF Keeps
  <2>5. QED
    BY <1>1, <2>1, <2>2, <2>3, <2>4
       DEF Next, UpdateOrder, UpdateOrderStatus, UpdateItemStatus, UpdateTable, UpdateMenuItem
<1>2. QED
  BY <1>1, RowsAreTyped, TotalsAlwaysFollow, PTL DEF Spec, SplitKeepsOwed
=============================================================================
