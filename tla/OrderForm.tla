------------------------------ MODULE OrderForm ------------------------------
(***************************************************************************)
(* The two forms in which a waiter puts an order together, for one table:  *)
(* the cart of a new order (frontend/src/screens/OrderCreate.tsx) and the  *)
(* additions of the table's session (screens/TableSession.tsx), with the   *)
(* routes that lead from one to the other (App.tsx), the request that      *)
(* sends an order to the kitchen, and the answer that may be late or lost. *)
(***************************************************************************)
EXTENDS Integers, SequencesExt

CONSTANTS
    Dishes,      \* the menu
    Notes,       \* comments on a line
    NoNote,      \* the empty one
    None,        \* no answer yet
    MaxUnits,    \* bound: units on a form
    MaxOrders,   \* bound: orders sent
    MaxTrouble   \* bound: requests that fail

ASSUME FormAssumption ==
    /\ NoNote \in Notes
    /\ {MaxUnits, MaxOrders, MaxTrouble} \subseteq Nat
    /\ None \notin {"ok", "failed"}

VARIABLES
    route,      \* the screen shown
    cart,       \* the lines of the form shown: cart, or additions
    sending,    \* disables the form's send button (saving, in the session)
    confirm,    \* the dialog that asks before the cart is dropped
    sends,      \* requests under way
    kitchen,    \* the units of the table's orders on the server, by dish
    hasOrders,  \* does the browser list active orders of the table?
    wanted,     \* ghost: units entered and not taken back, by dish
    slipped,    \* ghost: dishes of which the waiter may have lost track
    torn,       \* ghost: dishes of orders saved although the waiter was told they failed
    trouble,    \* what is left of MaxTrouble
    posted      \* how many orders have been sent

vars == <<route, cart, sending, confirm, sends, kitchen, hasOrders, wanted, slipped,
          torn, trouble, posted>>
world == <<kitchen, hasOrders, torn, trouble, posted>>

Forms == {"create", "session"}
Routes == Forms \cup {"tables", "orders", "payment"}
Line == [dish : Dishes, note : Notes, qty : Nat \ {0}]
Units == [Dishes -> Nat]
Send == [form : Forms, units : Units, own : BOOLEAN, answer : {None, "ok", "failed"}]

\* The form's lines, its sends, what is asked for and who answers have these types; a
\* line has at least one unit.
TypeOK ==
    /\ route \in Routes
    /\ cart \in Seq(Line) /\ sends \in Seq(Send)
    /\ sending \in BOOLEAN /\ confirm \in BOOLEAN /\ hasOrders \in BOOLEAN
    /\ kitchen \in Units
    /\ wanted \in [Dishes -> Int] /\ {slipped, torn} \subseteq SUBSET Dishes
    /\ trouble \in 0 .. MaxTrouble /\ posted \in 0 .. MaxOrders

UnitsIn(lines, d) ==
    SumFunction([n \in DOMAIN lines |-> IF lines[n].dish = d THEN lines[n].qty ELSE 0])
Size(lines) == SumFunction([n \in DOMAIN lines |-> lines[n].qty])
UnitsOf(lines) == [d \in Dishes |-> UnitsIn(lines, d)]
DishesIn(units) == {d \in Dishes : units[d] > 0}

Init ==
    /\ route = "tables" /\ cart = <<>> /\ sending = FALSE /\ confirm = FALSE
    /\ sends = <<>>
    /\ kitchen = [d \in Dishes |-> 0] /\ hasOrders = FALSE
    /\ wanted = [d \in Dishes |-> 0] /\ slipped = {} /\ torn = {}
    /\ trouble = MaxTrouble /\ posted = 0

-----------------------------------------------------------------------------
(* Editing the form.                                                       *)

InForm == route \in Forms /\ ~confirm

\* A dish joins the line that has it without a note, or becomes a new line.
Added(lines, d) ==
    LET plain == {n \in DOMAIN lines : lines[n].dish = d /\ lines[n].note = NoNote}
        first == CHOOSE n \in plain : \A m \in plain : n <= m
    IN  IF plain = {} THEN Append(lines, [dish |-> d, note |-> NoNote, qty |-> 1])
        ELSE [lines EXCEPT ![first].qty = @ + 1]

\* The cart keeps a line at one unit, the session drops it at none.
OneMore(lines, n) == [lines EXCEPT ![n].qty = @ + 1]
OneLess(lines, n) == [lines EXCEPT ![n].qty = @ - 1]
updateQty(lines, n) == IF lines[n].qty = 1 THEN lines ELSE OneLess(lines, n)
setAdditionQty(lines, n) == IF lines[n].qty = 1 THEN RemoveAt(lines, n) ELSE OneLess(lines, n)

\* Nothing on the form is disabled while it is being sent.
Edited(lines, d) ==
    /\ cart' = lines
    /\ wanted' = [wanted EXCEPT ![d] = @ + UnitsIn(lines, d) - UnitsIn(cart, d)]
    /\ slipped' = IF sending THEN slipped \cup {d} ELSE slipped
    /\ UNCHANGED <<route, sending, confirm, sends, world>>

addItem(d) ==
    /\ InForm /\ Size(cart) < MaxUnits
    /\ Edited(Added(cart, d), d)

Increase(n) ==
    /\ InForm /\ Size(cart) < MaxUnits
    /\ Edited(OneMore(cart, n), cart[n].dish)

Decrease(n) ==
    /\ InForm
    /\ Edited(IF route = "create" THEN updateQty(cart, n) ELSE setAdditionQty(cart, n),
              cart[n].dish)

removeItem(n) ==
    /\ InForm /\ route = "create"
    /\ Edited(RemoveAt(cart, n), cart[n].dish)

setItemNote(n, note) ==
    /\ InForm
    /\ Edited([cart EXCEPT ![n].note = note], cart[n].dish)

-----------------------------------------------------------------------------
(* Moving between screens.  A screen that is left forgets its state.       *)

\* What the form held is given up; if it was just being sent, nobody sees the answer.
GivenUp ==
    /\ wanted' = [d \in Dishes |-> wanted[d] - UnitsIn(cart, d)]
    /\ slipped' = IF sending THEN slipped \cup DishesIn(UnitsOf(cart))
                        \cup UNION {DishesIn(sends[n].units) : n \in DOMAIN sends} ELSE slipped
    /\ sends' = [n \in DOMAIN sends |-> [sends[n] EXCEPT !.own = FALSE]]

Shows(r) == route' = r /\ cart' = <<>> /\ sending' = FALSE /\ confirm' = FALSE

Leave(r) == Shows(r) /\ GivenUp /\ UNCHANGED world

\* A table without orders opens the form for a new one, else its session; the order
\* list leads to the session too.
TableCard == route = "tables" /\ Leave(IF hasOrders THEN "session" ELSE "create")
OrderCard == route = "orders" /\ hasOrders /\ Leave("session")

\* The side bar is hidden by the new order's form and by the payment.
Nav(r) == route \in {"tables", "orders", "session"} /\ r \in {"tables", "orders"} /\ Leave(r)

ToPayment == route = "session" /\ hasOrders /\ Leave("payment")
FromPayment == route = "payment" /\ \E r \in {"session", "tables"} : Leave(r)

\* Back from a new order asks first if anything is in the cart.
BackFromCreate ==
    /\ route = "create" /\ ~confirm
    /\ IF cart = <<>> THEN Leave("tables")
       ELSE confirm' = TRUE /\ UNCHANGED <<route, cart, sending, sends, wanted, slipped, world>>
ConfirmCancel == route = "create" /\ confirm /\ Leave("tables")
KeepOrder ==
    /\ route = "create" /\ confirm
    /\ confirm' = FALSE
    /\ UNCHANGED <<route, cart, sending, sends, wanted, slipped, world>>

-----------------------------------------------------------------------------
(* Sending.                                                                *)

\* The button of a form with lines works while the form is not being sent.
Filled == cart # <<>>
Sendable == cart # <<>> /\ ~sending

\* Each send is a request of its own: createOrder gives it a new request id.
send ==
    /\ InForm /\ Sendable
    /\ posted < MaxOrders /\ posted' = posted + 1
    /\ sends' = Append(sends, [form |-> route, units |-> UnitsOf(cart), own |-> TRUE,
                               answer |-> None])
    /\ sending' = TRUE
    /\ UNCHANGED <<route, cart, confirm, kitchen, hasOrders, wanted, slipped, torn, trouble>>

Answered(n, answer) == sends' = [sends EXCEPT ![n].answer = answer]

\* The server saves the order.
Cooked(n) == [d \in Dishes |-> kitchen[d] + sends[n].units[d]]
Save(n) ==
    /\ sends[n].answer = None
    /\ kitchen' = Cooked(n)
    /\ Answered(n, "ok")
    /\ UNCHANGED <<route, cart, sending, confirm, hasOrders, wanted, slipped, torn, trouble,
                   posted>>

\* It refuses it, or the network fails: before the order is saved, or after, and then
\* the waiter is told of a failure although the kitchen cooks.
Fails(n) ==
    /\ sends[n].answer = None
    /\ trouble > 0 /\ trouble' = trouble - 1
    /\ Answered(n, "failed")
    /\ \/ UNCHANGED <<kitchen, torn>>
       \/ kitchen' = Cooked(n) /\ torn' = torn \cup DishesIn(sends[n].units)
    /\ UNCHANGED <<route, cart, sending, confirm, hasOrders, wanted, slipped, posted>>

\* The answer of a failed request leaves the form as it is and its button enabled.
FormEmptied(n) ==
    /\ sends[n].answer = "failed"
    /\ sends' = RemoveAt(sends, n)
    /\ sending' = (sending /\ ~sends[n].own)
    /\ cart' = IF sends[n].own THEN <<>> ELSE cart
    /\ UNCHANGED <<route, confirm, wanted, slipped, world>>
Failure(n) ==
    /\ sends[n].answer = "failed"
    /\ sends' = RemoveAt(sends, n)
    /\ sending' = (sending /\ ~sends[n].own)
    /\ UNCHANGED <<route, cart, confirm, wanted, slipped, world>>

\* The answer of a saved order lists it.  The session drops its additions, those made
\* since the click too.  The new order's form goes on to the order list, from whichever
\* screen is shown by then: what that one holds is gone without having been taken back.
Success(n) ==
    /\ sends[n].answer = "ok"
    /\ hasOrders' = TRUE
    /\ IF sends[n].form = "create"
       THEN /\ Shows("orders")
            /\ sends' = [m \in DOMAIN RemoveAt(sends, n) |->
                           [RemoveAt(sends, n)[m] EXCEPT !.own = FALSE]]
            /\ slipped' = IF sends[n].own THEN slipped ELSE slipped \cup DishesIn(UnitsOf(cart))
       ELSE /\ sends' = RemoveAt(sends, n)
            /\ sending' = (sending /\ ~sends[n].own)
            /\ cart' = IF sends[n].own THEN <<>> ELSE cart
            /\ UNCHANGED <<route, confirm, slipped>>
    /\ UNCHANGED <<kitchen, wanted, torn, trouble, posted>>

\* The event of a saved order lists it as well.
OrderListed ==
    /\ DishesIn(kitchen) # {} /\ ~hasOrders
    /\ hasOrders' = TRUE
    /\ UNCHANGED <<route, cart, sending, confirm, sends, kitchen, wanted, slipped, torn, trouble,
                   posted>>

-----------------------------------------------------------------------------

Edit ==
    \/ \E d \in Dishes : addItem(d)
    \/ \E n \in DOMAIN cart :
         Increase(n) \/ Decrease(n) \/ removeItem(n) \/ \E note \in Notes : setItemNote(n, note)

Move ==
    \/ TableCard \/ OrderCard \/ \E r \in Routes : Nav(r)
    \/ ToPayment \/ FromPayment
    \/ BackFromCreate \/ ConfirmCancel \/ KeepOrder

Next ==
    \/ Edit \/ Move \/ send
    \/ \E n \in DOMAIN sends : Save(n) \/ Fails(n) \/ Failure(n) \/ Success(n)
    \/ OrderListed

Spec == Init /\ [][Next]_vars

-----------------------------------------------------------------------------
(* What should hold.                                                       *)

\* With no request under way, every unit the waiter entered and did not take back is on
\* the form or in the kitchen, and nowhere twice, through any number of failed sends
\* and retries.  What can go astray: in slipped a dish touched while its form was being
\* sent, a form closed meanwhile, a form the late answer of another one closed; in torn
\* an order whose answer was lost (OrderCreate.tsx:84-103, TableSession.tsx:225-265).
NothingLost ==
    sends = <<>> =>
        \A d \in Dishes \ (slipped \cup torn) : wanted[d] = UnitsIn(cart, d) + kitchen[d]

\* A waiter's button is disabled exactly while an order of the form shown is under way
\* (OrderCreate.tsx:86-102, TableSession.tsx:246-264): no form is sent twice at once,
\* and none stays disabled.
OneSendPerForm ==
    LET own == {n \in DOMAIN sends : sends[n].own}
    IN  (sending <=> own # {}) /\ \A m, n \in own : m = n

\* README.md:276 asks for a stable client_request_id, so that an order that is sent
\* again is not cooked again: what is cooked has been asked for, apart from slips.
SentOnce ==
    [][\A d \in Dishes \ slipped : kitchen'[d] > kitchen[d] => kitchen'[d] <= wanted[d]]_vars
=============================================================================
