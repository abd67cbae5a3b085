--------------------------- MODULE OrderFormProofs ---------------------------
(***************************************************************************)
(* A waiter's form is never sent twice at once and never stays disabled,   *)
(* and what was entered is on it or in the kitchen, once: for any menu,    *)
(* any number of orders, failures and sends under way.                     *)
(*                                                                         *)
(* The first part needs to know only that a send carries some units, the   *)
(* second one how the units of a form follow its lines.                    *)
(***************************************************************************)
EXTENDS OrderForm, SeqLemmas, SumLemmas

Sent(U) == [form : Forms, units : U, own : BOOLEAN, answer : {None, "ok", "failed"}]

\* The inductive invariant: the property, and that sends are sends.
IInv ==
    /\ sending \in BOOLEAN
    /\ \E U : sends \in Seq(Sent(U))
    /\ OneSendPerForm

\* What becomes of a send is a send; only giving it up changes whose it is.
LEMMA SendsStay ==
    ASSUME NEW U, NEW x \in Sent(U)
    PROVE  /\ x.own \in BOOLEAN
           /\ [x EXCEPT !.own = FALSE] \in Sent(U) /\ [x EXCEPT !.own = FALSE].own = FALSE
           /\ \A a \in {"ok", "failed"} : /\ [x EXCEPT !.answer = a] \in Sent(U)
                                          /\ [x EXCEPT !.answer = a].own = x.own
  BY DEF Sent

\* A sequence of sends that are all given up.
LEMMA AllGivenUp ==
    ASSUME NEW U, NEW s \in Seq(Sent(U))
    PROVE  LET t == [n \in DOMAIN s |-> [s[n] EXCEPT !.own = FALSE]]
           IN  t \in Seq(Sent(U)) /\ \A n \in DOMAIN t : ~t[n].own
<1> DEFINE t == [n \in DOMAIN s |-> [s[n] EXCEPT !.own = FALSE]]
<1>1. Len(s) \in Nat /\ DOMAIN s = 1 .. Len(s) /\ \A n \in DOMAIN s : s[n] \in Sent(U)
  OBVIOUS
<1>2. \A n \in DOMAIN s : t[n] \in Sent(U) /\ t[n].own = FALSE
  BY <1>1, SendsStay
<1>3. DOMAIN t = 1 .. Len(s) /\ t = [n \in 1 .. Len(s) |-> t[n]]
  BY <1>1
<1> HIDE DEF t
<1>4. t \in [1 .. Len(s) -> Sent(U)] /\ Len(t) = Len(s)
  BY <1>1, <1>2, <1>3
<1>5. t \in Seq(Sent(U))
  BY <1>1, <1>4, SeqsAreFunctions
<1>6. QED
  BY <1>1, <1>2, <1>3, <1>5 DEF t

\* OneSendPerForm says the same of two sequences of equally many sends with the same owners.
LEMMA SameOwners ==
    ASSUME IInv, sending' = sending, NEW U, sends' \in Seq(Sent(U)), Len(sends') = Len(sends),
           \A n \in DOMAIN sends : sends'[n].own = sends[n].own
    PROVE  IInv'
<1>1. DOMAIN sends' = DOMAIN sends
  BY DEF IInv
<1>2. OneSendPerForm'
  BY <1>1 DEF IInv, OneSendPerForm
<1>3. QED
  BY <1>2 DEF IInv

\* Editing, moving within a form and the events of orders leave the sends alone.
LEMMA UnchangedKeeps == ASSUME IInv, UNCHANGED <<sending, sends>> PROVE IInv'
  BY DEF IInv, OneSendPerForm

\* A screen that is left owns no send, and the next one starts enabled.
LEMMA LeaveKeeps == ASSUME IInv, NEW r, Leave(r) PROVE IInv'
<1>1. /\ sending' = FALSE
      /\ sends' = [n \in DOMAIN sends |-> [sends[n] EXCEPT !.own = FALSE]]
  BY DEF Leave, Shows, GivenUp
<1>2. PICK U : sends \in Seq(Sent(U))
  BY DEF IInv
<1>3. sends' \in Seq(Sent(U)) /\ \A n \in DOMAIN sends' : ~sends'[n].own
  BY <1>1, <1>2, AllGivenUp
<1>4. OneSendPerForm'
  BY <1>1, <1>3 DEF OneSendPerForm
<1>5. QED
  BY <1>1, <1>3, <1>4 DEF IInv

\* The button works only while the form owns no send: the new one is its only one.
LEMMA SendKeeps == ASSUME IInv, send PROVE IInv'
<1> DEFINE r == [form |-> route, units |-> UnitsOf(cart), own |-> TRUE, answer |-> None]
<1>1. /\ route \in Forms /\ sending = FALSE /\ sending' = TRUE
      /\ sends' = Append(sends, r)
  BY DEF send, InForm, Sendable, IInv
<1>2. PICK U : sends \in Seq(Sent(U))
  BY DEF IInv
<1> DEFINE V == U \cup {UnitsOf(cart)}
<1>3. r \in Sent(V)
  BY <1>1 DEF Sent
<1>4. sends \in Seq(Sent(V))
  <2>1. Sent(U) \subseteq Sent(V)
    BY DEF Sent
  <2> HIDE DEF V
  <2>2. QED
    BY <1>2, <2>1
<1>5. r.own = TRUE
  OBVIOUS
<1> HIDE DEF r, V
<1>6. /\ sends' \in Seq(Sent(V)) /\ Len(sends') = Len(sends) + 1
      /\ sends'[Len(sends) + 1] = r
      /\ \A n \in DOMAIN sends : sends'[n] = sends[n]
  BY <1>1, <1>3, <1>4
<1>7. \A n \in DOMAIN sends : ~sends[n].own
  BY <1>1 DEF IInv, OneSendPerForm
<1>8. \A n \in DOMAIN sends' : sends'[n].own <=> n = Len(sends) + 1
  BY <1>4, <1>5, <1>6, <1>7
<1>9. Len(sends) + 1 \in DOMAIN sends'
  BY <1>4, <1>6
<1>10. OneSendPerForm'
  BY <1>1, <1>8, <1>9 DEF OneSendPerForm
<1>11. QED
  BY <1>1, <1>6, <1>10 DEF IInv

\* What the server or the network answers does not change whose send it is.
LEMMA AnsweredKeeps ==
    ASSUME IInv, NEW n \in DOMAIN sends, NEW answer \in {"ok", "failed"},
           Answered(n, answer), UNCHANGED sending
    PROVE  IInv'
<1>1. PICK U : sends \in Seq(Sent(U))
  BY DEF IInv
<1> DEFINE r == [sends[n] EXCEPT !.answer = answer]
<1>2. r \in Sent(U) /\ r.own = sends[n].own
  <2>1. sends[n] \in Sent(U)
    BY <1>1
  <2>2. \A a \in {"ok", "failed"} : /\ [sends[n] EXCEPT !.answer = a] \in Sent(U)
                                    /\ [sends[n] EXCEPT !.answer = a].own = sends[n].own
    BY <2>1, SendsStay
  <2>3. QED
    BY <2>2
<1>3. sends' = [sends EXCEPT ![n] = r]
  BY DEF Answered
<1> HIDE DEF r
<1>4. /\ sends' \in Seq(Sent(U)) /\ Len(sends') = Len(sends)
      /\ \A m \in DOMAIN sends : sends'[m].own = sends[m].own
  BY <1>1, <1>2, <1>3
<1>5. QED
  BY <1>4, SameOwners

\* An answer that reaches the form that sent the order enables it, any other one leaves
\* it as it is.
LEMMA RemovedKeeps ==
    ASSUME IInv, NEW n \in DOMAIN sends,
           sends' = RemoveAt(sends, n), sending' = (sending /\ ~sends[n].own)
    PROVE  IInv'
<1>1. PICK U : sends \in Seq(Sent(U))
  BY DEF IInv
<1>2. /\ sends' \in Seq(Sent(U)) /\ Len(sends') = Len(sends) - 1
      /\ \A k \in 1 .. Len(sends) - 1 : sends'[k] = sends[IF k < n THEN k ELSE k + 1]
  BY <1>1, RemovedAt
<1>3. /\ n \in 1 .. Len(sends) /\ Len(sends) \in Nat
      /\ \A k \in 1 .. Len(sends) : sends[k].own \in BOOLEAN
  <2>1. /\ n \in 1 .. Len(sends) /\ Len(sends) \in Nat
        /\ \A k \in 1 .. Len(sends) : sends[k] \in Sent(U)
    BY <1>1
  <2>2. QED
    BY <2>1, SendsStay
<1>4. DOMAIN sends' = 1 .. Len(sends) - 1 /\ DOMAIN sends = 1 .. Len(sends)
  BY <1>1, <1>2
<1>5. CASE sends[n].own
  <2>1. \A k \in 1 .. Len(sends) : sends[k].own => k = n
    BY <1>4, <1>5 DEF IInv, OneSendPerForm
  <2>2. \A k \in 1 .. Len(sends) - 1 : ~sends'[k].own
    BY <1>2, <1>3, <2>1
  <2>3. OneSendPerForm'
    BY <1>4, <1>5, <2>2 DEF OneSendPerForm
  <2>4. QED
    BY <1>2, <1>5, <2>3 DEF IInv
<1>6. CASE ~sends[n].own
  <2>1. sending' = sending
    BY <1>3, <1>6 DEF IInv
  <2>2. \A j, k \in 1 .. Len(sends) - 1 : sends'[j].own /\ sends'[k].own => j = k
    <3>1. \A j, k \in 1 .. Len(sends) : sends[j].own /\ sends[k].own => j = k
      BY <1>4 DEF IInv, OneSendPerForm
    <3>2. \A k \in 1 .. Len(sends) - 1 : (IF k < n THEN k ELSE k + 1) \in 1 .. Len(sends)
      BY <1>3
    <3>3. \A j, k \in 1 .. Len(sends) - 1 :
            (IF j < n THEN j ELSE j + 1) = (IF k < n THEN k ELSE k + 1) => j = k
      BY <1>3
    <3>4. QED
      BY <1>2, <3>1, <3>2, <3>3
  <2>3. ASSUME sending PROVE \E k \in 1 .. Len(sends) - 1 : sends'[k].own
    <3>1. PICK m \in 1 .. Len(sends) : sends[m].own
      BY <1>4, <2>3 DEF IInv, OneSendPerForm
    <3>2. CASE m < n
      BY <1>2, <1>3, <3>1, <3>2
    <3>3. CASE m > n
      <4>1. m - 1 \in 1 .. Len(sends) - 1 /\ ~(m - 1 < n) /\ m - 1 + 1 = m
        BY <1>3, <3>3
      <4>2. sends'[m - 1] = sends[m]
        BY <1>2, <4>1
      <4>3. QED
        BY <3>1, <4>1, <4>2
    <3>4. QED
      BY <1>3, <1>6, <3>1, <3>2, <3>3
  <2>4. ASSUME NEW k \in 1 .. Len(sends) - 1, sends'[k].own PROVE sending
    <3>1. PICK m \in 1 .. Len(sends) : sends[m].own
      BY <1>2, <1>3, <2>4
    <3>2. QED
      BY <1>4, <3>1 DEF IInv, OneSendPerForm
  <2>5. OneSendPerForm'
    BY <1>4, <2>1, <2>2, <2>3, <2>4 DEF OneSendPerForm
  <2>6. QED
    BY <1>2, <2>1, <2>5 DEF IInv
<1>7. QED
  BY <1>5, <1>6

\* The late answer of a new order opens another screen, which owns no send.
LEMMA CreatedKeeps ==
    ASSUME IInv, NEW n \in DOMAIN sends, sending' = FALSE,
           sends' = [m \in DOMAIN RemoveAt(sends, n) |->
                       [RemoveAt(sends, n)[m] EXCEPT !.own = FALSE]]
    PROVE  IInv'
<1>1. PICK U : sends \in Seq(Sent(U))
  BY DEF IInv
<1> DEFINE s == RemoveAt(sends, n)
<1>2. s \in Seq(Sent(U))
  BY <1>1, RemovedAt
<1>3. sends' = [m \in DOMAIN s |-> [s[m] EXCEPT !.own = FALSE]]
  OBVIOUS
<1> HIDE DEF s
<1>5. sends' \in Seq(Sent(U)) /\ \A m \in DOMAIN sends' : ~sends'[m].own
  BY <1>2, <1>3, AllGivenUp
<1>6. OneSendPerForm'
  BY <1>5 DEF OneSendPerForm
<1>7. QED
  BY <1>5, <1>6 DEF IInv

\* Every step keeps the invariant.
LEMMA StepKeeps == ASSUME IInv, [Next]_vars PROVE IInv'
<1>1. CASE Edit
  BY <1>1, UnchangedKeeps
     DEF Edit, addItem, Increase, Decrease, removeItem, setItemNote, Edited
<1>2. CASE Move
  <2>1. ASSUME BackFromCreate PROVE (\E r : Leave(r)) \/ UNCHANGED <<sending, sends>>
    BY <2>1 DEF BackFromCreate
  <2>2. ASSUME KeepOrder PROVE UNCHANGED <<sending, sends>>
    BY <2>2 DEF KeepOrder
  <2>3. ASSUME TableCard \/ OrderCard \/ (\E r \in Routes : Nav(r)) \/ ToPayment \/ FromPayment
               \/ ConfirmCancel
        PROVE  \E r : Leave(r)
    BY <2>3 DEF TableCard, OrderCard, Nav, ToPayment, FromPayment, ConfirmCancel
  <2>4. QED
    BY <1>2, <2>1, <2>2, <2>3, LeaveKeeps, UnchangedKeeps DEF Move
<1>3. CASE send
  BY <1>3, SendKeeps
<1>4. ASSUME NEW n \in DOMAIN sends, Save(n) PROVE IInv'
  BY <1>4, AnsweredKeeps DEF Save
<1>5. ASSUME NEW n \in DOMAIN sends, Fails(n) PROVE IInv'
  BY <1>5, AnsweredKeeps DEF Fails
<1>6. ASSUME NEW n \in DOMAIN sends, Failure(n) PROVE IInv'
  BY <1>6, RemovedKeeps DEF Failure
<1>7. ASSUME NEW n \in DOMAIN sends, Success(n) PROVE IInv'
  <2>1. CASE sends[n].form = "create"
    BY <1>7, <2>1, CreatedKeeps DEF Success, Shows
  <2>2. CASE sends[n].form # "create"
    BY <1>7, <2>2, RemovedKeeps DEF Success
  <2>3. QED
    BY <2>1, <2>2
<1>8. CASE OrderListed
  BY <1>8, UnchangedKeeps DEF OrderListed
<1>9. CASE UNCHANGED vars
  BY <1>9, UnchangedKeeps DEF vars
<1>10. QED
  BY <1>1, <1>2, <1>3, <1>4, <1>5, <1>6, <1>7, <1>8, <1>9 DEF Next

\* A form's button is disabled exactly while one order of it is under way, however
\* often forms are left, opened, sent and answered late (OrderCreate.tsx:86-102,
\* TableSession.tsx:246-264).
THEOREM FormsSendOnce == Spec => []OneSendPerForm
<1>1. Init => IInv
  <2> SUFFICES ASSUME Init PROVE IInv
    OBVIOUS
  <2>1. sends = <<>> /\ sending = FALSE /\ DOMAIN sends = {}
    BY DEF Init
  <2>2. sends \in Seq(Sent({}))
    BY <2>1
  <2>3. OneSendPerForm
    BY <2>1 DEF OneSendPerForm
  <2>4. QED
    BY <2>1, <2>2, <2>3 DEF IInv
<1>2. IInv /\ [Next]_vars => IInv'
  BY StepKeeps
<1>3. IInv => OneSendPerForm
  BY DEF IInv
<1>4. QED
  BY <1>1, <1>2, <1>3, PTL DEF Spec

-----------------------------------------------------------------------------
(* The units on a form.                                                    *)

Share(line, d) == IF line.dish = d THEN line.qty ELSE 0

LEMMA ShareNat == \A line \in Line : \A d : Share(line, d) \in Nat
  BY DEF Line, Share

LEMMA UnitsNat ==
    ASSUME NEW lines \in Seq(Line), NEW d
    PROVE  UnitsIn(lines, d) \in Nat
<1> DEFINE f == [n \in DOMAIN lines |-> Share(lines[n], d)]
           I == DOMAIN lines
<1>1. IsFiniteSet(I)
  <2>1. Len(lines) \in Int /\ I = 1 .. Len(lines)
    OBVIOUS
  <2>2. QED
    BY <2>1, Positions
<1>2. \A n \in I : f[n] \in Nat
  <2>1. \A n \in I : lines[n] \in Line
    OBVIOUS
  <2>2. \A n \in I : Share(lines[n], d) \in Nat
    BY <2>1, ShareNat
  <2>3. QED
    BY <2>2
<1>3. UnitsIn(lines, d) = SumFunctionOnSet(f, I)
  BY DEF UnitsIn, SumFunction, Share
<1> HIDE DEF f, I
<1>4. QED
  BY <1>1, <1>2, <1>3, SumNat

LEMMA UnitsOfNone == \A d : UnitsIn(<<>>, d) = 0
<1> SUFFICES ASSUME NEW d PROVE UnitsIn(<<>>, d) = 0
  OBVIOUS
<1> DEFINE f == [n \in DOMAIN <<>> |-> IF <<>>[n].dish = d THEN <<>>[n].qty ELSE 0]
<1>1. UnitsIn(<<>>, d) = SumFunctionOnSet(f, DOMAIN f)
  BY DEF UnitsIn, SumFunction
<1>2. DOMAIN f = {}
  OBVIOUS
<1> HIDE DEF f
<1>3. QED
  BY <1>1, <1>2, SumEmpty

LEMMA UnitsAppended ==
    ASSUME NEW lines \in Seq(Line), NEW line \in Line, NEW d
    PROVE  UnitsIn(Append(lines, line), d) = UnitsIn(lines, d) + Share(line, d)
<1> DEFINE N == Len(lines)
           new == Append(lines, line)
           f == [n \in DOMAIN lines |-> Share(lines[n], d)]
           g == [n \in DOMAIN new |-> Share(new[n], d)]
<1>1. N \in Nat /\ DOMAIN lines = 1 .. N /\ DOMAIN new = 1 .. N + 1
  OBVIOUS
<1>2. UnitsIn(lines, d) = SumFunctionOnSet(f, 1 .. N)
  <2>1. UnitsIn(lines, d) = SumFunctionOnSet(f, DOMAIN lines)
    BY DEF UnitsIn, SumFunction, Share
  <2>2. QED
    BY <2>1, <1>1
<1>3. UnitsIn(new, d) = SumFunctionOnSet(g, 1 .. N + 1)
  <2>1. UnitsIn(new, d) = SumFunctionOnSet(g, DOMAIN new)
    BY DEF UnitsIn, SumFunction, Share
  <2>2. QED
    BY <2>1, <1>1
<1>4. /\ \A k \in 1 .. N : f[k] \in Int /\ g[k] = f[k]
      /\ g[N + 1] = Share(line, d) /\ g[N + 1] \in Int
  <2>1. /\ \A k \in 1 .. N : lines[k] \in Line /\ new[k] = lines[k] /\ k \in 1 .. N + 1
        /\ new[N + 1] = line /\ N + 1 \in 1 .. N + 1
    OBVIOUS
  <2>2. /\ \A k \in 1 .. N : Share(lines[k], d) \in Nat
        /\ Share(line, d) \in Nat
    BY <2>1, ShareNat
  <2>3. QED
    BY <1>1, <2>1, <2>2
<1> HIDE DEF f, g, N, new
<1>5. SumFunctionOnSet(g, 1 .. N + 1) = SumFunctionOnSet(f, 1 .. N) + g[N + 1]
  BY <1>1, <1>4, SumAppended
<1>6. QED
  BY <1>2, <1>3, <1>4, <1>5 DEF new

LEMMA UnitsChanged ==
    ASSUME NEW lines \in Seq(Line), NEW n \in DOMAIN lines, NEW line \in Line, NEW d
    PROVE  UnitsIn([lines EXCEPT ![n] = line], d)
             = UnitsIn(lines, d) - Share(lines[n], d) + Share(line, d)
<1> DEFINE I == DOMAIN lines
           new == [lines EXCEPT ![n] = line]
           f == [k \in I |-> Share(lines[k], d)]
           g == [k \in I |-> Share(new[k], d)]
<1>1. IsFiniteSet(I)
  <2>1. Len(lines) \in Int /\ I = 1 .. Len(lines)
    OBVIOUS
  <2>2. QED
    BY <2>1, Positions
<1>2. UnitsIn(lines, d) = SumFunctionOnSet(f, I)
  BY DEF UnitsIn, SumFunction, Share
<1>3. UnitsIn(new, d) = SumFunctionOnSet(g, I)
  BY DEF UnitsIn, SumFunction, Share
<1>4. /\ \A k \in I : f[k] \in Int /\ g[k] \in Int
      /\ \A k \in I \ {n} : g[k] = f[k]
      /\ f[n] = Share(lines[n], d) /\ g[n] = Share(line, d) /\ n \in I
  <2>1. \A k \in I : lines[k] \in Line /\ new[k] = IF k = n THEN line ELSE lines[k]
    OBVIOUS
  <2>2. /\ \A k \in I : Share(lines[k], d) \in Nat
        /\ Share(line, d) \in Nat
    BY <2>1, ShareNat
  <2>3. QED
    BY <2>1, <2>2
<1> HIDE DEF f, g, I, new
<1>5. SumFunctionOnSet(g, I) = SumFunctionOnSet(f, I) - f[n] + g[n]
  BY <1>1, <1>4, SumUpdate
<1>6. QED
  BY <1>2, <1>3, <1>4, <1>5 DEF new

LEMMA UnitsRemoved ==
    ASSUME NEW lines \in Seq(Line), NEW n \in DOMAIN lines, NEW d
    PROVE  UnitsIn(RemoveAt(lines, n), d) = UnitsIn(lines, d) - Share(lines[n], d)
<1> DEFINE N == Len(lines)
           new == RemoveAt(lines, n)
           f == [k \in DOMAIN lines |-> Share(lines[k], d)]
           g == [k \in DOMAIN new |-> Share(new[k], d)]
<1>1. /\ N \in Nat /\ n \in 1 .. N /\ DOMAIN lines = 1 .. N
      /\ \A k \in 1 .. N : lines[k] \in Line
  OBVIOUS
<1>2. /\ new \in Seq(Line) /\ Len(new) = N - 1
      /\ \A k \in 1 .. N - 1 : new[k] = lines[IF k < n THEN k ELSE k + 1]
  BY RemovedAt
<1>3. DOMAIN new = 1 .. N - 1
  BY <1>2
<1>4. UnitsIn(lines, d) = SumFunctionOnSet(f, 1 .. N)
  <2>1. UnitsIn(lines, d) = SumFunctionOnSet(f, DOMAIN lines)
    BY DEF UnitsIn, SumFunction, Share
  <2>2. QED
    BY <2>1, <1>1
<1>5. UnitsIn(new, d) = SumFunctionOnSet(g, 1 .. N - 1)
  <2>1. UnitsIn(new, d) = SumFunctionOnSet(g, DOMAIN new)
    BY DEF UnitsIn, SumFunction, Share
  <2>2. QED
    BY <2>1, <1>3
<1>6. /\ \A k \in 1 .. N : f[k] \in Int
      /\ \A k \in 1 .. N - 1 : g[k] = f[IF k < n THEN k ELSE k + 1]
      /\ f[n] = Share(lines[n], d)
  <2>1. \A k \in 1 .. N : f[k] = Share(lines[k], d) /\ f[k] \in Int
    BY <1>1 DEF Line, Share
  <2>2. \A k \in 1 .. N - 1 : g[k] = Share(new[k], d)
    BY <1>3
  <2>3. \A k \in 1 .. N - 1 : (IF k < n THEN k ELSE k + 1) \in 1 .. N
    BY <1>1
  <2>4. QED
    BY <1>1, <1>2, <2>1, <2>2, <2>3
<1> HIDE DEF f, g, N, new
<1>7. SumFunctionOnSet(g, 1 .. N - 1) = SumFunctionOnSet(f, 1 .. N) - f[n]
  BY <1>1, <1>6, SumRemoved
<1>8. QED
  BY <1>4, <1>5, <1>6, <1>7 DEF new

-----------------------------------------------------------------------------
(* What an edit does to the lines of a form.                               *)

\* The lines are still lines, and only the units of one dish have changed.
Touches(lines, new, d) ==
    /\ new \in Seq(Line)
    /\ \A e \in Dishes \ {d} : UnitsIn(new, e) = UnitsIn(lines, e)

LEMMA LineReplaced ==
    ASSUME NEW lines \in Seq(Line), NEW n \in DOMAIN lines, NEW line \in Line,
           line.dish = lines[n].dish
    PROVE  Touches(lines, [lines EXCEPT ![n] = line], lines[n].dish)
<1>1. [lines EXCEPT ![n] = line] \in Seq(Line) /\ lines[n] \in Line
  OBVIOUS
<1>2. ASSUME NEW e \in Dishes \ {lines[n].dish}
      PROVE  UnitsIn([lines EXCEPT ![n] = line], e) = UnitsIn(lines, e)
  <2>1. Share(lines[n], e) = 0 /\ Share(line, e) = 0
    BY <1>2 DEF Share
  <2>2. UnitsIn(lines, e) \in Nat
    BY UnitsNat
  <2>3. UnitsIn([lines EXCEPT ![n] = line], e)
          = UnitsIn(lines, e) - Share(lines[n], e) + Share(line, e)
    BY UnitsChanged
  <2>4. QED
    BY <2>1, <2>2, <2>3
<1>3. QED
  BY <1>1, <1>2 DEF Touches

LEMMA LineRemoved ==
    ASSUME NEW lines \in Seq(Line), NEW n \in DOMAIN lines
    PROVE  Touches(lines, RemoveAt(lines, n), lines[n].dish)
<1>1. RemoveAt(lines, n) \in Seq(Line)
  BY RemovedAt
<1>2. ASSUME NEW e \in Dishes \ {lines[n].dish}
      PROVE  UnitsIn(RemoveAt(lines, n), e) = UnitsIn(lines, e)
  <2>1. Share(lines[n], e) = 0
    BY <1>2 DEF Share
  <2>2. UnitsIn(lines, e) \in Nat
    BY UnitsNat
  <2>3. UnitsIn(RemoveAt(lines, n), e) = UnitsIn(lines, e) - Share(lines[n], e)
    BY UnitsRemoved
  <2>4. QED
    BY <2>1, <2>2, <2>3
<1>3. QED
  BY <1>1, <1>2 DEF Touches

LEMMA OneMoreTouches ==
    ASSUME NEW lines \in Seq(Line), NEW n \in DOMAIN lines
    PROVE  Touches(lines, OneMore(lines, n), lines[n].dish)
<1> DEFINE line == [lines[n] EXCEPT !.qty = @ + 1]
<1>1. lines[n] \in Line
  OBVIOUS
<1>2. line \in Line /\ line.dish = lines[n].dish
  BY <1>1 DEF Line
<1>3. OneMore(lines, n) = [lines EXCEPT ![n] = line]
  BY DEF OneMore
<1> HIDE DEF line
<1>4. QED
  BY <1>2, <1>3, LineReplaced

LEMMA OneLessTouches ==
    ASSUME NEW lines \in Seq(Line), NEW n \in DOMAIN lines, lines[n].qty # 1
    PROVE  Touches(lines, OneLess(lines, n), lines[n].dish)
<1> DEFINE line == [lines[n] EXCEPT !.qty = @ - 1]
<1>1. lines[n] \in Line
  OBVIOUS
<1>2. line \in Line /\ line.dish = lines[n].dish
  BY <1>1 DEF Line
<1>3. OneLess(lines, n) = [lines EXCEPT ![n] = line]
  BY DEF OneLess
<1> HIDE DEF line
<1>4. QED
  BY <1>2, <1>3, LineReplaced

LEMMA NoteTouches ==
    ASSUME NEW lines \in Seq(Line), NEW n \in DOMAIN lines, NEW note \in Notes
    PROVE  Touches(lines, [lines EXCEPT ![n].note = note], lines[n].dish)
<1> DEFINE line == [lines[n] EXCEPT !.note = note]
<1>1. lines[n] \in Line
  OBVIOUS
<1>2. line \in Line /\ line.dish = lines[n].dish
  BY <1>1 DEF Line
<1>3. [lines EXCEPT ![n].note = note] = [lines EXCEPT ![n] = line]
  OBVIOUS
<1> HIDE DEF line
<1>4. QED
  BY <1>2, <1>3, LineReplaced

LEMMA FirstPlain ==
    ASSUME NEW plain \in SUBSET Nat, plain # {}
    PROVE  (CHOOSE n \in plain : \A m \in plain : n <= m) \in plain
<1>1. PICK n \in plain : \A m \in plain : <<m, n>> \notin OpToRel(<, Nat)
  BY NatLessThanWellFounded, WFMin
<1>2. ASSUME NEW m \in plain PROVE n <= m
  <2>1. m \in Nat /\ n \in Nat
    OBVIOUS
  <2>2. ~(m < n)
    BY <1>1, <2>1 DEF OpToRel
  <2>3. QED
    BY <2>1, <2>2
<1>3. QED
  BY <1>2

LEMMA AddedTouches ==
    ASSUME NEW lines \in Seq(Line), NEW d \in Dishes
    PROVE  Touches(lines, Added(lines, d), d)
<1> DEFINE plain == {n \in DOMAIN lines : lines[n].dish = d /\ lines[n].note = NoNote}
           first == CHOOSE n \in plain : \A m \in plain : n <= m
           line == [dish |-> d, note |-> NoNote, qty |-> 1]
<1>1. CASE plain = {}
  <2>1. Added(lines, d) = Append(lines, line)
    BY <1>1 DEF Added
  <2>2. line \in Line /\ line.dish = d
    BY FormAssumption DEF Line
  <2> HIDE DEF line
  <2>3. ASSUME NEW e \in Dishes \ {d}
        PROVE  UnitsIn(Append(lines, line), e) = UnitsIn(lines, e)
    <3>1. Share(line, e) = 0
      BY <2>2, <2>3 DEF Share
    <3>2. UnitsIn(lines, e) \in Nat
      BY UnitsNat
    <3>3. QED
      BY <2>2, <3>1, <3>2, UnitsAppended
  <2>4. Append(lines, line) \in Seq(Line)
    BY <2>2
  <2>5. QED
    BY <2>1, <2>3, <2>4 DEF Touches
<1>2. CASE plain # {}
  <2>1. plain \in SUBSET Nat
    OBVIOUS
  <2>2. Added(lines, d) = OneMore(lines, first)
    BY <1>2 DEF Added, OneMore
  <2>3. \A n \in plain : n \in DOMAIN lines /\ lines[n].dish = d
    OBVIOUS
  <2> HIDE DEF plain
  <2>4. first \in plain
    BY <1>2, <2>1, FirstPlain
  <2> HIDE DEF first
  <2>5. QED
    BY <2>2, <2>3, <2>4, OneMoreTouches
<1>3. QED
  BY <1>1, <1>2

\* Every edit of the form is one of its lines.
LEMMA EditTouches ==
    ASSUME cart \in Seq(Line), Edit
    PROVE  \E d \in Dishes : \E lines : Touches(cart, lines, d) /\ Edited(lines, d)
<1>1. \A n \in DOMAIN cart : cart[n] \in Line /\ cart[n].dish \in Dishes
  <2>1. \A n \in DOMAIN cart : cart[n] \in Line
    OBVIOUS
  <2>2. QED
    BY <2>1 DEF Line
<1>2. ASSUME NEW d \in Dishes, addItem(d) PROVE Touches(cart, Added(cart, d), d)
  BY AddedTouches
<1>3. ASSUME NEW n \in DOMAIN cart
      PROVE  /\ Touches(cart, updateQty(cart, n), cart[n].dish)
             /\ Touches(cart, setAdditionQty(cart, n), cart[n].dish)
  <2>1. Touches(cart, cart, cart[n].dish)
    BY DEF Touches
  <2>2. QED
    BY <2>1, OneLessTouches, LineRemoved DEF updateQty, setAdditionQty
<1>4. ASSUME NEW n \in DOMAIN cart, Decrease(n)
      PROVE  \E lines : Touches(cart, lines, cart[n].dish) /\ Edited(lines, cart[n].dish)
  BY <1>3, <1>4 DEF Decrease
<1>5. ASSUME NEW n \in DOMAIN cart,
             Increase(n) \/ removeItem(n) \/ \E note \in Notes : setItemNote(n, note)
      PROVE  \E lines : Touches(cart, lines, cart[n].dish) /\ Edited(lines, cart[n].dish)
  BY <1>5, OneMoreTouches, LineRemoved, NoteTouches DEF Increase, removeItem, setItemNote
<1>6. QED
  BY <1>1, <1>2, <1>4, <1>5 DEF Edit, addItem

-----------------------------------------------------------------------------
(* Types.                                                                  *)

LEMMA TypesInit == Init => TypeOK
<1> SUFFICES ASSUME Init PROVE TypeOK
  OBVIOUS
<1>1. cart \in Seq(Line) /\ sends \in Seq(Send)
  BY DEF Init
<1>2. kitchen \in Units /\ wanted \in [Dishes -> Int]
  BY DEF Init, Units
<1>3. trouble \in 0 .. MaxTrouble /\ posted \in 0 .. MaxOrders
  BY FormAssumption DEF Init
<1>4. QED
  BY <1>1, <1>2, <1>3 DEF Init, TypeOK, Routes

LEMMA UnitsOfType == \A lines \in Seq(Line) : UnitsOf(lines) \in Units
  BY UnitsNat DEF UnitsOf, Units

LEMMA LeaveTypes ==
    ASSUME TypeOK, NEW r \in Routes, Leave(r)
    PROVE  TypeOK'
<1>1. /\ route' = r /\ cart' = <<>> /\ sending' = FALSE /\ confirm' = FALSE
      /\ sends' = [n \in DOMAIN sends |-> [sends[n] EXCEPT !.own = FALSE]]
  BY DEF Leave, Shows, GivenUp
<1>2. sends' \in Seq(Send)
  <2>1. Send = Sent(Units)
    BY DEF Send, Sent
  <2>2. sends \in Seq(Sent(Units))
    BY <2>1 DEF TypeOK
  <2>3. QED
    BY <1>1, <2>1, <2>2, AllGivenUp
<1>3. wanted' \in [Dishes -> Int]
  <2>1. \A d \in Dishes : wanted[d] \in Int /\ UnitsIn(cart, d) \in Nat
    BY UnitsNat DEF TypeOK
  <2>2. wanted' = [d \in Dishes |-> wanted[d] - UnitsIn(cart, d)]
    BY DEF Leave, GivenUp
  <2>3. QED
    BY <2>1, <2>2
<1>4. slipped' \subseteq Dishes
  <2>1. slipped \subseteq Dishes
    BY DEF TypeOK
  <2>2. QED
    BY <2>1 DEF Leave, GivenUp, DishesIn
<1>5. cart' \in Seq(Line)
  BY <1>1
<1>6. UNCHANGED world
  BY DEF Leave
<1>7. QED
  BY <1>1, <1>2, <1>3, <1>4, <1>5, <1>6 DEF TypeOK, world

LEMMA EditTypes ==
    ASSUME TypeOK, NEW d \in Dishes, NEW lines \in Seq(Line), Edited(lines, d)
    PROVE  TypeOK'
<1>1. wanted' \in [Dishes -> Int]
  <2>1. UnitsIn(lines, d) \in Nat /\ UnitsIn(cart, d) \in Nat
    BY UnitsNat DEF TypeOK
  <2>2. QED
    BY <2>1 DEF TypeOK, Edited
<1>2. slipped' \subseteq Dishes
  BY DEF TypeOK, Edited
<1>3. QED
  BY <1>1, <1>2 DEF TypeOK, Edited, world

LEMMA SendTypes == ASSUME TypeOK, send PROVE TypeOK'
<1> DEFINE r == [form |-> route, units |-> UnitsOf(cart), own |-> TRUE, answer |-> None]
<1>1. UnitsOf(cart) \in Units
  BY UnitsOfType DEF TypeOK
<1>2. r \in Send
  BY <1>1 DEF send, InForm, Send
<1>3. sends' = Append(sends, r) /\ sends \in Seq(Send)
  BY DEF send, TypeOK
<1> HIDE DEF r
<1>4. sends' \in Seq(Send)
  BY <1>2, <1>3
<1>5. posted' \in 0 .. MaxOrders
  BY FormAssumption DEF send, TypeOK
<1>6. QED
  BY <1>4, <1>5 DEF send, TypeOK

LEMMA AnswerTypes ==
    ASSUME TypeOK, NEW n \in DOMAIN sends, Save(n) \/ Fails(n)
    PROVE  TypeOK'
<1>1. \A m \in DOMAIN sends : sends[m] \in Send
  BY DEF TypeOK
<1>2. ASSUME NEW a \in {"ok", "failed"}, Answered(n, a) PROVE sends' \in Seq(Send)
  <2> DEFINE r == [sends[n] EXCEPT !.answer = a]
  <2>1. r \in Send
    BY <1>1 DEF Send
  <2>2. sends' = [sends EXCEPT ![n] = r] /\ sends \in Seq(Send)
    BY <1>2 DEF Answered, TypeOK
  <2> HIDE DEF r
  <2>3. QED
    BY <2>1, <2>2
<1>3. Cooked(n) \in Units
  <2>1. \A d \in Dishes : kitchen[d] \in Nat /\ sends[n].units[d] \in Nat
    <3>1. sends[n].units \in Units /\ kitchen \in Units
      BY <1>1 DEF Send, TypeOK
    <3>2. QED
      BY <3>1 DEF Units
  <2>2. QED
    BY <2>1 DEF Cooked, Units
<1>4. CASE Save(n)
  BY <1>2, <1>3, <1>4 DEF Save, TypeOK
<1>5. CASE Fails(n)
  <2>1. sends' \in Seq(Send)
    BY <1>2, <1>5 DEF Fails
  <2>2. kitchen' \in Units /\ torn' \subseteq Dishes
    BY <1>3, <1>5 DEF Fails, TypeOK, DishesIn
  <2>3. trouble' \in 0 .. MaxTrouble
    BY <1>5, FormAssumption DEF Fails, TypeOK
  <2>4. QED
    BY <1>5, <2>1, <2>2, <2>3 DEF Fails, TypeOK
<1>6. QED
  BY <1>4, <1>5

LEMMA DoneTypes ==
    ASSUME TypeOK, NEW n \in DOMAIN sends, Failure(n) \/ Success(n)
    PROVE  TypeOK'
<1>1. RemoveAt(sends, n) \in Seq(Send) /\ sends \in Seq(Send)
  BY RemovedAt DEF TypeOK
<1>2. sends[n].own \in BOOLEAN
  <2>1. sends[n] \in Send
    BY <1>1
  <2>2. QED
    BY <2>1 DEF Send
<1>3. CASE Failure(n)
  BY <1>1, <1>2, <1>3 DEF Failure, TypeOK, world
<1>4. CASE Success(n) /\ sends[n].form = "create"
  <2> DEFINE s == RemoveAt(sends, n)
  <2>1. Send = Sent(Units)
    BY DEF Send, Sent
  <2>2. sends' = [m \in DOMAIN s |-> [s[m] EXCEPT !.own = FALSE]] /\ s \in Seq(Sent(Units))
    BY <1>1, <1>4, <2>1 DEF Success
  <2> HIDE DEF s
  <2>3. sends' \in Seq(Send)
    BY <2>1, <2>2, AllGivenUp
  <2>4. slipped' \subseteq Dishes
    BY <1>4 DEF Success, TypeOK, DishesIn
  <2>5. cart' \in Seq(Line) /\ route' \in Routes
    BY <1>4 DEF Success, Shows, Routes
  <2>6. QED
    BY <1>4, <2>3, <2>4, <2>5 DEF Success, Shows, TypeOK
<1>5. CASE Success(n) /\ sends[n].form # "create"
  <2>1. cart' \in Seq(Line)
    <3>1. cart' = <<>> \/ cart' = cart
      BY <1>5 DEF Success
    <3>2. cart \in Seq(Line) /\ <<>> \in Seq(Line)
      BY DEF TypeOK
    <3>3. QED
      BY <3>1, <3>2
  <2>2. QED
    BY <1>1, <1>2, <1>5, <2>1 DEF Success, TypeOK
<1>6. QED
  BY <1>3, <1>4, <1>5

LEMMA MoveLeaves ==
    ASSUME Move
    PROVE  \/ \E r \in Routes : Leave(r)
           \/ confirm' \in BOOLEAN
                /\ UNCHANGED <<route, cart, sending, sends, wanted, slipped, world>>
<1>1. CASE BackFromCreate
  BY <1>1 DEF BackFromCreate, Routes
<1>2. CASE KeepOrder
  BY <1>2 DEF KeepOrder
<1>3. CASE \E r \in Routes : Nav(r)
  BY <1>3 DEF Nav
<1>4. CASE TableCard \/ OrderCard \/ ToPayment \/ FromPayment \/ ConfirmCancel
  BY <1>4 DEF TableCard, OrderCard, ToPayment, FromPayment, ConfirmCancel, Routes, Forms
<1>5. QED
  BY <1>1, <1>2, <1>3, <1>4 DEF Move

LEMMA TypesStep == ASSUME TypeOK, [Next]_vars PROVE TypeOK'
<1>1. CASE Edit
  BY <1>1, EditTouches, EditTypes DEF Touches, TypeOK
<1>2. CASE Move
  <2>1. ASSUME confirm' \in BOOLEAN,
               UNCHANGED <<route, cart, sending, sends, wanted, slipped, world>>
        PROVE  TypeOK'
    BY <2>1 DEF TypeOK, world
  <2>2. QED
    BY <1>2, <2>1, MoveLeaves, LeaveTypes
<1>3. CASE send
  BY <1>3, SendTypes
<1>4. CASE \E n \in DOMAIN sends : Save(n) \/ Fails(n)
  BY <1>4, AnswerTypes
<1>5. CASE \E n \in DOMAIN sends : Failure(n) \/ Success(n)
  BY <1>5, DoneTypes
<1>6. CASE OrderListed
  BY <1>6 DEF OrderListed, TypeOK
<1>7. CASE UNCHANGED vars
  BY <1>7 DEF vars, TypeOK
<1>8. QED
  BY <1>1, <1>2, <1>3, <1>4, <1>5, <1>6, <1>7 DEF Next

\* Through any editing, sending and late answers the form keeps lines of at least one unit
\* (OrderCreate.tsx:69-70, TableSession.tsx:239-245), and units are never negative.
THEOREM FormTypes == Spec => []TypeOK
<1>1. QED
  BY TypesInit, TypesStep, PTL DEF Spec

-----------------------------------------------------------------------------
(* Nothing is lost.                                                        *)

\* A request of the form shown holds what the form still shows, another one nothing that
\* anybody keeps track of.  What is asked for is in the kitchen, or on the form: not on
\* it any more once its own request is saved, whose answer will empty it.
OwnSaved == \E n \in DOMAIN sends : sends[n].own /\ sends[n].answer = "ok"
SendsAccounted ==
    \A n \in DOMAIN sends : \A d \in Dishes \ slipped :
        sends[n].units[d] = IF sends[n].own THEN UnitsIn(cart, d) ELSE 0
DishesAccounted ==
    \A d \in Dishes \ (slipped \cup torn) :
        wanted[d] = kitchen[d] + IF OwnSaved THEN 0 ELSE UnitsIn(cart, d)
Counted == TypeOK /\ OneSendPerForm /\ SendsAccounted /\ DishesAccounted

LEMMA CountTypes ==
    ASSUME TypeOK
    PROVE  /\ \A d \in Dishes : kitchen[d] \in Nat /\ wanted[d] \in Int /\ UnitsIn(cart, d) \in Nat
           /\ \A n \in DOMAIN sends : /\ sends[n] \in Send /\ sends[n].own \in BOOLEAN
                                      /\ \A d \in Dishes : sends[n].units[d] \in Nat
           /\ slipped \subseteq Dishes /\ torn \subseteq Dishes
<1>1. \A n \in DOMAIN sends : sends[n] \in Send
  BY DEF TypeOK
<1>2. \A d \in Dishes : UnitsIn(cart, d) \in Nat
  BY UnitsNat DEF TypeOK
<1>3. \A n \in DOMAIN sends : /\ sends[n].own \in BOOLEAN
                              /\ \A d \in Dishes : sends[n].units[d] \in Nat
  BY <1>1 DEF Send, Units
<1>4. \A d \in Dishes : kitchen[d] \in Nat /\ wanted[d] \in Int
  BY DEF TypeOK, Units
<1>5. QED
  BY <1>1, <1>2, <1>3, <1>4 DEF TypeOK

LEMMA EditCounts ==
    ASSUME Counted, NEW d \in Dishes, NEW lines, Touches(cart, lines, d), Edited(lines, d)
    PROVE  SendsAccounted' /\ DishesAccounted'
<1>1. /\ cart' = lines /\ UNCHANGED <<sending, sends, kitchen, torn>>
      /\ wanted' = [wanted EXCEPT ![d] = @ + UnitsIn(lines, d) - UnitsIn(cart, d)]
      /\ slipped' = IF sending THEN slipped \cup {d} ELSE slipped
  BY DEF Edited, world
<1>2. \A e \in Dishes \ {d} : UnitsIn(cart', e) = UnitsIn(cart, e) /\ wanted'[e] = wanted[e]
  BY <1>1 DEF Touches, Counted, TypeOK
<1>3. wanted'[d] = wanted[d] + UnitsIn(cart', d) - UnitsIn(cart, d)
  BY <1>1 DEF Counted, TypeOK
<1>4. OwnSaved' = OwnSaved
  BY <1>1 DEF OwnSaved
<1>5. ~sending => ~OwnSaved /\ \A n \in DOMAIN sends : ~sends[n].own
  BY DEF Counted, OneSendPerForm, OwnSaved
<1>6. SendsAccounted'
  <2> SUFFICES ASSUME NEW n \in DOMAIN sends, NEW e \in Dishes \ slipped'
               PROVE  sends[n].units[e] = IF sends[n].own THEN UnitsIn(cart', e) ELSE 0
    BY <1>1 DEF SendsAccounted
  <2>1. sends[n].units[e] = IF sends[n].own THEN UnitsIn(cart, e) ELSE 0
    BY <1>1 DEF Counted, SendsAccounted
  <2>2. sends[n].own => e # d
    BY <1>1, <1>5
  <2>3. QED
    BY <1>2, <2>1, <2>2
<1>7. DishesAccounted'
  <2> SUFFICES ASSUME NEW e \in Dishes \ (slipped' \cup torn)
               PROVE  wanted'[e] = kitchen[e] + IF OwnSaved THEN 0 ELSE UnitsIn(cart', e)
    BY <1>1, <1>4 DEF DishesAccounted
  <2>1. wanted[e] = kitchen[e] + IF OwnSaved THEN 0 ELSE UnitsIn(cart, e)
    BY <1>1 DEF Counted, DishesAccounted
  <2>2. CASE e # d
    BY <1>2, <2>1, <2>2
  <2>3. CASE e = d
    <3>1. ~OwnSaved
      BY <1>1, <1>5, <2>3
    <3>2. kitchen[e] \in Nat /\ UnitsIn(cart, e) \in Nat
      BY CountTypes DEF Counted
    <3>3. UnitsIn(cart', e) \in Nat
      BY <1>1, UnitsNat DEF Touches
    <3>4. QED
      BY <1>3, <2>1, <2>3, <3>1, <3>2, <3>3
  <2>4. QED
    BY <2>2, <2>3
<1>8. QED
  BY <1>6, <1>7

\* A form that is left gives up what nobody sees the answer of.
LEMMA LeaveCounts ==
    ASSUME Counted, NEW r, Leave(r)
    PROVE  SendsAccounted' /\ DishesAccounted'
<1>1. /\ cart' = <<>> /\ UNCHANGED <<kitchen, torn>>
      /\ sends' = [n \in DOMAIN sends |-> [sends[n] EXCEPT !.own = FALSE]]
      /\ wanted' = [d \in Dishes |-> wanted[d] - UnitsIn(cart, d)]
      /\ slipped' = IF sending THEN slipped \cup DishesIn(UnitsOf(cart))
                        \cup UNION {DishesIn(sends[n].units) : n \in DOMAIN sends} ELSE slipped
  BY DEF Leave, Shows, GivenUp, world
<1>2. \A n \in DOMAIN sends : sends'[n].own = FALSE /\ sends'[n].units = sends[n].units
  <2>1. \A n \in DOMAIN sends : sends[n] \in Send
    BY CountTypes DEF Counted
  <2>2. QED
    BY <1>1, <2>1 DEF Send
<1>3. DOMAIN sends' = DOMAIN sends
  BY <1>1
<1>4. ~sending => ~OwnSaved /\ \A n \in DOMAIN sends : ~sends[n].own
  BY DEF Counted, OneSendPerForm, OwnSaved
<1>5. SendsAccounted'
  <2> SUFFICES ASSUME NEW n \in DOMAIN sends, NEW e \in Dishes \ slipped'
               PROVE  sends[n].units[e] = 0
    BY <1>2, <1>3 DEF SendsAccounted
  <2>1. sends[n].units[e] \in Nat
    BY CountTypes DEF Counted
  <2>2. CASE sending
    BY <1>1, <2>1, <2>2 DEF DishesIn
  <2>3. CASE ~sending
    BY <1>1, <1>4, <2>3 DEF Counted, SendsAccounted
  <2>4. QED
    BY <2>2, <2>3
<1>6. ~OwnSaved'
  BY <1>2, <1>3 DEF OwnSaved
<1>7. DishesAccounted'
  <2> SUFFICES ASSUME NEW e \in Dishes \ (slipped' \cup torn)
               PROVE  wanted'[e] = kitchen[e]
    <3>1. \A e \in Dishes : UnitsIn(cart', e) = 0 /\ kitchen[e] \in Nat
      BY <1>1, UnitsOfNone, CountTypes DEF Counted
    <3>2. QED
      BY <1>1, <1>6, <3>1 DEF DishesAccounted
  <2>1. wanted[e] = kitchen[e] + IF OwnSaved THEN 0 ELSE UnitsIn(cart, e)
    BY <1>1 DEF Counted, DishesAccounted
  <2>2. kitchen[e] \in Nat /\ UnitsIn(cart, e) \in Nat
    BY CountTypes DEF Counted
  <2>3. wanted'[e] = wanted[e] - UnitsIn(cart, e)
    BY <1>1
  <2>4. CASE sending
    <3>1. UnitsIn(cart, e) = 0
      BY <1>1, <2>2, <2>4 DEF DishesIn, UnitsOf
    <3>2. QED
      BY <2>1, <2>2, <2>3, <3>1
  <2>5. CASE ~sending
    BY <1>4, <2>1, <2>2, <2>3, <2>5
  <2>6. QED
    BY <2>4, <2>5
<1>8. QED
  BY <1>5, <1>7

\* The new request holds what the form shows.
LEMMA SendCounts == ASSUME Counted, send PROVE SendsAccounted' /\ DishesAccounted'
<1> DEFINE r == [form |-> route, units |-> UnitsOf(cart), own |-> TRUE, answer |-> None]
           N == Len(sends)
<1>1. /\ ~sending /\ UNCHANGED <<cart, kitchen, wanted, slipped, torn>>
      /\ sends' = Append(sends, r)
  BY DEF send, Sendable
<1>2. r.own = TRUE /\ r.answer = None /\ \A e \in Dishes : r.units[e] = UnitsIn(cart, e)
  BY DEF UnitsOf
<1>3. sends \in Seq(Send)
  BY DEF Counted, TypeOK
<1> HIDE DEF r
<1>4. /\ DOMAIN sends' = 1 .. N + 1 /\ DOMAIN sends = 1 .. N /\ sends'[N + 1] = r
      /\ \A n \in 1 .. N : sends'[n] = sends[n]
      /\ \A n \in 1 .. N + 1 : n \in 1 .. N \/ n = N + 1
  BY <1>1, <1>3
<1>5. \A n \in 1 .. N : ~sends[n].own
  BY <1>1, <1>4 DEF Counted, OneSendPerForm
<1> HIDE DEF N
<1>6. ~OwnSaved /\ ~OwnSaved'
  BY <1>2, <1>4, <1>5, FormAssumption DEF OwnSaved
<1>7. SendsAccounted'
  <2> SUFFICES ASSUME NEW n \in 1 .. N + 1, NEW e \in Dishes \ slipped
               PROVE  sends'[n].units[e] = IF sends'[n].own THEN UnitsIn(cart, e) ELSE 0
    BY <1>1, <1>4 DEF SendsAccounted
  <2>1. CASE n \in 1 .. N
    BY <1>4, <2>1 DEF Counted, SendsAccounted
  <2>2. CASE n = N + 1
    BY <1>2, <1>4, <2>2
  <2>3. QED
    BY <1>4, <2>1, <2>2
<1>8. DishesAccounted'
  BY <1>1, <1>6 DEF Counted, DishesAccounted
<1>9. QED
  BY <1>7, <1>8

\* The kitchen gets an order that nobody has answered; the waiter may be told otherwise.
LEMMA CookCounts ==
    ASSUME Counted, NEW n \in DOMAIN sends, Save(n) \/ Fails(n)
    PROVE  SendsAccounted' /\ DishesAccounted'
<1>1. PICK a \in {"ok", "failed"} :
        /\ sends' = [sends EXCEPT ![n].answer = a]
        /\ a = "ok" => Save(n)
        /\ a = "failed" => Fails(n)
  BY DEF Save, Fails, Answered
<1>2. sends[n].answer = None /\ UNCHANGED <<cart, wanted, slipped>>
  BY DEF Save, Fails
<1>3. \A m \in DOMAIN sends : sends[m] \in Send
  BY CountTypes DEF Counted
<1>4. /\ DOMAIN sends' = DOMAIN sends
      /\ \A m \in DOMAIN sends :
           /\ sends'[m].own = sends[m].own /\ sends'[m].units = sends[m].units
           /\ sends'[m].answer = IF m = n THEN a ELSE sends[m].answer
  BY <1>1, <1>3 DEF Send
<1>5. SendsAccounted'
  <2> SUFFICES ASSUME NEW m \in DOMAIN sends, NEW e \in Dishes \ slipped
               PROVE  sends'[m].units[e] = IF sends'[m].own THEN UnitsIn(cart, e) ELSE 0
    BY <1>2, <1>4 DEF SendsAccounted
  <2>1. QED
    BY <1>4 DEF Counted, SendsAccounted
<1>6. OwnSaved' <=> OwnSaved \/ (a = "ok" /\ sends[n].own)
  <2>1. sends[n].answer # "ok"
    BY <1>2, FormAssumption
  <2>2. QED
    BY <1>4, <2>1 DEF OwnSaved
<1>7. sends[n].own => ~OwnSaved
  BY <1>2, FormAssumption DEF Counted, OneSendPerForm, OwnSaved
<1>8. DishesAccounted'
  <2> SUFFICES ASSUME NEW e \in Dishes \ (slipped \cup torn')
               PROVE  wanted[e] = kitchen'[e] + IF OwnSaved' THEN 0 ELSE UnitsIn(cart, e)
    BY <1>2 DEF DishesAccounted
  <2>1. /\ kitchen[e] \in Nat /\ UnitsIn(cart, e) \in Nat /\ sends[n].units[e] \in Nat
        /\ sends[n].own \in BOOLEAN
    BY CountTypes DEF Counted
  <2>2. e \notin torn
    BY DEF Save, Fails
  <2>3. wanted[e] = kitchen[e] + IF OwnSaved THEN 0 ELSE UnitsIn(cart, e)
    BY <2>2 DEF Counted, DishesAccounted
  <2>4. sends[n].units[e] = IF sends[n].own THEN UnitsIn(cart, e) ELSE 0
    BY DEF Counted, SendsAccounted
  <2>5. CASE a = "ok"
    <3>1. kitchen'[e] = kitchen[e] + sends[n].units[e]
      BY <1>1, <2>5 DEF Save, Cooked
    <3>2. CASE sends[n].own
      BY <1>6, <1>7, <2>1, <2>3, <2>4, <2>5, <3>1, <3>2
    <3>3. CASE ~sends[n].own
      BY <1>6, <2>1, <2>3, <2>4, <3>1, <3>3
    <3>4. QED
      BY <3>2, <3>3
  <2>6. CASE a = "failed"
    <3>1. kitchen'[e] = kitchen[e]
      <4>1. CASE UNCHANGED <<kitchen, torn>>
        BY <4>1
      <4>2. CASE kitchen' = Cooked(n) /\ torn' = torn \cup DishesIn(sends[n].units)
        <5>1. sends[n].units[e] = 0
          BY <2>1, <4>2 DEF DishesIn
        <5>2. QED
          BY <2>1, <4>2, <5>1 DEF Cooked
      <4>3. QED
        BY <1>1, <2>6, <4>1, <4>2 DEF Fails
    <3>2. OwnSaved' = OwnSaved
      BY <1>6, <2>6 DEF OwnSaved
    <3>3. QED
      BY <2>3, <3>1, <3>2
  <2>7. QED
    BY <2>5, <2>6
<1>9. QED
  BY <1>5, <1>8

\* Without one of the requests, the others are there.
LEMMA OthersStay ==
    ASSUME sends \in Seq(Send), NEW n \in DOMAIN sends
    PROVE  LET s == RemoveAt(sends, n)
           IN  /\ \A k \in DOMAIN s : \E m \in DOMAIN sends \ {n} : s[k] = sends[m]
               /\ \A m \in DOMAIN sends \ {n} : \E k \in DOMAIN s : s[k] = sends[m]
<1> DEFINE s == RemoveAt(sends, n)
           N == Len(sends)
<1>1. /\ s \in Seq(Send) /\ Len(s) = N - 1
      /\ \A k \in 1 .. N - 1 : s[k] = sends[IF k < n THEN k ELSE k + 1]
  BY RemovedAt
<1>2. N \in Nat /\ n \in 1 .. N /\ DOMAIN sends = 1 .. N /\ DOMAIN s = 1 .. N - 1
  BY <1>1
<1> HIDE DEF s, N
<1>3. \A k \in 1 .. N - 1 : (IF k < n THEN k ELSE k + 1) \in (1 .. N) \ {n}
  BY <1>2
<1>4. ASSUME NEW m \in (1 .. N) \ {n} PROVE \E k \in 1 .. N - 1 : s[k] = sends[m]
  <2>1. CASE m < n
    BY <1>1, <1>2, <2>1
  <2>2. CASE m > n
    <3>1. m - 1 \in 1 .. N - 1 /\ ~(m - 1 < n) /\ m - 1 + 1 = m
      BY <1>2, <2>2
    <3>2. QED
      BY <1>1, <3>1
  <2>3. QED
    BY <1>2, <2>1, <2>2
<1>5. QED
  BY <1>1, <1>2, <1>3, <1>4 DEF s

\* A failed request leaves what it held on the form.
LEMMA FailureCounts ==
    ASSUME Counted, NEW n \in DOMAIN sends, Failure(n)
    PROVE  SendsAccounted' /\ DishesAccounted'
<1>1. /\ sends' = RemoveAt(sends, n) /\ sends[n].answer = "failed"
      /\ UNCHANGED <<cart, wanted, slipped, kitchen, torn>>
  BY DEF Failure, world
<1>2. /\ \A k \in DOMAIN sends' : \E m \in DOMAIN sends \ {n} : sends'[k] = sends[m]
      /\ \A m \in DOMAIN sends \ {n} : \E k \in DOMAIN sends' : sends'[k] = sends[m]
  BY <1>1, OthersStay DEF Counted, TypeOK
<1>3. OwnSaved' <=> OwnSaved
  BY <1>1, <1>2 DEF OwnSaved
<1>4. SendsAccounted'
  <2> SUFFICES ASSUME NEW k \in DOMAIN sends', NEW e \in Dishes \ slipped
               PROVE  sends'[k].units[e] = IF sends'[k].own THEN UnitsIn(cart, e) ELSE 0
    BY <1>1 DEF SendsAccounted
  <2>1. QED
    BY <1>2 DEF Counted, SendsAccounted
<1>5. DishesAccounted'
  BY <1>1, <1>3 DEF Counted, DishesAccounted
<1>6. QED
  BY <1>4, <1>5

\* The answer of a saved order empties the form that sent it, or drops another one.
LEMMA SuccessCounts ==
    ASSUME Counted, NEW n \in DOMAIN sends, Success(n)
    PROVE  SendsAccounted' /\ DishesAccounted'
<1> DEFINE s == RemoveAt(sends, n)
<1>1. sends[n].answer = "ok" /\ UNCHANGED <<kitchen, wanted, torn>>
  BY DEF Success
<1>2. /\ \A k \in DOMAIN s : \E m \in DOMAIN sends \ {n} : s[k] = sends[m]
      /\ \A m \in DOMAIN sends \ {n} : \E k \in DOMAIN s : s[k] = sends[m]
  BY OthersStay DEF Counted, TypeOK
<1>3. sends[n].own => OwnSaved /\ \A m \in DOMAIN sends \ {n} : ~sends[m].own
  BY <1>1 DEF OwnSaved, Counted, OneSendPerForm
<1>4. /\ sends[n].own \in BOOLEAN
      /\ \A d \in Dishes : /\ kitchen[d] \in Nat /\ wanted[d] \in Int /\ UnitsIn(cart, d) \in Nat
                           /\ \A m \in DOMAIN sends : sends[m].units[d] \in Nat
  BY CountTypes DEF Counted
<1>5. \A m \in DOMAIN sends : \A d \in Dishes \ slipped :
        sends[m].units[d] = IF sends[m].own THEN UnitsIn(cart, d) ELSE 0
  BY DEF Counted, SendsAccounted
<1>6. \A d \in Dishes \ (slipped \cup torn) :
        wanted[d] = kitchen[d] + IF OwnSaved THEN 0 ELSE UnitsIn(cart, d)
  BY DEF Counted, DishesAccounted
<1>7. s \in Seq(Send)
  BY RemovedAt DEF Counted, TypeOK
<1>8. CASE sends[n].form = "create"
  <2>1. /\ cart' = <<>>
        /\ sends' = [m \in DOMAIN s |-> [s[m] EXCEPT !.own = FALSE]]
        /\ slipped' = IF sends[n].own THEN slipped ELSE slipped \cup DishesIn(UnitsOf(cart))
    BY <1>8 DEF Success, Shows
  <2>2. /\ DOMAIN sends' = DOMAIN s
        /\ \A k \in DOMAIN s : ~sends'[k].own /\ sends'[k].units = s[k].units
    <3>1. \A k \in DOMAIN s : s[k] \in Send
      BY <1>7
    <3>2. QED
      BY <2>1, <3>1 DEF Send
  <2>3. ASSUME NEW e \in Dishes \ slipped', ~sends[n].own PROVE UnitsIn(cart, e) = 0
    BY <1>4, <2>1, <2>3 DEF DishesIn, UnitsOf
  <2>4. slipped \subseteq slipped'
    BY <2>1
  <2>5. SendsAccounted'
    <3> SUFFICES ASSUME NEW k \in DOMAIN s, NEW e \in Dishes \ slipped'
                 PROVE  s[k].units[e] = 0
      BY <2>2 DEF SendsAccounted
    <3>1. PICK m \in DOMAIN sends \ {n} : s[k] = sends[m]
      BY <1>2
    <3>2. sends[m].units[e] = IF sends[m].own THEN UnitsIn(cart, e) ELSE 0
      BY <1>5, <2>4
    <3>3. QED
      BY <1>3, <2>3, <3>1, <3>2
  <2>6. ~OwnSaved'
    BY <2>2 DEF OwnSaved
  <2>7. DishesAccounted'
    <3> SUFFICES ASSUME NEW e \in Dishes \ (slipped' \cup torn)
                 PROVE  wanted[e] = kitchen[e]
      <4>1. \A e \in Dishes : UnitsIn(cart', e) = 0
        BY <2>1, UnitsOfNone
      <4>2. QED
        BY <1>1, <1>4, <2>6, <4>1 DEF DishesAccounted
    <3>1. wanted[e] = kitchen[e] + IF OwnSaved THEN 0 ELSE UnitsIn(cart, e)
      BY <1>6, <2>4
    <3>2. QED
      BY <1>3, <1>4, <2>3, <3>1
  <2>8. QED
    BY <2>5, <2>7
<1>9. CASE sends[n].form # "create"
  <2>1. /\ sends' = s /\ slipped' = slipped
        /\ cart' = IF sends[n].own THEN <<>> ELSE cart
    BY <1>9 DEF Success
  <2>2. SendsAccounted'
    <3> SUFFICES ASSUME NEW k \in DOMAIN s, NEW e \in Dishes \ slipped
                 PROVE  s[k].units[e] = IF s[k].own THEN UnitsIn(cart', e) ELSE 0
      BY <2>1 DEF SendsAccounted
    <3>1. PICK m \in DOMAIN sends \ {n} : s[k] = sends[m]
      BY <1>2
    <3>2. sends[m].units[e] = IF sends[m].own THEN UnitsIn(cart, e) ELSE 0
      BY <1>5
    <3>3. QED
      BY <1>3, <2>1, <3>1, <3>2
  <2>3. OwnSaved' <=> OwnSaved /\ ~sends[n].own
    BY <1>2, <1>3, <2>1 DEF OwnSaved
  <2>4. DishesAccounted'
    <3> SUFFICES ASSUME NEW e \in Dishes \ (slipped \cup torn)
                 PROVE  wanted[e] = kitchen[e] + IF OwnSaved' THEN 0 ELSE UnitsIn(cart', e)
      BY <1>1, <2>1 DEF DishesAccounted
    <3>1. wanted[e] = kitchen[e] + IF OwnSaved THEN 0 ELSE UnitsIn(cart, e)
      BY <1>6
    <3>2. CASE sends[n].own
      <4>1. cart' = <<>> /\ UnitsIn(<<>>, e) = 0
        BY <2>1, <3>2, UnitsOfNone
      <4>2. QED
        BY <1>3, <2>3, <3>1, <3>2, <4>1
    <3>3. CASE ~sends[n].own
      BY <2>1, <2>3, <3>1, <3>3
    <3>4. QED
      BY <3>2, <3>3
  <2>5. QED
    BY <2>2, <2>4
<1>10. QED
  BY <1>8, <1>9

LEMMA CountStep == ASSUME Counted, [Next]_vars PROVE Counted'
<1>1. TypeOK'
  BY TypesStep DEF Counted
<1>2. OneSendPerForm'
  <2>1. IInv
    <3>1. Send = Sent(Units)
      BY DEF Send, Sent
    <3>2. QED
      BY <3>1 DEF Counted, TypeOK, IInv
  <2>2. QED
    BY <2>1, StepKeeps DEF IInv
<1>3. ASSUME UNCHANGED <<cart, sends, kitchen, wanted, slipped, torn>>
      PROVE  SendsAccounted' /\ DishesAccounted'
  BY <1>3 DEF Counted, SendsAccounted, DishesAccounted, OwnSaved
<1>4. SendsAccounted' /\ DishesAccounted'
  <2>1. CASE Edit
    BY <2>1, EditTouches, EditCounts DEF Counted, TypeOK
  <2>2. CASE Move
    BY <1>3, <2>2, MoveLeaves, LeaveCounts DEF world
  <2>3. CASE send
    BY <2>3, SendCounts
  <2>4. CASE \E n \in DOMAIN sends : Save(n) \/ Fails(n)
    BY <2>4, CookCounts
  <2>5. CASE \E n \in DOMAIN sends : Failure(n) \/ Success(n)
    BY <2>5, FailureCounts, SuccessCounts
  <2>6. CASE OrderListed
    BY <1>3, <2>6 DEF OrderListed
  <2>7. CASE UNCHANGED vars
    BY <1>3, <2>7 DEF vars
  <2>8. QED
    BY <2>1, <2>2, <2>3, <2>4, <2>5, <2>6, <2>7 DEF Next
<1>5. QED
  BY <1>1, <1>2, <1>4 DEF Counted

\* However often a waiter edits, leaves, sends, is refused and tries again, every unit of a
\* dish that is neither slipped nor torn is on the form or in the kitchen, once
\* (OrderCreate.tsx:84-103, TableSession.tsx:246-264).  So the code loses or doubles a dish
\* in two ways only: it was touched, or its form closed, while an order was being sent
\* (TableSession.tsx:257, OrderCreate.tsx:96), or the answer was lost (store.tsx:400).
THEOREM NothingIsLost == Spec => []NothingLost
<1>1. Init => Counted
  <2> SUFFICES ASSUME Init PROVE Counted
    OBVIOUS
  <2>1. sends = <<>> /\ DOMAIN sends = {} /\ cart = <<>> /\ sending = FALSE
    BY DEF Init
  <2>2. \A d \in Dishes : wanted[d] = 0 /\ kitchen[d] = 0 /\ UnitsIn(cart, d) = 0
    BY <2>1, UnitsOfNone DEF Init
  <2>3. OneSendPerForm /\ SendsAccounted
    BY <2>1 DEF OneSendPerForm, SendsAccounted
  <2>4. DishesAccounted
    BY <2>2 DEF DishesAccounted
  <2>5. QED
    BY <2>3, <2>4, TypesInit DEF Counted
<1>2. Counted /\ [Next]_vars => Counted'
  BY CountStep
<1>3. Counted => NothingLost
  <2> SUFFICES ASSUME Counted, sends = <<>>, NEW d \in Dishes \ (slipped \cup torn)
               PROVE  wanted[d] = UnitsIn(cart, d) + kitchen[d]
    BY DEF NothingLost
  <2>1. ~OwnSaved
    BY DEF OwnSaved
  <2>2. kitchen[d] \in Nat /\ UnitsIn(cart, d) \in Nat
    BY CountTypes DEF Counted
  <2>3. QED
    BY <2>1, <2>2 DEF Counted, DishesAccounted
<1>4. QED
  BY <1>1, <1>2, <1>3, PTL DEF Spec
=============================================================================
