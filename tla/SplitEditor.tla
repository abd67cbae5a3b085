---------------------------- MODULE SplitEditor -----------------------------
(***************************************************************************)
(* The table in which a waiter shares the units of a bill's items over     *)
(* checks (frontend/src/screens/TableSession.tsx, checkQtys): a sequence   *)
(* of checks, each a function from the items to the units it takes.        *)
(***************************************************************************)
EXTENDS Integers, SequencesExt

\* How many units of item i all checks take together.
Shared(checks, i) == SumFunction([c \in DOMAIN checks |-> checks[c][i]])

\* The first check starts with everything, the second with nothing.
EmptyCheck(qty) == [i \in DOMAIN qty |-> 0]
Entered(qty) == <<qty, EmptyCheck(qty)>>

addCheck(checks, qty) == Append(checks, EmptyCheck(qty))

\* A removed check gives its units to the first one left; two checks stay.
DropCheck(checks, c) ==
    IF Len(checks) <= 2 THEN checks ELSE RemoveAt(checks, c)
removeCheck(checks, c) ==
    IF Len(checks) <= 2 THEN checks
    ELSE LET next == RemoveAt(checks, c)
         IN  [next EXCEPT ![1] = [i \in DOMAIN checks[c] |-> next[1][i] + checks[c][i]]]

\* Units u of item i go from one check to another.
Moved(checks, from, to, i, u) ==
    [c \in DOMAIN checks |->
        CASE c = to   -> [checks[c] EXCEPT ![i] = @ + u]
          [] c = from -> [checks[c] EXCEPT ![i] = @ - u]
          [] OTHER    -> checks[c]]

\* The first check, or for that one the second, takes and gives by default.
Primary(c) == IF c = 1 THEN 2 ELSE 1

\* "+" takes a unit from the first of the other checks that have most of it.
Donor(checks, c, i) ==
    CHOOSE d \in DOMAIN checks \ {c} :
        \A e \in DOMAIN checks \ {c} :
            \/ checks[e][i] < checks[d][i]
            \/ checks[e][i] = checks[d][i] /\ d <= e
incr(checks, c, i) ==
    LET donor == Donor(checks, c, i)
    IN  IF checks[donor][i] = 0 THEN checks ELSE Moved(checks, donor, c, i, 1)

decr(checks, c, i) ==
    IF checks[c][i] = 0 THEN checks ELSE Moved(checks, c, Primary(c), i, 1)

\* A number typed for a check is cut to what the checks other than it and the
\* primary one leave; the primary one gets the rest.
Clamp(lo, hi, v) == IF v > hi THEN (IF hi < lo THEN lo ELSE hi) ELSE IF v < lo THEN lo ELSE v
handleInput(checks, c, i, v, qty) ==
    LET fixed == Shared(checks, i) - checks[c][i] - checks[Primary(c)][i]
        new == Clamp(0, qty[i] - fixed, v)
        rest == Clamp(0, qty[i], qty[i] - fixed - new)
    IN  [k \in DOMAIN checks |->
            CASE k = c          -> [checks[k] EXCEPT ![i] = new]
              [] k = Primary(c) -> [checks[k] EXCEPT ![i] = rest]
              [] OTHER          -> checks[k]]

=============================================================================
