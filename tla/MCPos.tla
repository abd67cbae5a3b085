-------------------------------- MODULE MCPos --------------------------------
(* Instances of Pos for TLC: two orders at one table; each configuration     *)
(* chooses how many API processes and thread-pool requests there are.        *)
EXTENDS Pos

CONSTANTS l1, l2, h1, h2, o1, o2, t1

TheTable == [o \in OrderIds |-> t1]

\* 5 and 3 hundredths: small, and odd so that half of either has to be rounded.
Amounts == [o \in OrderIds |-> IF o = o1 THEN 5 ELSE 3]

OneOff == [type |-> "amount", value |-> 1]
HalfOff == [type |-> "percent", value |-> 5000]
ThirdOff == [type |-> "percent", value |-> 3333]

JustOne == {OneOff}
AllKinds == {OneOff, HalfOff, ThirdOff}

Symmetric == Permutations(Loops) \cup Permutations(Threads)

=============================================================================
