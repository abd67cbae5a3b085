------------------------------- MODULE MCOrders -------------------------------
(* Instances of Orders for TLC: each configuration picks its users, tables   *)
(* and keys among these model values.                                        *)
EXTENDS Orders

CONSTANTS w1, w2, m1, c1, t1, t2, k1

\* Waiters and tables differ in nothing but their names.
Symmetric == Permutations({w1, w2}) \cup Permutations({t1, t2})

=============================================================================
