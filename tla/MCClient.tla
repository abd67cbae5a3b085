------------------------------ MODULE MCClient ------------------------------
(* Instances of Client for TLC. *)
EXTENDS Client
CONSTANTS w, v, c, o1, i1
OneOfEach == [u \in Users |-> IF u = c THEN "kitchen" ELSE "waiter"]
ByTheFirst == [o \in Orders |-> w]
=============================================================================
