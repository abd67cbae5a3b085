------------------------------- MODULE MCBill -------------------------------
(* Instances of Bill for TLC.  The service of one cup for 0.65 is rounded up to 0.07, *)
(* and both add up to 0.72; of two cups, the doubles 1.3 and 0.13 add up to           *)
(* 1.4300000000000002.                                                                *)
EXTENDS Bill
CONSTANTS tea
Prices == [d \in Dishes |-> 65]
TwoTeas == <<[d \in Dishes |-> 2]>>
OneTea == [d \in Dishes |-> 1]
=============================================================================
