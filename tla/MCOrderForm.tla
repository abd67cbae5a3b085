---------------------------- MODULE MCOrderForm ----------------------------
(* Instances of OrderForm for TLC. *)
EXTENDS OrderForm
CONSTANTS tea, cake, noNote, hot
=============================================================================
