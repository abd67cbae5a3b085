------------------------------ MODULE Workflow ------------------------------
(***************************************************************************)
(* The statuses of orders and tables and the order workflow, as the order  *)
(* handlers and the cash desk share them (app/models.py,                   *)
(* app/routers/orders.py).                                                 *)
(***************************************************************************)

ActiveStatuses == {"pending", "in_progress", "ready", "served"}
FinalStatuses == {"paid", "cancelled"}
OrderStatuses == ActiveStatuses \cup FinalStatuses
TableStatuses == {"free", "occupied", "reserved", "cleaning"}

TRANSITIONS ==
    [pending     |-> {"in_progress", "cancelled"},
     in_progress |-> {"ready", "cancelled"},
     ready       |-> {"served", "cancelled"},
     served      |-> {"paid", "cancelled"},
     paid        |-> {},
     cancelled   |-> {}]

=============================================================================
