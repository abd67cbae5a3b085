------------------------------- MODULE PrintJobs -------------------------------
(***************************************************************************)
(* What the print queue promises about each job, without leases, clocks or *)
(* requests (README.md: queued -> processing -> completed | failed): a     *)
(* job waits, is taken by one holder with a ticket, and is either given    *)
(* back to the queue or finished for good by the ticket it was taken with. *)
(***************************************************************************)
CONSTANTS JobIds, Tickets, None

VARIABLES state, ticket

vars == <<state, ticket>>

Moves(j, from, to, t) ==
    /\ state[j] \in from
    /\ state'[j] = to
    /\ ticket'[j] = t

Submitted(j) == ticket[j] = None /\ Moves(j, {"absent"}, "queued", None)

Taken(j) ==
    \E t \in Tickets :
        /\ ticket[j] = None
        /\ \A i \in JobIds : ticket[i] # t
        /\ Moves(j, {"queued"}, "processing", t)

Returned(j) == ticket[j] # None /\ Moves(j, {"processing"}, "queued", None)

Finished(j) ==
    /\ ticket[j] # None
    /\ \E end \in {"completed", "failed"} : Moves(j, {"processing"}, end, None)

Untouched(j) == Moves(j, {state[j]}, state[j], ticket[j])

Init ==
    /\ state = [j \in JobIds |-> "absent"]
    /\ ticket = [j \in JobIds |-> None]

\* One commit may give several jobs back and take another one.
Next == \A j \in JobIds :
    Submitted(j) \/ Taken(j) \/ Returned(j) \/ Finished(j) \/ Untouched(j)

Spec == Init /\ [][Next]_vars

=============================================================================
