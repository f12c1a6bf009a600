--------------------------- MODULE EventDelivery ---------------------------
(***************************************************************************)
(* What the planning-event pipeline promises: an event a request handler   *)
(* has handed over reaches the collection of statistics unless the process *)
(* ends, and the workers are only retired when every event handed over has *)
(* done so.                                                                *)
(***************************************************************************)
CONSTANT Request

VARIABLES
    offered,    \* requests whose event was handed over
    delivered,  \* requests whose event was collected
    retired,    \* the workers are gone
    up          \* the process has not ended

vars == <<offered, delivered, retired, up>>

Init == offered = {} /\ delivered = {} /\ retired = FALSE /\ up = TRUE

Offer(r) ==
    /\ up
    /\ ~ retired
    /\ r \notin offered
    /\ offered' = offered \cup {r}
    /\ UNCHANGED <<delivered, retired, up>>

Deliver(r) ==
    /\ up
    /\ r \in offered \ delivered
    /\ delivered' = delivered \cup {r}
    /\ UNCHANGED <<offered, retired, up>>

Retire ==
    /\ up
    /\ ~ retired
    /\ delivered = offered
    /\ retired' = TRUE
    /\ UNCHANGED <<offered, delivered, up>>

Stop ==
    /\ up
    /\ up' = FALSE
    /\ UNCHANGED <<offered, delivered, retired>>

Next == Retire \/ Stop \/ \E r \in Request : Offer(r) \/ Deliver(r)

SafeSpec == Init /\ [][Next]_vars

Spec == SafeSpec /\ \A r \in Request : WF_vars(Deliver(r))
============================================================================
