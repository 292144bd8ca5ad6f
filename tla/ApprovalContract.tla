-------------------------- MODULE ApprovalContract --------------------------
(***************************************************************************)
(* What the approval broker promises about every request, without daemons, *)
(* pages, handlers or time: which status changes are possible at all, that *)
(* nothing is executed, applied or approved without a verified assertion,  *)
(* and that nothing is reported completed that was not applied.            *)
(***************************************************************************)
CONSTANTS Requests

VARIABLES
    status,     \* Requests -> status
    asserted,   \* the requests an operator's assertion was verified for
    applied     \* the requests whose action took effect

Status == {"none", "pending", "executing", "approved", "denied", "expired",
           "completed"}
Unsettled == {"pending", "executing"}

Init ==
    /\ status = [r \in Requests |-> "none"]
    /\ asserted = {}
    /\ applied = {}

\* The status changes a request may make.
Change(r, new) ==
    \/ status[r] = "none" /\ new = "pending"
    \/ status[r] = "pending" /\ new = "executing" /\ r \in asserted
    \/ status[r] = "executing" /\ new = "pending"
    \/ status[r] = "pending" /\ new = "expired"
    \/ status[r] \in Unsettled /\ new = "denied"
    \/ status[r] \in Unsettled /\ new = "approved" /\ r \in asserted
    \/ status[r] \in Unsettled /\ new = "completed" /\ r \in applied

\* One step may change several requests: every transaction expires stale ones.
Next ==
    /\ status' \in [Requests -> Status]
    /\ \A r \in Requests : status'[r] = status[r] \/ Change(r, status'[r])
    /\ asserted \subseteq asserted'
    /\ \A r \in asserted' \ asserted : status[r] # "none"
    /\ applied \subseteq applied'
    /\ applied' \ applied \subseteq asserted

Spec == Init /\ [][Next]_<<status, asserted, applied>>
=============================================================================
