---------------------------- MODULE RunContract ----------------------------
(***************************************************************************)
(* What the Harness promises about Runs, whatever coroutines serve them:    *)
(* a Run follows the status machine, a terminal status is final, and once   *)
(* a cancellation is accepted the Run may only be started or cancelled - a  *)
(* late graph result never overrides it (harness/service.py:763 and :1092). *)
(***************************************************************************)
EXTENDS RunStatus

CONSTANT Runs

VARIABLES
    status,     \* [Runs -> Status]: the authoritative status of each Run
    accepted    \* the Runs whose cancellation has been accepted

cvars == <<status, accepted>>

Init ==
    /\ status = [r \in Runs |-> "absent"]
    /\ accepted = {}

Move(r, s) ==
    /\ s \in Successors(status[r])
    /\ r \in accepted => s \in {"queued", "running", "cancelled"}
    /\ status' = [status EXCEPT ![r] = s]
    /\ UNCHANGED accepted

Accept(r) ==
    /\ status[r] # "absent"
    /\ r \notin accepted
    /\ accepted' = accepted \cup {r}
    /\ UNCHANGED status

Next == \E r \in Runs : Accept(r) \/ \E s \in Status : Move(r, s)

Spec == Init /\ [][Next]_cvars

=============================================================================
