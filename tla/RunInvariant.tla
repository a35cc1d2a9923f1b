---------------------------- MODULE RunInvariant ----------------------------
(***************************************************************************)
(* The inductive invariant of RunLifecycle: what makes its coroutines safe  *)
(* at every interleaving point.  A coroutine that may still move a Run (its *)
(* holder) is alone as long as the Run has not ended; what it read is       *)
(* either the stored record or an older version of it; and a cancellation   *)
(* on record is signalled to whoever could still publish a result.          *)
(***************************************************************************)
EXTENDS RunLifecycle

Resting == {"idle", "none", "gone"}

\* Who may still queue, start, execute, fail or settle its Run.
Holding == {"created", "queue", "queued", "spawn", "resumed",
            "guard", "prepare", "prep_load", "prep_save", "prep_check",
            "load", "select", "start", "started", "graph", "fail_load", "fail_start",
            "settle_load", "settle_start", "settle_started", "settle_spend",
            "apply_lock", "apply_save"}

\* Who executes the graph of its Run or writes what it returned.
Busy       == {"started", "resumed", "graph", "settle_started", "settle_spend", "apply_save"}
Cancelling == {"cancel_mark", "cancel_try", "cancel_reload", "cancel_record"}
Announcing == {"checkpoint", "budget", "result", "outcome"}

Stored(p) == repo[Run(p)]
Ended(r)  == repo[r].status \in Terminal

\* Every coroutine under way serves a Run, and a background task its own.
Placed ==
    /\ \A c \in Callers : pc[c] \notin Resting => Run(c) \in Runs
    /\ \A r \in Runs : pc[r] \notin Resting => Run(r) = r

\* What holds of a coroutine by itself, given the shared state.
Fresh(p) ==
    /\ Snap(p).version <= Stored(p).version
    /\ Snap(p).version = Stored(p).version => Snap(p) = Stored(p)

Locks(p) == pc[p] \in Cancelling \cup {"apply_save"} => stateLock = p

Holds(p) == pc[p] \in Holding => Stored(p).status \notin Waiting \cup {"absent"}

Applies(p) ==
    pc[p] = "apply_save" =>
        /\ Snap(p) = Stored(p) /\ ~Ended(Run(p))
        /\ Run(p) \in cancelled => job[p].target = "cancelled"

Knows(p) ==
    /\ pc[p] \in {"match", "resume"} => Snap(p).status = "waiting_input"
    /\ pc[p] \in {"cancel_record", "settle_charge"} => Ended(Run(p))
    /\ pc[p] = "result" => job[p].target = "succeeded"
    /\ pc[p] \in Announcing /\ job[p].target \in Terminal => Ended(Run(p))

Signalled(p) ==
    /\ pc[p] \in Holding \cup Announcing \cup {"resume"} /\ Run(p) \in Accepted
          => Run(p) \in cancelled
    /\ pc[p] \in Cancelling => Run(p) \in cancelled /\ Stored(p).status # "absent"

Local(p) ==
    pc[p] \notin Resting =>
        Fresh(p) /\ Locks(p) /\ Holds(p) /\ Applies(p) /\ Knows(p) /\ Signalled(p)

\* What holds of a Run by itself.
Sound(r) ==
    /\ repo[r].version = 0 \/ repo[r].status = "absent" => repo[r] = Absent
    /\ r \in hubClosed => Ended(r)
    /\ r \in Accepted => repo[r].status # "absent"
    /\ r \in Accepted /\ question[r] # 0 => r \in cancelled

\* Two coroutines with the same Run: one of them no longer holds it or it has
\* ended, and never are both busy with it.
Apart(p, q) ==
    pc[p] \notin Resting /\ pc[q] \notin Resting /\ Run(p) = Run(q) /\ p # q =>
        /\ pc[p] \in Holding /\ pc[q] \in Holding => Ended(Run(p))
        /\ ~(pc[p] \in Busy /\ pc[q] \in Busy)

IInv ==
    /\ \A p \in Procs : Local(p)
    /\ \A r \in Runs : Sound(r)
    /\ \A p, q \in Procs : Apart(p, q)

=============================================================================
