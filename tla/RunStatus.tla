----------------------------- MODULE RunStatus -----------------------------
(***************************************************************************)
(* The status machine of a Run (core/run.py, RUN_STATUS_TRANSITIONS), which *)
(* every component that moves a Run obeys through RunRecord.transition.     *)
(* "absent" is the status of a request whose Run was never inserted.        *)
(***************************************************************************)

Waiting  == {"waiting_tool", "waiting_input", "waiting_approval"}
Terminal == {"succeeded", "failed", "cancelled", "timed_out"}
Status   == {"absent", "created", "queued", "running"} \cup Waiting \cup Terminal

\* The statuses RUN_STATUS_TRANSITIONS allows after s.
Successors(s) ==
    CASE s = "absent"   -> {"created"}
      [] s = "created"  -> {"queued", "cancelled"}
      [] s = "queued"   -> {"running", "failed", "cancelled", "timed_out"}
      [] s = "running"  -> Waiting \cup Terminal
      [] s \in Waiting  -> {"running", "failed", "cancelled", "timed_out"}
      [] s \in Terminal -> {}

=============================================================================
