----------------------------- MODULE RunHistory -----------------------------
(***************************************************************************)
(* A second inductive invariant of RunLifecycle, relative to RunInvariant:  *)
(* what a coroutine at a given step may find in the repository, in the      *)
(* checkpoint and among the preparations held back, what the event log of   *)
(* its Run tells, and how often a cancellation may still be overtaken.      *)
(***************************************************************************)
EXTENDS RunInvariant

\* The statuses a holder may find its Run in; a cancellation is always possible.
Before == {"created", "queue"}
Queued == {"queued", "spawn", "guard", "prepare", "prep_load", "prep_save", "prep_check",
           "load", "select", "start", "fail_start", "settle_start"}
Active == {"resumed", "started", "graph", "settle_started", "settle_spend"}

Phase(p) ==
    LET now == Stored(p).status IN
    /\ pc[p] \in Before => now \in {"created", "cancelled"}
    /\ pc[p] \in Queued => now \in {"queued", "cancelled"}
    /\ pc[p] \in Active => now \in {"running", "cancelled"}
    /\ pc[p] = "settle_load" => now \in {"queued", "running", "cancelled"}
    /\ pc[p] \in {"apply_lock", "apply_save"} => now \in {"running"} \cup Terminal
    /\ pc[p] = "fail_load" => now \in {"queued", "running"} \cup Terminal

\* Who has yet to pay for the preparation, who holds its usage back, and who
\* carries it.
Unpaid   == Before \cup {"queued", "spawn", "guard", "prepare"}
Withheld == {"prep_check", "load", "select", "start", "started", "resumed", "graph",
             "fail_load", "fail_start"}
Carried  == {"settle_load", "settle_start", "settle_started", "settle_spend",
             "apply_lock", "apply_save"}

Usage(p) ==
    Run(p) \in reported /\ ~Ended(Run(p)) =>
        /\ pc[p] \notin Unpaid
        /\ pc[p] \in Withheld => Run(p) \in prefix
        /\ pc[p] \in Carried => Counted(p)

\* Who writes what it read finds it as it read it.
Informed(p) ==
    pc[p] \in {"prep_save", "settle_start", "settle_started", "settle_spend"} /\ ~Ended(Run(p))
        => Snap(p) = Stored(p)

\* What a coroutine knows of the checkpoint, and of the target it failed with.
Failing == {"fail_start", "settle_load", "settle_start", "settle_started", "settle_spend"}

Questions(p) ==
    /\ pc[p] = "resume" => question[Run(p)] # 0
    /\ pc[p] \in {"started", "resumed", "graph"} /\ ~Ended(Run(p))
          => asked[Run(p)] <= question[Run(p)]
    /\ pc[p] \in {"apply_lock", "apply_save"} /\ job[p].target = "waiting_input"
       /\ ~Ended(Run(p)) => asked[Run(p)] < question[Run(p)]
    /\ pc[p] \in Failing => job[p].target # "waiting_input"

\* All of this of one coroutine.
Fits(p) == Phase(p) /\ Usage(p) /\ Informed(p) /\ Questions(p)

\* The resumptions of a Run, the one that is being recorded included.
Resuming(r) == \E p \in Procs : Run(p) = r /\ pc[p] = "resumed"
Resumed(r)  == Cardinality(Positions(r, {"run_resumed"})) + (IF Resuming(r) THEN 1 ELSE 0)

Counts(r) ==
    /\ Resumed(r) <= asked[r]
    /\ repo[r].status = "waiting_input" => Resumed(r) < asked[r]
    /\ repo[r].status \in {"absent", "created", "queued"} =>
          Resumed(r) = 0 /\ question[r] = 0 /\ asked[r] = 0
    /\ repo[r].status = "absent" => r \notin reported
    /\ question[r] # 0 /\ ~Ended(r) => asked[r] <= question[r]
    /\ question[r] # 0 /\ r \in reported /\ ~Ended(r) => r \in prefix
    /\ r \in reported /\ Ended(r) /\ repo[r].status # "cancelled" => repo[r].counted

Course ==
    /\ \A p \in Procs : pc[p] \notin Resting => Fits(p)
    /\ \A r \in Runs : Counts(r)

-----------------------------------------------------------------------------
\* Who still has to record the end of its Run.
Owing(p) == pc[p] = "cancel_record" \/ (pc[p] \in Announcing /\ job[p].target \in Terminal)

Told ==
    /\ \A r \in Runs : ~Ended(r) => Positions(r, Terminal) = {}
    /\ \A p \in Procs : Owing(p) =>
          /\ Positions(Run(p), Terminal) = {}
          /\ Stored(p).status = IF pc[p] = "cancel_record" THEN "cancelled" ELSE job[p].target
    /\ \A p, q \in Procs : Owing(p) /\ Owing(q) /\ Run(p) = Run(q) => p = q
    /\ OneOutcome

-----------------------------------------------------------------------------
\* How often a coroutine may still write its Run without the state lock, once a
\* cancellation has been signalled and as long as the Run has not ended.
Starting == {"created", "queue", "queued", "spawn", "guard", "prepare", "prep_load",
             "prep_save", "load", "select", "start", "fail_load", "fail_start",
             "settle_load", "settle_start"}
Spending(p)  == \/ pc[p] \in {"prepare", "prep_load", "prep_save", "settle_spend"}
                \/ pc[p] \in {"settle_load", "settle_start", "settle_started"} /\ job[p].charged
Launching(p) == pc[p] \in Starting /\ Stored(p).status # "running"

One(condition) == IF condition THEN 1 ELSE 0
Left(p) == One(Spending(p)) + One(Launching(p)) + One(pc[p] \in Before)

\* How often a cancellation has been overtaken.
Overtaken(c) ==
    job[c].tries + One(pc[c] # "cancel_reload" /\ Snap(c).version # Stored(c).version)

Patient(c) ==
    pc[c] \in Cancelling \ {"cancel_record"} /\ ~Ended(Run(c)) =>
        /\ pc[c] # "cancel_reload" => Snap(c).status \notin Terminal \cup {"absent"}
        /\ Stored(c).status \in Waiting => Overtaken(c) = 0 /\ pc[c] # "cancel_reload"
        /\ Overtaken(c) <= 2
        /\ \A p \in Procs : pc[p] \notin Resting /\ Run(p) = Run(c) => Overtaken(c) + Left(p) <= 2

Patience == \A c \in Callers : Patient(c)

=============================================================================
