---------------------------- MODULE RunLifecycle ----------------------------
(***************************************************************************)
(* The Run lifecycle of the Agent Harness (harness/service.py): coroutines  *)
(* of API callers and of background tasks create, prepare, execute, resume, *)
(* cancel and settle Runs.  They share the Run repository (compare-and-swap *)
(* on a version), the append-only event store, the in-process cancellation  *)
(* set, one state lock and the set of closed event streams.  Every await    *)
(* is an interleaving point, so each repository or event-store call is one  *)
(* action.  A restart of the process loses what is not in the database.     *)
(***************************************************************************)
EXTENDS RunStatus, Naturals, Sequences, FiniteSets

CONSTANTS
    Runs,         \* one Run per request id; the process r \in Runs is its background task
    Callers,      \* coroutines that serve API requests, one request at a time
    None,         \* no process, no Run
    MaxWaits,     \* bound: how often the graph of a Run may ask for input
    MaxRestarts   \* bound: restarts of the process

ASSUME ProcessesDistinct == Runs \cap Callers = {} /\ None \notin Runs \cup Callers
ASSUME BoundsNatural == MaxWaits \in Nat /\ MaxRestarts \in Nat

VARIABLES
    repo,        \* [Runs -> Record]: the repository, status "absent" before the insert
    log,         \* [Runs -> Seq(Event)]: the event store
    cancelled,   \* the Runs with a cancellation signal in this process
    stateLock,   \* the holder of _run_state_lock, or None
    hubClosed,   \* the Runs whose event stream has ended
    prefix,      \* the Runs whose preparation usage is held in _pipeline_usage
    question,    \* [Runs -> Nat]: the question in the stored checkpoint, 0 when there is none
    asked,       \* [Runs -> Nat]: the questions a client has seen
    reported,    \* the Runs whose preparation handed over the usage it paid for
    lost,        \* the Runs whose preparation paid and whose error says nothing of it
    pc, job,     \* where each coroutine is, and its local variables
    restarts

vars == <<repo, log, cancelled, stateLock, hubClosed, prefix, question, asked,
          reported, lost, pc, job, restarts>>

(* An operator Faulty... is a slip the code could have made in the operator *)
(* that follows it: the properties below are known to notice them.          *)

Procs    == Runs \cup Callers
Outcomes == Terminal \cup {"waiting_input"}

FaultyCancellable == {"created", "queued"}
Cancellable       == {"created", "queued", "waiting_input"}

FaultyCancelTries == 2
CancelTries       == 3

\* The outcome event run_<status> is recorded in the log as that status.
Event == Outcomes \cup
    {"run_created", "run_queued", "strategy_selected", "run_started", "run_resumed",
     "run_cancel_requested", "checkpoint_saved", "budget_exhausted"}

\* counted: the stored usage includes what the preparation reported.
Record == [status : Status, version : Nat, counted : BOOLEAN]
Absent == [status |-> "absent", version |-> 0, counted |-> FALSE]

\* snap: the Run as this coroutine last read or wrote it; charged: the usage of
\* the error or result it carries includes the preparation; answer: the question
\* a resume request answers.
Job   == [run : Runs \cup {None}, mode : {"direct", "prepare", "execute"}, snap : Record,
          target : Outcomes, charged : BOOLEAN, answer : Nat, tries : Nat]
NoJob == [run |-> None, mode |-> "direct", snap |-> Absent, target |-> "failed",
          charged |-> FALSE, answer |-> 0, tries |-> 0]

Step == {"idle", "insert", "created", "queue", "queued", "spawn",
         "match", "resume", "resumed",
         "cancel_mark", "cancel_try", "cancel_reload", "cancel_record",
         "none", "gone", "guard", "prepare", "prep_load", "prep_save", "prep_check",
         "load", "select", "start", "started", "graph", "fail_load", "fail_start",
         "settle_load", "settle_charge", "settle_start", "settle_started", "settle_spend",
         "apply_lock", "apply_save", "checkpoint", "budget", "result", "outcome"}

Init ==
    /\ repo = [r \in Runs |-> Absent]
    /\ log = [r \in Runs |-> <<>>]
    /\ cancelled = {} /\ hubClosed = {} /\ prefix = {}
    /\ reported = {} /\ lost = {}
    /\ stateLock = None
    /\ question = [r \in Runs |-> 0]
    /\ asked = [r \in Runs |-> 0]
    /\ pc = [p \in Procs |-> IF p \in Runs THEN "none" ELSE "idle"]
    /\ job = [p \in Procs |-> NoJob]
    /\ restarts = 0

-----------------------------------------------------------------------------
(* What the handlers are made of. *)

Run(p)  == job[p].run
Snap(p) == job[p].snap

Goto(p, step)    == pc' = [pc EXCEPT ![p] = step]
Become(p, j)     == job' = [job EXCEPT ![p] = j]
With(p, step, j) == Goto(p, step) /\ Become(p, j)
Finish(p)        == With(p, IF p \in Runs THEN "gone" ELSE "idle", NoJob)

Emit(p, event) == log' = [log EXCEPT ![Run(p)] = Append(@, event)]

\* The version condition of save holds; with RunRecord.transition's own check.
FaultyIsCurrent(p) == TRUE
IsCurrent(p)       == repo[Run(p)].version = Snap(p).version
Saves(p, s)        == IsCurrent(p) /\ s \in Successors(Snap(p).status)

\* The next version of the Run as the coroutine knows it.
Revised(p, s, c)       == [status |-> s, version |-> Snap(p).version + 1, counted |-> c]
Save(p, rec)           == repo' = [repo EXCEPT ![Run(p)] = rec]

\* A background error reaches _settle_background_failure with this target.
Settle(p, target, charged) ==
    With(p, "settle_load", [job[p] EXCEPT !.target = target, !.charged = charged])

\* An error inside it: the pipeline's own handler settles once more.
SettleRaises(p) ==
    IF job[p].mode = "execute"
      THEN With(p, "settle_load", [job[p] EXCEPT !.mode = "prepare", !.target = "failed",
                                                 !.charged = FALSE])
      ELSE Finish(p)

\* An error of the graph or of its result, in a task and in a resume request.
FaultyApplyRaises(p) == Finish(p)
ApplyRaises(p) ==
    IF p \in Runs
      THEN With(p, "fail_load", [job[p] EXCEPT !.target = "failed", !.charged = FALSE])
      ELSE With(p, "apply_lock", [job[p] EXCEPT !.target = "failed"])

rest == <<asked, reported, lost, restarts>>
mem  == <<cancelled, stateLock, hubClosed, prefix, question>>

\* asyncio.Lock: nobody holds the state lock.
FaultyLockFree(p) == TRUE
LockFree(p)       == stateLock = None

\* The status a graph result asks for, unless a cancellation was accepted.
FaultyDecided(p, s) == s
Decided(p, s)       == IF Run(p) \in cancelled THEN "cancelled" ELSE s

\* The usage of a result includes the preparation: held back, or its own.
FaultyCounted(p) == job[p].charged
Counted(p)       == Run(p) \in prefix \/ job[p].charged

-----------------------------------------------------------------------------
(* Creating a Run. *)

\* get_by_request_id found nothing; an existing Run is returned as it is.
LookupRequest(c, r) ==
    /\ pc[c] = "idle" /\ repo[r].status = "absent"
    /\ With(c, "insert", [NoJob EXCEPT !.run = r])
    /\ UNCHANGED <<repo, log, mem, rest>>

\* create() refuses a duplicate request id; the loser returns the winner's Run.
InsertRun(c) ==
    /\ pc[c] = "insert"
    /\ IF repo[Run(c)].status = "absent"
         THEN LET new == [Absent EXCEPT !.status = "created", !.version = 1] IN
              Save(c, new) /\ With(c, "created", [job[c] EXCEPT !.snap = new])
         ELSE UNCHANGED repo /\ Finish(c)
    /\ UNCHANGED <<log, mem, rest>>

RecordCreated(c) ==
    /\ pc[c] = "created"
    /\ Emit(c, "run_created") /\ Goto(c, "queue")
    /\ UNCHANGED <<repo, job, mem, rest>>

QueueRun(c) ==
    /\ pc[c] = "queue"
    /\ IF Saves(c, "queued")
         THEN LET rec == Revised(c, "queued", Snap(c).counted) IN
              Save(c, rec) /\ With(c, "queued", [job[c] EXCEPT !.snap = rec])
         ELSE UNCHANGED repo /\ Finish(c)
    /\ UNCHANGED <<log, mem, rest>>

RecordQueued(c) ==
    /\ pc[c] = "queued"
    /\ Emit(c, "run_queued") /\ Goto(c, "spawn")
    /\ UNCHANGED <<repo, job, mem, rest>>

\* create_and_schedule executes at once, create_and_schedule_pipeline prepares first.
SpawnTask(c, mode) ==
    LET r == Run(c) IN
    /\ pc[c] = "spawn"
    /\ pc' = [pc EXCEPT ![c] = "idle", ![r] = IF mode = "direct" THEN "load" ELSE "guard"]
    /\ job' = [job EXCEPT ![c] = NoJob, ![r] = [NoJob EXCEPT !.run = r, !.mode = mode]]
    /\ UNCHANGED <<repo, log, mem, rest>>

-----------------------------------------------------------------------------
(* The pipeline's preparation, in the background task r. *)

\* The budget check, then the cancellation check, before any model call.
PrepareGuard(r) ==
    /\ pc[r] = "guard"
    /\ \/ Settle(r, "timed_out", FALSE)
       \/ r \in cancelled /\ Settle(r, "cancelled", FALSE)
       \/ r \notin cancelled /\ Goto(r, "prepare") /\ UNCHANGED job
    /\ UNCHANGED <<repo, log, mem, rest>>

PrepareReturns(r) ==
    /\ pc[r] = "prepare"
    /\ reported' = reported \cup {r}
    /\ Goto(r, "prep_load")
    /\ UNCHANGED <<repo, log, job, mem, asked, lost, restarts>>

\* An error of the preparation, or a result refused in the same step.  It carries
\* the usage of the calls made before it, or there were none, or their usage is
\* lost: the resolver, the submission and the checks of the result know of none.
PrepareFails(r) ==
    /\ pc[r] = "prepare"
    /\ \E target \in {"failed", "timed_out", "cancelled"}, paid, carried \in BOOLEAN :
         /\ target = "cancelled" => r \in cancelled
         /\ carried => paid
         /\ reported' = IF carried THEN reported \cup {r} ELSE reported
         /\ lost' = IF paid /\ ~carried THEN lost \cup {r} ELSE lost
         /\ Settle(r, target, carried)
    /\ UNCHANGED <<repo, log, mem, asked, restarts>>

\* Reads the Run again and charges its budget, which may exhaust it.
PrepareLoad(r) ==
    /\ pc[r] = "prep_load"
    /\ \/ With(r, "prep_save", [job[r] EXCEPT !.snap = repo[r]])
       \/ Settle(r, "timed_out", TRUE)
    /\ UNCHANGED <<repo, log, mem, rest>>

PrepareSave(r) ==
    /\ pc[r] = "prep_save"
    /\ IF IsCurrent(r)
         THEN LET rec == Revised(r, Snap(r).status, TRUE) IN
              /\ Save(r, rec)
              /\ prefix' = prefix \cup {r}
              /\ With(r, "prep_check", [job[r] EXCEPT !.snap = rec])
         ELSE UNCHANGED <<repo, prefix>> /\ Settle(r, "failed", FALSE)
    /\ UNCHANGED <<log, cancelled, stateLock, hubClosed, question, rest>>

PrepareCheck(r) ==
    /\ pc[r] = "prep_check"
    /\ IF Snap(r).status = "cancelled" \/ r \in cancelled
         THEN prefix' = prefix \ {r} /\ Finish(r)
         ELSE UNCHANGED prefix /\ With(r, "load", [job[r] EXCEPT !.mode = "execute"])
    /\ UNCHANGED <<repo, log, cancelled, stateLock, hubClosed, question, rest>>

-----------------------------------------------------------------------------
(* Executing the graph, in the background task r. *)

LoadQueued(r) ==
    /\ pc[r] = "load"
    /\ IF repo[r].status \in Terminal
         THEN Finish(r)
         ELSE With(r, "select", [job[r] EXCEPT !.snap = repo[r]])
    /\ UNCHANGED <<repo, log, mem, rest>>

SelectStrategy(r) ==
    /\ pc[r] = "select"
    /\ Emit(r, "strategy_selected")
    /\ Goto(r, "start")
    /\ UNCHANGED <<repo, job, mem, rest>>

\* The router finds no strategy: a HarnessError, settled outside.
RejectStrategy(r) ==
    /\ pc[r] = "select"
    /\ Settle(r, "failed", FALSE)
    /\ UNCHANGED <<repo, log, mem, rest>>

\* The payload does not fit the selected strategy.
RejectPayload(r) ==
    /\ pc[r] = "start"
    /\ Goto(r, "fail_load")
    /\ UNCHANGED <<repo, log, job, mem, rest>>

StartRun(r) ==
    /\ pc[r] = "start"
    /\ IF Saves(r, "running")
         THEN LET rec == Revised(r, "running", Snap(r).counted) IN
              Save(r, rec) /\ With(r, "started", [job[r] EXCEPT !.snap = rec])
         ELSE UNCHANGED <<repo, job>> /\ Goto(r, "fail_load")
    /\ UNCHANGED <<log, mem, rest>>

\* The event is stored before the stream refuses it.
RecordStarted(r) ==
    /\ pc[r] = "started"
    /\ Emit(r, "run_started")
    /\ Goto(r, IF r \in hubClosed THEN "fail_load" ELSE "graph")
    /\ UNCHANGED <<repo, job, mem, rest>>

\* execute or resume of the graph runtime: any outcome, saved in the checkpoint;
\* a cancellation requested meanwhile overrides it.
GraphReturns(p) ==
    LET r == Run(p) IN
    /\ pc[p] = "graph"
    /\ \E o \in Outcomes :
         /\ o = "waiting_input" => question[r] < MaxWaits
         /\ question' = IF o = "waiting_input" THEN [question EXCEPT ![r] = @ + 1] ELSE question
         /\ With(p, "apply_lock",
                 [job[p] EXCEPT !.target = IF r \in cancelled THEN "cancelled" ELSE o,
                                !.charged = FALSE])
    /\ UNCHANGED <<repo, log, cancelled, stateLock, hubClosed, prefix, rest>>

\* An adapter error, or (in a task) a HarnessError, which is settled outside.
GraphRaises(p) ==
    /\ pc[p] = "graph"
    /\ \/ ApplyRaises(p)
       \/ p \in Runs /\ Settle(p, "failed", FALSE)
    /\ UNCHANGED <<repo, log, mem, rest>>

FailLoad(r) ==
    /\ pc[r] = "fail_load"
    /\ IF repo[r].status \in Terminal
         THEN Finish(r)
         ELSE With(r, IF repo[r].status = "running" THEN "apply_lock" ELSE "fail_start",
                   [job[r] EXCEPT !.snap = repo[r], !.target = "failed"])
    /\ UNCHANGED <<repo, log, mem, rest>>

FailStart(r) ==
    /\ pc[r] = "fail_start"
    /\ IF Saves(r, "running")
         THEN LET rec == Revised(r, "running", Snap(r).counted) IN
              Save(r, rec) /\ With(r, "apply_lock", [job[r] EXCEPT !.snap = rec])
         ELSE UNCHANGED repo /\ Settle(r, "failed", FALSE)
    /\ UNCHANGED <<log, mem, rest>>

-----------------------------------------------------------------------------
(* _apply_graph_result: the new status is decided and saved under the lock. *)

ApplyLock(p) ==
    LET r == Run(p) IN
    /\ pc[p] = "apply_lock" /\ LockFree(p)
    /\ IF repo[r].status \in Terminal
         THEN UNCHANGED stateLock /\ Finish(p)
         ELSE /\ stateLock' = p
              /\ With(p, "apply_save", [job[p] EXCEPT !.snap = repo[r],
                                                      !.target = Decided(p, @)])
    /\ UNCHANGED <<repo, log, cancelled, hubClosed, prefix, question, rest>>

\* The usage written is that of the result plus the preparation's, if still held.
ApplySave(p) ==
    LET r   == Run(p)
        rec == Revised(p, job[p].target, Counted(p))
    IN
    /\ pc[p] = "apply_save"
    /\ stateLock' = None
    /\ IF Saves(p, job[p].target)
         THEN /\ Save(p, rec)
              /\ With(p, "checkpoint", [job[p] EXCEPT !.snap = rec])
              /\ asked' = IF job[p].target = "waiting_input"
                            THEN [asked EXCEPT ![r] = question[r]] ELSE asked
         ELSE UNCHANGED <<repo, asked>> /\ ApplyRaises(p)
    /\ UNCHANGED <<log, cancelled, hubClosed, prefix, question, reported, lost, restarts>>

RecordCheckpoint(p) ==
    /\ pc[p] = "checkpoint"
    /\ Emit(p, "checkpoint_saved")
    /\ \E step \in {"budget", "result", "outcome"} :
         /\ (step = "result") = (job[p].target = "succeeded")
         /\ step = "budget" => job[p].target \in {"failed", "timed_out"}
         /\ Goto(p, step)
    /\ UNCHANGED <<repo, job, mem, rest>>

RecordBudget(p) ==
    /\ pc[p] = "budget"
    /\ Emit(p, "budget_exhausted") /\ Goto(p, "outcome")
    /\ UNCHANGED <<repo, job, mem, rest>>

\* Streams the answer; a presentation failure rewrites the Run as degraded.
PublishResult(p) ==
    /\ pc[p] = "result"
    /\ \/ UNCHANGED <<repo, job>> /\ Goto(p, "outcome")
       \/ IF IsCurrent(p)
            THEN LET rec == Revised(p, Snap(p).status, Snap(p).counted) IN
                 Save(p, rec) /\ With(p, "outcome", [job[p] EXCEPT !.snap = rec])
            ELSE UNCHANGED repo /\ ApplyRaises(p)
    /\ UNCHANGED <<log, mem, rest>>

RecordOutcome(p) ==
    LET r     == Run(p)
        final == job[p].target \in Terminal
    IN
    /\ pc[p] = "outcome"
    /\ Emit(p, job[p].target)
    /\ IF r \in hubClosed
         THEN UNCHANGED <<hubClosed, prefix>> /\ ApplyRaises(p)
         ELSE /\ hubClosed' = IF final THEN hubClosed \cup {r} ELSE hubClosed
              /\ prefix' = IF final THEN prefix \ {r} ELSE prefix
              /\ Finish(p)
    /\ UNCHANGED <<repo, cancelled, stateLock, question, rest>>

-----------------------------------------------------------------------------
(* Resuming a waiting Run. *)

\* What a resume value must repeat: execute stores the checkpoint under a fresh
\* id, resume stores the next one under the same id, and no node changes the
\* plan revision or the fence of a waiting graph.
Binding(r, q) == [checkpoint |-> r, request |-> r, plan_revision |-> 0, fence_token |-> 0]

LoadWaiting(c, r) ==
    /\ pc[c] = "idle" /\ repo[r].status = "waiting_input"
    /\ \E q \in 1 .. asked[r] :
         With(c, "match", [NoJob EXCEPT !.run = r, !.snap = repo[r], !.answer = q])
    /\ UNCHANGED <<repo, log, mem, rest>>

MatchCheckpoint(c) ==
    LET r == Run(c) IN
    /\ pc[c] = "match"
    /\ IF question[r] # 0 /\ Binding(r, job[c].answer) = Binding(r, question[r])
         THEN Goto(c, "resume") /\ UNCHANGED job
         ELSE Finish(c)
    /\ UNCHANGED <<repo, log, mem, rest>>

ResumeRun(c) ==
    /\ pc[c] = "resume"
    /\ IF Saves(c, "running")
         THEN LET rec == Revised(c, "running", Snap(c).counted) IN
              Save(c, rec) /\ With(c, "resumed", [job[c] EXCEPT !.snap = rec])
         ELSE UNCHANGED repo /\ Finish(c)
    /\ UNCHANGED <<log, mem, rest>>

RecordResumed(c) ==
    /\ pc[c] = "resumed"
    /\ Emit(c, "run_resumed") /\ Goto(c, "graph")
    /\ UNCHANGED <<repo, job, mem, rest>>

-----------------------------------------------------------------------------
(* Cancelling: the lock is held from the first read to the last event. *)

\* The signal is raised in the step that reads the Run.  A terminal Run, and a
\* running one already signalled, are returned as they are.
CancelLoad(c, r) ==
    /\ pc[c] = "idle" /\ LockFree(c)
    /\ repo[r].status \notin Terminal \cup {"absent"}
    /\ r \notin cancelled \/ repo[r].status \in Cancellable
    /\ stateLock' = c
    /\ cancelled' = cancelled \cup {r}
    /\ With(c, IF r \in cancelled THEN "cancel_try" ELSE "cancel_mark",
            [NoJob EXCEPT !.run = r, !.snap = repo[r]])
    /\ UNCHANGED <<repo, log, hubClosed, prefix, question, rest>>

RecordCancelRequest(c) ==
    /\ pc[c] = "cancel_mark"
    /\ Emit(c, "run_cancel_requested")
    /\ IF Snap(c).status \in Cancellable
         THEN Goto(c, "cancel_try") /\ UNCHANGED <<job, stateLock>>
         ELSE Finish(c) /\ stateLock' = None
    /\ UNCHANGED <<repo, cancelled, hubClosed, prefix, question, rest>>

CancelTry(c) ==
    /\ pc[c] = "cancel_try"
    /\ IF Saves(c, "cancelled")
         THEN LET rec == Revised(c, "cancelled", Snap(c).counted) IN
              Save(c, rec) /\ With(c, "cancel_record", [job[c] EXCEPT !.snap = rec])
         ELSE UNCHANGED repo /\ With(c, "cancel_reload", [job[c] EXCEPT !.tries = @ + 1])
    /\ UNCHANGED <<log, mem, rest>>

\* After the last attempt the caller gets RUN_STATE_CONFLICT.
CancelReload(c) ==
    LET r == Run(c) IN
    /\ pc[c] = "cancel_reload"
    /\ IF repo[r].status \in Terminal \/ job[c].tries = CancelTries
         THEN Finish(c) /\ stateLock' = None
         ELSE With(c, "cancel_try", [job[c] EXCEPT !.snap = repo[r]]) /\ UNCHANGED stateLock
    /\ UNCHANGED <<repo, log, cancelled, hubClosed, prefix, question, rest>>

RecordCancelled(c) ==
    /\ pc[c] = "cancel_record"
    /\ Emit(c, "cancelled")
    /\ hubClosed' = hubClosed \cup {Run(c)}
    /\ prefix' = prefix \ {Run(c)}
    /\ stateLock' = None
    /\ Finish(c)
    /\ UNCHANGED <<repo, cancelled, question, rest>>

-----------------------------------------------------------------------------
(* _settle_background_failure, in the background task r. *)

SettleLoad(r) ==
    LET now  == repo[r].status
        owes == job[r].charged
    IN
    /\ pc[r] = "settle_load"
    /\ IF now \in Terminal /\ ~(now = "cancelled" /\ owes)
         THEN Finish(r)
         ELSE With(r, IF now = "cancelled" THEN "settle_charge"
                      ELSE IF now # "running" THEN "settle_start"
                      ELSE IF owes THEN "settle_spend" ELSE "apply_lock",
                   [job[r] EXCEPT !.snap = repo[r]])
    /\ UNCHANGED <<repo, log, mem, rest>>

\* The usage of a Run cancelled meanwhile is still recorded.
SettleCharge(r) ==
    /\ pc[r] = "settle_charge"
    /\ IF IsCurrent(r) THEN Save(r, Revised(r, Snap(r).status, TRUE)) ELSE UNCHANGED repo
    /\ Finish(r)
    /\ UNCHANGED <<log, mem, rest>>

SettleStart(r) ==
    /\ pc[r] = "settle_start"
    /\ IF Saves(r, "running")
         THEN LET rec == Revised(r, "running", Snap(r).counted) IN
              Save(r, rec) /\ With(r, "settle_started", [job[r] EXCEPT !.snap = rec])
         ELSE UNCHANGED repo /\ SettleRaises(r)
    /\ UNCHANGED <<log, mem, rest>>

RecordSettleStarted(r) ==
    /\ pc[r] = "settle_started"
    /\ Emit(r, "run_started")
    /\ IF r \in hubClosed
         THEN SettleRaises(r)
         ELSE Goto(r, IF job[r].charged THEN "settle_spend" ELSE "apply_lock") /\ UNCHANGED job
    /\ UNCHANGED <<repo, mem, rest>>

\* Charging the budget may exhaust it, which turns any target into a timeout.
SettleSpend(r) ==
    /\ pc[r] = "settle_spend"
    /\ IF IsCurrent(r)
         THEN LET rec == Revised(r, Snap(r).status, TRUE) IN
              /\ Save(r, rec)
              /\ \E target \in {job[r].target, "timed_out"} :
                   With(r, "apply_lock", [job[r] EXCEPT !.snap = rec, !.target = target])
         ELSE UNCHANGED repo /\ SettleRaises(r)
    /\ UNCHANGED <<log, mem, rest>>

-----------------------------------------------------------------------------
(* A restart of the process: repository, event store and clients survive. *)

Restart ==
    /\ restarts < MaxRestarts
    /\ restarts' = restarts + 1
    /\ pc' = [p \in Procs |-> IF p \in Callers THEN "idle"
                              ELSE IF pc[p] = "none" THEN "none" ELSE "gone"]
    /\ job' = [p \in Procs |-> NoJob]
    /\ cancelled' = {} /\ hubClosed' = {} /\ prefix' = {} /\ stateLock' = None
    /\ question' = [r \in Runs |-> 0]
    /\ UNCHANGED <<repo, log, asked, reported, lost>>

-----------------------------------------------------------------------------

\* A request arrives: nothing makes a client send one.
Request(c) ==
    \E r \in Runs : LookupRequest(c, r) \/ LoadWaiting(c, r) \/ CancelLoad(c, r)

CallerStep(c) ==
    \/ InsertRun(c) \/ RecordCreated(c) \/ QueueRun(c) \/ RecordQueued(c)
    \/ \E mode \in {"direct", "prepare"} : SpawnTask(c, mode)
    \/ MatchCheckpoint(c) \/ ResumeRun(c) \/ RecordResumed(c)
    \/ RecordCancelRequest(c) \/ CancelTry(c) \/ CancelReload(c) \/ RecordCancelled(c)

TaskStep(r) ==
    \/ PrepareGuard(r) \/ PrepareReturns(r) \/ PrepareFails(r)
    \/ PrepareLoad(r) \/ PrepareSave(r) \/ PrepareCheck(r)
    \/ LoadQueued(r) \/ SelectStrategy(r) \/ RejectStrategy(r) \/ RejectPayload(r)
    \/ StartRun(r) \/ RecordStarted(r) \/ FailLoad(r) \/ FailStart(r)
    \/ SettleLoad(r) \/ SettleCharge(r) \/ SettleStart(r)
    \/ RecordSettleStarted(r) \/ SettleSpend(r)

GraphStep(p) ==
    \/ GraphReturns(p) \/ GraphRaises(p)
    \/ ApplyLock(p) \/ ApplySave(p) \/ RecordCheckpoint(p) \/ RecordBudget(p)
    \/ PublishResult(p) \/ RecordOutcome(p)

Next ==
    \/ \E c \in Callers : Request(c) \/ CallerStep(c)
    \/ \E r \in Runs : TaskStep(r)
    \/ \E p \in Procs : GraphStep(p)
    \/ Restart

Spec == Init /\ [][Next]_vars

\* The event loop runs every ready coroutine, and model calls end at their deadline.
Fairness ==
    /\ \A c \in Callers : WF_vars(CallerStep(c))
    /\ \A r \in Runs : WF_vars(TaskStep(r))
    /\ \A p \in Procs : WF_vars(GraphStep(p))

FairSpec == Spec /\ Fairness

-----------------------------------------------------------------------------
(* Properties. *)

TypeOK ==
    /\ repo \in [Runs -> Record]
    /\ log \in [Runs -> Seq(Event)]
    /\ cancelled \subseteq Runs /\ hubClosed \subseteq Runs
    /\ prefix \subseteq Runs /\ reported \subseteq Runs /\ lost \subseteq Runs
    /\ stateLock \in Procs \cup {None}
    /\ question \in [Runs -> Nat] /\ asked \in [Runs -> Nat]
    /\ pc \in [Procs -> Step]
    /\ job \in [Procs -> Job]
    /\ restarts \in Nat

\* Who runs the graph of the Run or writes what it returned.
Executing(r) ==
    {p \in Procs : Run(p) = r
                   /\ pc[p] \in {"started", "resumed", "graph", "settle_started",
                                "settle_spend", "apply_save"}}

\* Never do two coroutines execute one Run or apply results to it at once,
\* whatever duplicate creates and resumes arrive and whichever task fails.
SingleExecution == \A r \in Runs : \A p, q \in Executing(r) : p = q

Positions(r, E) == {i \in DOMAIN log[r] : log[r][i] \in E}

\* At most one terminal event is ever recorded for a Run, and it names the
\* status the repository holds: late results and cancellations never disagree.
OneOutcome ==
    \A r \in Runs : \A i, j \in Positions(r, Terminal) :
        i = j /\ log[r][i] = repo[r].status

\* A wait is resumed at most once: the Run resumes no more often than it has
\* asked, however many resume requests race (the CAS in _resume_run_with_context).
ResumedOncePerWait == \A r \in Runs : Cardinality(Positions(r, {"run_resumed"})) <= asked[r]

\* The event log of a Run tells one story, and the one the repository tells.
LogAgrees == OneOutcome /\ ResumedOncePerWait

\* The three attempts of _cancel_run_locked always suffice: its caller never
\* gets RUN_STATE_CONFLICT, since at most two writers ignore the state lock.
CancelRetriesSuffice ==
    \A c \in Callers : pc[c] = "cancel_reload" /\ job[c].tries = CancelTries
                        => repo[Run(c)].status \in Terminal

\* Between the read and the write of _apply_graph_result nobody else writes the
\* Run, although start, resume and preparation save without the state lock.
LockedSnapshotCurrent == \A p \in Procs : pc[p] = "apply_save" => Snap(p) = repo[Run(p)]

\* A Run that ends otherwise than cancelled stores the usage its preparation paid
\* for, whichever of the six paths writes its final status: once it has been
\* handed over no path drops it, and only an error without it loses it.
UsageKept ==
    \A r \in reported \cup lost :
        repo[r].status \in Terminal \ {"cancelled"} => repo[r].counted \/ r \in lost

\* The Runs whose cancellation is on record.
Accepted == {r \in Runs : Positions(r, {"run_cancel_requested"}) # {}}

\* The Harness keeps its contract with the callers, also across restarts:
\* after an accepted cancellation no result overrides it (service.py:763, :1092).
Contract == INSTANCE RunContract WITH status <- [r \in Runs |-> repo[r].status],
                                      accepted <- Accepted
KeepsContract == Contract!Spec

\* A cancellation that was accepted ends the Run.
CancelTerminates == \A r \in Runs : r \in cancelled ~> repo[r].status \in Terminal

\* A Run never stays created, queued or running: it ends or waits for input,
\* and when it has ended its terminal event announces it.
RunSettles ==
    \A r \in Runs :
        /\ repo[r].status \in {"created", "queued", "running"}
              ~> repo[r].status \in Terminal \cup {"waiting_input"}
        /\ repo[r].status \in Terminal ~> Positions(r, Terminal) # {}

=============================================================================
