--------------------------- MODULE ScenarioWaves ---------------------------
(***************************************************************************)
(* One scenario of the operation agent: a graph of tasks that the supervisor *)
(* (ScenarioSupervisorAdapter.execute_scenario) runs wave by wave through the *)
(* BoundedScheduler.  The tasks of a wave run at the same time; each tries its *)
(* candidate specialists one after the other, against a timeout and against   *)
(* the cancellation of the Run, and draws on one BudgetLedger.                *)
(*                                                                          *)
(* The steps of a task are cut where _execute_node awaits: between the        *)
(* specialist's answer and its collection the cancellation and the timeout    *)
(* can still win.  Progress events and the content of results are left out.   *)
(***************************************************************************)
EXTENDS BudgetLedger, Sequences

CONSTANTS
    Graphs,         \* the task graphs to consider: [Tasks -> SUBSET Tasks], what each depends on
    Requests,       \* the budgets their tasks may ask for: [Tasks -> Budget]
    Required,       \* the tasks a scenario cannot do without
    Producers,      \* the tasks whose result holds a deliverable: all but those of research
    Candidates,     \* [Tasks -> Seq(Agents)]: SpecialistSelector.rank
    Agents,
    Cap,            \* [Agents -> Budget]: the budget in an agent's registration
    MaxParallel     \* how many tasks a wave may have: max_parallel_tasks

ASSUME WavesAssumption ==
    /\ Graphs \subseteq [Tasks -> SUBSET Tasks]
    /\ Requests \subseteq [Tasks -> Budget]
    /\ Required \subseteq Tasks /\ Producers \subseteq Tasks
    /\ Candidates \in [Tasks -> Seq(Agents)]
    /\ Cap \in [Agents -> Budget]
    /\ MaxParallel \in Nat \ {0}

VARIABLES
    plan,       \* [deps, request]: the compiled graph, never changed
    status,     \* state["task_statuses"]
    delivered,  \* the tasks with a decoded envelope: the input of those that depend on them
    ledger,
    wave,       \* the tasks of the wave under way
    job,        \* [Tasks -> [stage, turn, reply]]: where each _execute_node is
    rounds,     \* waves the supervisor may still start: range(len(graph.tasks))
    cancel,     \* the cancellation of the Run was requested
    late,       \* parent_deadline_epoch_ms has passed
    verdict     \* completion_status of the scenario's result

vars == <<plan, status, delivered, ledger, wave, job, rounds, cancel, late, verdict>>

Closed  == {"succeeded", "failed", "cancelled"}
Stage   == {"idle", "next", "working", "answered"} \cup Closed
Reply   == {"none", "envelope", "garbled", "refused", "raised"}
Verdict == {"none", "complete", "partial", "failed", "cancelled"}

Job == [stage : Stage, turn : Nat \ {0}, reply : Reply]

Idle == [stage |-> "idle", turn |-> 1, reply |-> "none"]

(* An operator Faulty... is a slip the code could have made in the operator *)
(* that follows it: the properties below are known to notice them.          *)

Ready == {t \in Tasks : status[t] = "ready" /\ \A u \in plan.deps[t] : status[u] = "succeeded"}

First(S)       == {t \in S : Cardinality({u \in S : u < t}) < MaxParallel}

FaultyTurnAfter(t) == job[t].turn
TurnAfter(t)       == job[t].turn + 1

FaultyRoundsOf(S) == Cardinality(S) - 1
RoundsOf(S)       == Cardinality(S)

\* A result that cannot be decoded is a failure, whatever the specialist says.
FaultySettled(j) == j.stage
Settled(j)       == IF j.reply = "garbled" THEN "failed" ELSE j.stage

Init ==
    /\ \E deps \in Graphs, request \in {r \in Requests : Allocatable(r)} :
        /\ plan = [deps |-> deps, request |-> request]
        /\ status = [t \in Tasks |-> IF deps[t] = {} THEN "ready" ELSE "pending"]
        /\ ledger = Allocate(request)
    /\ delivered = {}
    /\ wave = {}
    /\ job = [t \in Tasks |-> Idle]
    /\ rounds = RoundsOf(Tasks)
    /\ cancel = FALSE /\ late = FALSE
    /\ verdict = "none"

-----------------------------------------------------------------------------
\* run_wave: the cancellation is looked at, then the first ready tasks are taken.
StartWave ==
    /\ verdict = "none" /\ wave = {} /\ rounds > 0
    /\ ~cancel /\ Ready # {}
    /\ wave' = First(Ready)
    /\ job' = [t \in Tasks |-> IF t \in First(Ready) THEN [Idle EXCEPT !.stage = "next"] ELSE job[t]]
    /\ rounds' = rounds - 1
    /\ UNCHANGED <<plan, status, delivered, ledger, cancel, late, verdict>>

Move(t, stage) == job' = [job EXCEPT ![t].stage = stage]

TryNext(t) == job' = [job EXCEPT ![t] = [Idle EXCEPT !.stage = "next", !.turn = TurnAfter(t)]]

Scheduling == UNCHANGED <<plan, status, delivered, wave, rounds, cancel, late, verdict>>

\* No candidate is left.
Exhaust(t) ==
    /\ job[t].stage = "next" /\ job[t].turn > Len(Candidates[t])
    /\ Move(t, "failed")
    /\ Scheduling /\ UNCHANGED ledger

\* factory.create raises for the candidate.
Unbuilt(t) ==
    /\ job[t].stage = "next" /\ job[t].turn <= Len(Candidates[t])
    /\ TryNext(t)
    /\ Scheduling /\ UNCHANGED ledger

\* The candidate gets its budget and starts, unless the deadline has passed.
Dispatch(t) ==
    /\ job[t].stage = "next" /\ job[t].turn <= Len(Candidates[t])
    /\ ledger' = BudgetFor(ledger, t, Cap[Candidates[t][job[t].turn]], plan.request)
    /\ Move(t, IF late THEN "failed" ELSE "working")
    /\ Scheduling

\* The specialist's own task ends: with a result that decodes, with one that
\* does not, with a failed RunResult, or with an exception.
Answer(t) ==
    /\ job[t].stage = "working" /\ ~cancel
    /\ \E reply \in Reply \ {"none"} :
        job' = [job EXCEPT ![t].stage = "answered", ![t].reply = reply]
    /\ Scheduling /\ UNCHANGED ledger

\* The scheduler takes the answer.  A success is charged the whole budget in
\* force; an exception, its own refused charge included, is the next one's turn.
Collect(t) ==
    LET usage == InForce(ledger, t)
        good  == job[t].reply \in {"envelope", "garbled"}
        paid  == good /\ Affords(ledger, t, usage)
    IN  /\ job[t].stage = "answered"
        /\ ledger' = IF paid THEN Consume(ledger, t, usage) ELSE ledger
        /\ CASE paid                      -> Move(t, "succeeded")
             [] job[t].reply = "refused"  -> Move(t, "failed")
             [] OTHER                     -> TryNext(t)
        /\ Scheduling

\* asyncio.timeout fires, also when the answer is there but not taken yet.
Expire(t) ==
    /\ job[t].stage \in {"working", "answered"}
    /\ Move(t, "failed")
    /\ Scheduling /\ UNCHANGED ledger

\* The wait sees the cancellation: an answer that is there as well is dropped.
Stop(t) ==
    /\ job[t].stage \in {"working", "answered"} /\ cancel
    /\ Move(t, "cancelled")
    /\ Scheduling /\ UNCHANGED ledger

\* gather returns and the supervisor records the outcomes.
EndWave ==
    LET now == [t \in Tasks |-> IF t \in wave THEN Settled(job[t]) ELSE status[t]] IN
    /\ wave # {}
    /\ \A t \in wave : job[t].stage \in {"succeeded", "failed"}
    /\ status' = [t \in Tasks |->
                    IF now[t] = "pending" /\ \A u \in plan.deps[t] : now[u] = "succeeded"
                    THEN "ready" ELSE now[t]]
    /\ delivered' = delivered \cup {t \in wave : job[t].stage = "succeeded" /\ job[t].reply = "envelope"}
    /\ wave' = {}
    /\ UNCHANGED <<plan, ledger, job, rounds, cancel, late, verdict>>

\* A cancelled task ends the scenario: the other outcomes of its wave are dropped.
AbandonWave ==
    /\ wave # {}
    /\ \A t \in wave : job[t].stage \in Closed
    /\ \E t \in wave : job[t].stage = "cancelled"
    /\ verdict' = "cancelled"
    /\ wave' = {}
    /\ UNCHANGED <<plan, status, delivered, ledger, job, rounds, cancel, late>>

\* The next run_wave finds the cancellation.
BreakOff ==
    /\ verdict = "none" /\ wave = {} /\ rounds > 0 /\ cancel
    /\ verdict' = "cancelled"
    /\ UNCHANGED <<plan, status, delivered, ledger, wave, job, rounds, cancel, late>>

Shown == delivered \cap Producers

\* ResultAggregator.aggregate.
Aggregated ==
    IF \A t \in Tasks : status[t] = "succeeded" THEN "complete"
    ELSE IF \E t \in Required : status[t] # "succeeded" THEN "failed" ELSE "partial"

\* The supervisor: where there is something to show, what is missing is a warning.
FaultyOverruled == Aggregated
Overruled       == IF Shown # {} /\ Aggregated # "complete" THEN "partial" ELSE Aggregated

\* The service: nothing complete without a deliverable, nothing partial without a warning.
Reported(warned) ==
    IF \/ Overruled = "complete" /\ Shown = {}
       \/ Overruled = "partial" /\ Shown = {} /\ ~warned
    THEN "failed" ELSE Overruled

\* Whether a delivered result comes with a warning is up to the specialist.
Conclude ==
    /\ verdict = "none" /\ wave = {}
    /\ rounds = 0 \/ (~cancel /\ Ready = {})
    /\ \E warned \in {w \in BOOLEAN : w => delivered # {}} : verdict' = Reported(warned)
    /\ UNCHANGED <<plan, status, delivered, ledger, wave, job, rounds, cancel, late>>

\* The user cancels the Run.
Cancel ==
    /\ verdict = "none" /\ ~cancel
    /\ cancel' = TRUE
    /\ UNCHANGED <<plan, status, delivered, ledger, wave, job, rounds, late, verdict>>

\* The scenario's deadline passes.
Lapse ==
    /\ verdict = "none" /\ ~late
    /\ late' = TRUE
    /\ UNCHANGED <<plan, status, delivered, ledger, wave, job, rounds, cancel, verdict>>

Turn(t)    == Exhaust(t) \/ Unbuilt(t) \/ Dispatch(t)
Ends(t)    == Collect(t) \/ Expire(t) \/ Stop(t)
Supervise  == StartWave \/ EndWave \/ AbandonWave \/ BreakOff \/ Conclude

Next ==
    \/ \E t \in Tasks :
        \/ Exhaust(t) \/ Unbuilt(t) \/ Dispatch(t)
        \/ Answer(t) \/ Collect(t) \/ Expire(t) \/ Stop(t)
    \/ StartWave \/ EndWave \/ AbandonWave \/ BreakOff \/ Conclude
    \/ Cancel \/ Lapse

Spec == Init /\ [][Next]_vars

\* The event loop runs what can run, and the timeout of a specialist is its own:
\* whether it answers is not assumed.
FairSpec ==
    /\ Spec
    /\ WF_vars(Supervise)
    /\ \A t \in Tasks : WF_vars(Turn(t)) /\ WF_vars(Ends(t))

-----------------------------------------------------------------------------
TypeOK ==
    /\ plan \in [deps : Graphs, request : Requests]
    /\ status \in [Tasks -> {"pending", "ready", "succeeded", "failed"}]
    /\ delivered \subseteq Tasks
    /\ IsLedger(ledger)
    /\ wave \subseteq Tasks /\ Cardinality(wave) <= MaxParallel
    /\ job \in [Tasks -> Job]
    /\ rounds \in 0 .. Cardinality(Tasks)
    /\ cancel \in BOOLEAN /\ late \in BOOLEAN
    /\ verdict \in Verdict

(* A specialist works only when everything its task depends on has delivered  *)
(* a decoded result: none runs on inputs that are missing.                    *)
DepsDelivered ==
    \A t \in Tasks : job[t].stage \in {"working", "answered"} => plan.deps[t] \subseteq delivered

(* Whatever the order in which tasks ask, the budgets in force and what is     *)
(* not handed out yet never exceed the 70% kept for the tasks, so what they    *)
(* consume leaves the reserves for revisions and the aggregation alone.        *)
WithinPool ==
    \A d \in Dims :
        /\ Total([t \in Tasks |-> InForce(ledger, t)[d]], Tasks) + ledger.spare[d] <= Work[d]
        /\ \A t \in Tasks : ledger.spent[t][d] <= InForce(ledger, t)[d]

(* The scenario's tables are well-formed, and its budgets within the pool.     *)
BudgetInvariant == TypeOK /\ WithinPool

(* As many waves as there are tasks are enough: when the scenario ends without *)
(* having been cancelled, a task that never ran waited for one that failed.    *)
WavesSuffice ==
    verdict \notin {"none", "cancelled"} =>
        \A t \in Tasks :
            /\ status[t] # "ready"
            /\ status[t] = "pending" => \E u \in plan.deps[t] : status[u] \in {"failed", "pending"}

(* The verdict says what there is to show: complete with every task's result  *)
(* and a deliverable among them, partial with some results and not all, and    *)
(* failed only when no deliverable is lost with it.                           *)
VerdictHonest ==
    /\ verdict = "complete" => delivered = Tasks /\ Shown # {}
    /\ verdict = "partial" => delivered # {} /\ delivered # Tasks
    /\ verdict = "failed" => Shown = {}

(* A budget once in force never grows: another candidate for the same task,   *)
(* with a larger cap, gets no more than the one before it.                    *)
NeverGrows ==
    [][\A t \in DOMAIN ledger.effective :
        /\ t \in DOMAIN ledger'.effective
        /\ \A d \in Dims : ledger'.effective[t][d] <= ledger.effective[t][d]]_vars

(* Every scenario reaches a verdict, though specialists may never answer.      *)
Concludes == <>(verdict # "none")

=============================================================================
