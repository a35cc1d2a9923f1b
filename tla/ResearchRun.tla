----------------------------- MODULE ResearchRun -----------------------------
(* The research of one Run in the Agent: the stages of the research graph    *)
(* with their routes (graph.py), the runner that executes a stage on the     *)
(* facts of the Run (stage_runner.py), the stages that produce the delivery  *)
(* and check it against those facts (materializer.py), and the run-scoped    *)
(* runtime that starts the graph as a task, waits for it, for a cancellation *)
(* and for the deadline, and ends the Run (research_local_runtime.py).       *)
(* Two things are kept: the state of the graph, which only holds ids, and    *)
(* the facts in the store.  A stage reads both, saves facts and returns an   *)
(* update of the state; between the two the Run may be cancelled or end.     *)
(* Documents are not modelled: what the sources return and what the models   *)
(* decide is chosen.  A claim stands for itself and the evidence it cites,   *)
(* which every stage stores and returns together.                            *)
(* An operator Faulty... is a slip the code could have made in the operator  *)
(* after it; no action uses it.                                              *)
EXTENDS Naturals, FiniteSets

CONSTANTS
    Events,      \* what the documents may tell
    Keys,        \* the kinds of claims; a brief may require some of them
    Claims,      \* claims <<event, key>> the models may find in the documents
    Briefs,      \* briefs: facets, need (fewer are a gap), limit (more are refused)
    MaxRefill,   \* max_refill_rounds: collection rounds after the first
    None

ASSUME BriefsAssumption ==
    /\ MaxRefill \in Nat /\ IsFiniteSet(Events)
    /\ Claims \subseteq Events \X Keys
    /\ Briefs \subseteq [facets : SUBSET Keys, need : Nat \ {0}, limit : Nat]

ASSUME NoneAssumption ==
    /\ \A events \in SUBSET Events : None # events
    /\ None \notin {"control", "ended", "closure", "count"}

VARIABLES
    brief,     \* what was asked; never changes
    state,     \* ResearchGraphState
    facts,     \* LocalResearchRunFactsV2 of the store
    worker,    \* the task that runs the graph and the materializer
    runner,    \* _execute of the run-scoped service: start, wait, save or ended
    clock,     \* early; soft: the output's time begins; hard: the deadline
    cancel,    \* no; asked for; signalled: the stages' listener has seen it
    snapshot   \* the delivery stored for later references, or None

vars == <<brief, state, facts, worker, runner, clock, cancel, snapshot>>

EventsOf(claims) == {c[1] : c \in claims}
KeysOf(claims) == {c[2] : c \in claims}
Gaps == Keys \cup {"count", "collection"}

Collection == {"plan", "discover", "acquire", "normalize", "filter", "deduplicate",
               "cluster", "claims"}
Output == {"compose", "verify", "render"}
Stages == Collection \cup Output \cup {"validate", "quality", "finalize"}
Verdicts == {"COMPLETE", "PARTIAL", "NO_MATCHES", "FAILED", "NOT_EVALUATED"}
Reasons == {"USER_CANCELLED", "FATAL_ERROR", "HARD_DEADLINE", "QUALITY_MET",
            "SOFT_DEADLINE", "BUDGET_LIMIT", "NO_GAIN", "ROUND_LIMIT", "PLAN_EXHAUSTED"}

------------------------------------------------------------------------------
(* The graph: verdict and routes *)

ControlStop(s) == s.cancelled \/ s.fatal \/ s.hard

BoundedStop(s) ==
    \/ s.soft \/ s.budget \/ s.planExhausted
    \/ s.noGain >= 2
    \/ s.refill >= MaxRefill

StopReason(s) ==
    IF s.cancelled THEN "USER_CANCELLED"
    ELSE IF s.fatal THEN "FATAL_ERROR"
    ELSE IF s.hard THEN "HARD_DEADLINE"
    ELSE IF s.qualified # {} /\ s.gaps = {} /\ s.verified THEN "QUALITY_MET"
    ELSE IF s.soft THEN "SOFT_DEADLINE"
    ELSE IF s.budget THEN "BUDGET_LIMIT"
    ELSE IF s.noGain >= 2 THEN "NO_GAIN"
    ELSE IF s.refill >= MaxRefill THEN "ROUND_LIMIT"
    ELSE "PLAN_EXHAUSTED"

FaultyStoppedStatus(s) ==
    IF s.qualified # {} THEN IF s.verified THEN "COMPLETE" ELSE "PARTIAL"
    ELSE IF s.emptyPlan THEN "NO_MATCHES" ELSE "FAILED"

StoppedStatus(s) ==
    IF s.qualified # {}
    THEN IF s.gaps = {} /\ s.verified THEN "COMPLETE" ELSE "PARTIAL"
    ELSE IF s.emptyPlan THEN "NO_MATCHES" ELSE "FAILED"

Verdict(s) ==
    IF s.cancelled \/ s.hard THEN "NOT_EVALUATED"
    ELSE IF s.fatal THEN "FAILED" ELSE StoppedStatus(s)

\* What has been qualified is delivered, nothing is delivered without it.
Conclude(s) == IF s.qualified # {} THEN "compose" ELSE "finalize"

Following == [discover |-> "acquire", acquire |-> "normalize", normalize |-> "filter",
              filter |-> "deduplicate", deduplicate |-> "cluster",
              cluster |-> "claims", claims |-> "quality"]

RouteCollection(s, next) == IF s.budget \/ s.soft THEN Conclude(s) ELSE next

Route(stage, s) ==
    IF stage = "finalize" THEN "materialize"
    ELSE IF ControlStop(s) \/ stage = "render" THEN "finalize"
    ELSE CASE stage = "validate" -> "plan"
           [] stage = "plan" -> IF s.planExhausted \/ ~s.planned THEN Conclude(s)
                                ELSE RouteCollection(s, "discover")
           [] stage \in DOMAIN Following -> RouteCollection(s, Following[stage])
           [] stage = "quality" ->
                IF s.emptyPlan \/ (s.qualified # {} /\ s.gaps = {}) THEN "compose"
                ELSE IF BoundedStop(s) THEN Conclude(s) ELSE "plan"
           [] stage = "compose" -> "verify"
           [] stage = "verify" -> IF s.verified THEN "render" ELSE "finalize"

\* What the node adds to the update of its stage.
Gained(old, new) ==
    \/ new.qualified \ old.qualified # {}
    \/ new.claims \ old.claims # {}
    \/ Cardinality(new.gaps) < Cardinality(old.gaps)

FaultyNodePatch(stage, old, new) ==
    CASE stage = "quality" ->
            [new EXCEPT !.collected = TRUE,
                        !.noGain = IF ~old.collected THEN @
                                   ELSE IF Gained(old, new) THEN 0 ELSE @ + 1]
      [] stage = "finalize" ->
            [new EXCEPT !.reason = StopReason(new), !.verdict = Verdict(new)]
      [] OTHER -> new

NodePatch(stage, old, new) ==
    CASE stage = "plan" /\ old.collected -> [new EXCEPT !.refill = @ + 1]
      [] stage = "quality" ->
            [new EXCEPT !.collected = TRUE,
                        !.noGain = IF ~old.collected THEN @
                                   ELSE IF Gained(old, new) THEN 0 ELSE @ + 1]
      [] stage = "finalize" ->
            [new EXCEPT !.reason = StopReason(new), !.verdict = Verdict(new)]
      [] OTHER -> new

------------------------------------------------------------------------------
(* The runner of a stage *)

\* _control: the signal first, then the deadline.
Stopped == cancel = "signalled" \/ clock = "hard"
Flagged(s) == IF cancel = "signalled" THEN [s EXCEPT !.cancelled = TRUE]
              ELSE [s EXCEPT !.hard = TRUE]

\* The events of the last round that was evaluated.
Evaluated == IF facts.quality = None THEN {} ELSE facts.quality

FaultyBudgetStop(s, soft) ==
    [s EXCEPT !.planned = FALSE, !.budget = ~soft, !.soft = soft,
              !.planExhausted = @ \/ worker.stage = "plan"]

\* Back to the last evaluated closure: what the unfinished round put into the
\* state must not replace it.
BudgetStop(s, soft) ==
    [s EXCEPT !.planned = FALSE, !.budget = ~soft, !.soft = soft,
              !.planExhausted = @ \/ worker.stage = "plan",
              !.events = Evaluated, !.qualified = Evaluated, !.claims = facts.claims]

FaultyMayPut == TRUE

\* put is refused once the Run has ended.
MayPut == facts.status = "active"

Raise(why) == worker' = [worker EXCEPT !.step = "raised", !.raised = why]

Advance(update) ==
    LET next == NodePatch(worker.stage, state, update)
    IN /\ state' = next
       /\ worker' = [worker EXCEPT !.stage = Route(worker.stage, next), !.step = "enter",
                                   !.update = None]

\* The stage is done: its update is returned after a last look at the control.
Return(update) == worker' = [worker EXCEPT !.step = "leave", !.update = update]

others == <<brief, runner, clock, cancel, snapshot>>

\* run_stage up to the work: the facts must be open, then the stop flags, the
\* control and, for the stages that collect, the budget and the output's time.
Enter ==
    /\ worker.step = "enter" /\ worker.stage \in Stages
    /\ UNCHANGED <<facts, others>>
    /\ IF facts.status # "active" THEN Raise("ended") /\ UNCHANGED state
       ELSE IF ControlStop(state) THEN Advance(state)
       ELSE IF Stopped THEN Advance(Flagged(state))
       ELSE IF worker.stage \in Collection /\ (state.budget \/ state.soft \/ clock # "early")
            THEN Advance(BudgetStop(state, ~state.budget))
       ELSE worker' = [worker EXCEPT !.step = "work"] /\ UNCHANGED state

Working(stage) ==
    /\ worker.step = "work" /\ worker.stage = stage
    /\ UNCHANGED <<state, others>>

\* _save does nothing once the control says stop.
SaveAndReturn(new, update) ==
    IF Stopped THEN Return(update) /\ UNCHANGED facts
    ELSE IF MayPut THEN Return(update) /\ facts' = new
    ELSE Raise("ended") /\ UNCHANGED facts

\* These two do nothing themselves.
Passes ==
    \E stage \in {"validate", "finalize"} :
        Working(stage) /\ Return(state) /\ UNCHANGED facts

Plan ==
    /\ Working("plan")
    /\ \/ \E planned \in BOOLEAN :
             SaveAndReturn(facts, [state EXCEPT !.planned = planned,
                                                !.planExhausted = ~planned])
       \/ /\ Return([state EXCEPT !.planned = FALSE, !.planExhausted = TRUE,
                                  !.budget = TRUE])
          /\ UNCHANGED facts

\* The attempts of all rounds together: only complete ones, only failed ones.
Discover ==
    /\ Working("discover")
    /\ \E complete \in BOOLEAN :
          SaveAndReturn([facts EXCEPT !.complete = @ /\ complete], state)

\* The thirty-first body is not requested: the budget counts as exhausted.
Acquire ==
    /\ Working("acquire")
    /\ \E exhausted \in BOOLEAN :
          SaveAndReturn(facts, [state EXCEPT !.budget = exhausted])

\* Three stages choose among the documents, which are not modelled.
Normalize == Working("normalize") /\ SaveAndReturn(facts, state)
Filter == Working("filter") /\ SaveAndReturn(facts, state)
Deduplicate == Working("deduplicate") /\ SaveAndReturn(facts, state)

\* All documents are clustered anew in every round.
Cluster ==
    /\ Working("cluster")
    /\ \E events \in SUBSET Events :
          SaveAndReturn(facts, [state EXCEPT !.events = events])

ExtractClaims ==
    /\ Working("claims")
    /\ \/ /\ state.events = {}
          /\ Return([state EXCEPT !.claims = {}])
          /\ UNCHANGED facts
       \/ /\ state.events # {}
          /\ \E claims \in SUBSET {c \in Claims : c[1] \in state.events} :
                SaveAndReturn(facts, [state EXCEPT !.claims = claims])

CollectionGaps(usable, claims) ==
    (IF Cardinality(usable) < brief.need THEN {"count"} ELSE {})
        \cup (brief.facets \ KeysOf({c \in claims : c[1] \in usable}))

\* Events that may pass the gates: they need claims.
Usable == SUBSET (state.events \cap EventsOf(state.claims))

\* Nothing found is a result only if everything was searched completely.
NoMatches(history) == state.events = {} /\ facts.complete /\ history

Quality ==
    /\ Working("quality")
    /\ \E usable \in Usable, history \in BOOLEAN :
          LET gaps == CollectionGaps(usable, state.claims)
                        \cup IF state.events = {} /\ ~NoMatches(history)
                             THEN {"collection"} ELSE {}
          IN SaveAndReturn(
                [facts EXCEPT !.quality = usable, !.gaps = gaps,
                              !.claims = {c \in state.claims : c[1] \in usable}],
                [state EXCEPT !.qualified = usable, !.report = usable, !.gaps = gaps,
                              !.emptyPlan = NoMatches(history)])

\* A call that fails: no budget left, no usable answer of a model, or any other
\* error, such as facts that have grown too large to be saved.
CallFails ==
    /\ worker.step = "work"
    /\ \/ /\ worker.stage \in Collection \ {"normalize", "deduplicate"}
          /\ Return(BudgetStop(state, FALSE))
       \/ /\ worker.stage \in {"plan", "filter", "cluster", "claims"}
          /\ Return([state EXCEPT !.fatal = TRUE])
       \/ worker.stage \notin {"validate", "finalize"} /\ Raise("error")
    /\ UNCHANGED <<state, facts, others>>

\* The end of run_stage: what the stage returned is dropped if the Run is
\* stopped.  Otherwise the usage is saved if the stage used anything.
Leave ==
    /\ worker.step = "leave"
    /\ \/ Advance(IF Stopped THEN Flagged(state) ELSE worker.update)
       \/ ~Stopped /\ ~MayPut /\ Raise("ended") /\ UNCHANGED state
    /\ UNCHANGED <<facts, others>>

------------------------------------------------------------------------------
(* The delivery *)

\* _snapshot: state and facts must tell the same closure.
ClosureHolds ==
    /\ facts.quality # None
    /\ facts.quality = state.report /\ facts.quality = state.qualified
    /\ facts.gaps = state.gaps
    /\ state.qualified \subseteq state.events
    /\ facts.claims \subseteq state.claims
    /\ EventsOf(facts.claims) = state.qualified

TooMany == Cardinality(state.qualified) > brief.limit

\* The draft and the delivery follow from the facts and the state alone.
Draft ==
    LET verified == [state EXCEPT !.verified = TRUE]
    IN [events |-> state.qualified, claims |-> facts.claims,
        verdict |-> Verdict(verified), reason |-> StopReason(verified)]

\* What an output stage and the materializer check before they go on.
Refusal ==
    IF Stopped \/ state.cancelled \/ state.hard THEN "control"
    ELSE IF facts.status # "active" THEN "ended"
    ELSE IF ~ClosureHolds THEN "closure"
    ELSE IF TooMany THEN "count" ELSE None

\* Every output stage checks the control and the closure again; its put does
\* not look at the control.
Outputs(stage, refused, new, update) ==
    /\ Working(stage)
    /\ IF Refusal # None THEN Raise(Refusal) /\ UNCHANGED facts
       ELSE IF refused THEN Raise("closure") /\ UNCHANGED facts
       ELSE facts' = new /\ Return(update)

Compose ==
    Outputs("compose", Draft.verdict = "FAILED", [facts EXCEPT !.draft = Draft],
            [state EXCEPT !.verified = FALSE])

Verify ==
    \E accepted \in BOOLEAN :
        Outputs("verify", facts.draft # Draft, [facts EXCEPT !.accepted = accepted],
                [state EXCEPT !.verified = accepted])

Render ==
    Outputs("render", facts.draft # Draft \/ ~facts.accepted \/ ~state.verified,
            [facts EXCEPT !.delivery = Draft], [state EXCEPT !.artifact = Draft])

Outcome(delivery) ==
    [verdict |-> Draft.verdict, reason |-> Draft.reason, events |-> state.qualified,
     delivery |-> delivery]

Done(outcome) == worker' = [worker EXCEPT !.step = "done", !.outcome = outcome]

\* materialize, and the checks of the service on what it returns.
Materialize ==
    /\ worker.step = "enter" /\ worker.stage = "materialize"
    /\ UNCHANGED <<state, facts, others>>
    /\ IF Refusal \in {"control", "ended"} THEN Raise(Refusal)
       ELSE IF state.verdict # "FAILED" /\ ~state.verified THEN Raise("unverified")
       ELSE IF \/ state.verdict # Draft.verdict \/ state.reason # Draft.reason
               \/ ~(facts.claims \subseteq state.claims)
            THEN Raise("closure")
       ELSE IF state.verdict = "FAILED" THEN Done(Outcome(None))
       ELSE IF Refusal # None THEN Raise(Refusal)
       ELSE IF \/ facts.draft # Draft \/ ~facts.accepted
               \/ facts.delivery # Draft \/ state.artifact # Draft
            THEN Raise("closure")
       ELSE Done(Outcome(Draft))

------------------------------------------------------------------------------
(* The runtime of the Run *)

\* finish of the store: the Run is closed and the drafts are let go.
Finish(status, outcome) ==
    /\ runner' = "ended"
    /\ facts' = [facts EXCEPT !.status = status, !.outcome = outcome, !.draft = None]

Start ==
    /\ runner = "start"
    /\ IF cancel # "no" THEN Finish("cancelled", None) /\ UNCHANGED worker
       ELSE IF clock = "hard" THEN Finish("timed_out", None) /\ UNCHANGED worker
       ELSE /\ runner' = "wait" /\ worker' = [worker EXCEPT !.step = "enter"]
            /\ UNCHANGED facts
    /\ UNCHANGED <<brief, state, clock, cancel, snapshot>>

\* _execute wakes up: a cancellation goes first, then the deadline, then the
\* result.  The store accepts a Run as completed only with a verified delivery.
Wake ==
    /\ runner = "wait"
    /\ UNCHANGED <<brief, state, worker, clock, cancel, snapshot>>
    /\ \/ cancel # "no" /\ Finish("cancelled", None)
       \/ /\ cancel = "no"
          /\ \/ clock = "hard" /\ Finish("timed_out", None)
             \/ /\ clock # "hard"
                /\ \/ worker.step = "raised" /\ Finish("failed", None)
                   \/ /\ worker.step = "done"
                      /\ IF worker.outcome.verdict = "FAILED"
                         THEN Finish("failed", worker.outcome)
                         ELSE IF worker.outcome.verdict \in {"COMPLETE", "PARTIAL"}
                         THEN runner' = "save" /\ UNCHANGED facts
                         ELSE Finish("failed", None)

\* The delivery is stored for later references before the Run is closed.
SaveSnapshot ==
    /\ runner = "save"
    /\ \/ snapshot' = worker.outcome.delivery /\ Finish("completed", worker.outcome)
       \/ UNCHANGED snapshot /\ Finish("failed", None)
    /\ UNCHANGED <<brief, state, worker, clock, cancel>>

\* The caller of research is cancelled; a snapshot being stored may be stored.
CallerLeaves ==
    /\ runner \in {"start", "wait", "save"}
    /\ Finish("cancelled", None)
    /\ \/ UNCHANGED snapshot
       \/ runner = "save" /\ snapshot' = worker.outcome.delivery
    /\ UNCHANGED <<brief, state, worker, clock, cancel>>

\* The worker of an ended Run is cancelled; a call may swallow that, and it goes on.
WorkerDropped ==
    /\ runner = "ended" /\ worker.step \in {"enter", "work", "leave"}
    /\ Raise("cancelled")
    /\ UNCHANGED <<state, facts, others>>

Cancel == cancel = "no" /\ cancel' = "asked"
Signal == cancel = "asked" /\ cancel' = "signalled"
Pass == clock # "hard" /\ clock' = IF clock = "early" THEN "soft" ELSE "hard"

Environment ==
    /\ \/ (Cancel \/ Signal) /\ UNCHANGED clock
       \/ Pass /\ UNCHANGED cancel
    /\ UNCHANGED <<brief, state, facts, worker, runner, snapshot>>

Init ==
    /\ brief \in Briefs
    /\ state = [planned |-> FALSE, events |-> {}, claims |-> {}, qualified |-> {},
                report |-> None, gaps |-> {}, collected |-> FALSE, refill |-> 0,
                noGain |-> 0, emptyPlan |-> FALSE, planExhausted |-> FALSE,
                budget |-> FALSE, soft |-> FALSE, hard |-> FALSE, cancelled |-> FALSE,
                fatal |-> FALSE, verified |-> FALSE, artifact |-> None,
                verdict |-> "NOT_EVALUATED", reason |-> None]
    /\ facts = [status |-> "active", complete |-> TRUE, quality |-> None, gaps |-> {},
                claims |-> {}, draft |-> None, accepted |-> FALSE, delivery |-> None,
                outcome |-> None]
    /\ worker = [stage |-> "validate", step |-> "idle", update |-> None,
                 raised |-> None, outcome |-> None]
    /\ runner = "start" /\ clock = "early" /\ cancel = "no" /\ snapshot = None

Work ==
    \/ Enter \/ Leave \/ Passes \/ Plan \/ Discover \/ Acquire
    \/ Normalize \/ Filter \/ Deduplicate \/ Cluster \/ ExtractClaims \/ Quality \/ CallFails \/ Compose \/ Verify \/ Render \/ Materialize

Next ==
    \/ Work \/ Start \/ Wake \/ SaveSnapshot \/ CallerLeaves \/ WorkerDropped
    \/ Environment

Spec == Init /\ [][Next]_vars

FairSpec == Spec /\ WF_vars(Work) /\ WF_vars(Start \/ Wake \/ SaveSnapshot)

------------------------------------------------------------------------------
(* What it promises *)

Deliveries == [events : SUBSET Events, claims : SUBSET Claims,
               verdict : Verdicts, reason : Reasons]

States == [planned : BOOLEAN, events : SUBSET Events, claims : SUBSET Claims,
           qualified : SUBSET Events, report : (SUBSET Events) \cup {None},
           gaps : SUBSET Gaps, collected : BOOLEAN, refill : 0 .. MaxRefill,
           noGain : 0 .. 2, emptyPlan : BOOLEAN, planExhausted : BOOLEAN,
           budget : BOOLEAN, soft : BOOLEAN, hard : BOOLEAN, cancelled : BOOLEAN,
           fatal : BOOLEAN, verified : BOOLEAN, artifact : Deliveries \cup {None},
           verdict : Verdicts, reason : Reasons \cup {None}]

\* The type invariant.  The rounds and the rounds without gain stay within
\* their limits whatever interrupts a round.
TypeOK ==
    /\ brief \in Briefs /\ state \in States
    /\ facts.status \in {"active", "completed", "failed", "cancelled", "timed_out"}
    /\ facts.quality \in (SUBSET Events) \cup {None} /\ facts.gaps \subseteq Gaps
    /\ facts.claims \subseteq Claims
    /\ {facts.draft, facts.delivery, snapshot} \subseteq Deliveries \cup {None}
    /\ worker.stage \in Stages \cup {"materialize"}
    /\ worker.step \in {"idle", "enter", "work", "leave", "done", "raised"}
    /\ worker.update \in States \cup {None}
    /\ runner \in {"start", "wait", "save", "ended"}
    /\ clock \in {"early", "soft", "hard"} /\ cancel \in {"no", "asked", "signalled"}

\* The stages that write the output never refuse what the graph hands them: at
\* whatever point a round was interrupted by the budget, the time or an error,
\* the ids in the state and the facts in the store are those of one evaluated
\* round (materializer.py raises RESEARCH_OUTPUT_CLOSURE_INVALID otherwise).
SelfConsistent == worker.raised # "closure"

\* The type invariant and the agreement of state and facts.
ResearchInvariant == TypeOK /\ SelfConsistent

\* A completed Run delivers exactly the events of its last evaluated round,
\* each with a claim and no more than asked for, the delivery is stored for
\* later references, and it is called COMPLETE if and only if nothing that was
\* asked for is missing, whatever stopped the research.
HonestOutcome ==
    facts.status = "completed" =>
        LET delivered == facts.outcome.delivery
            missing == \/ Cardinality(delivered.events) < brief.need
                       \/ ~(brief.facets \subseteq KeysOf(delivered.claims))
        IN /\ snapshot = delivered
           /\ delivered.events = facts.quality /\ delivered.events # {}
           /\ EventsOf(delivered.claims) = delivered.events
           /\ Cardinality(delivered.events) <= brief.limit
           /\ (facts.outcome.verdict = "COMPLETE") = ~missing

\* No stage that is still at work when the Run ends, because its caller left,
\* it was cancelled or its time is up, changes the facts of the ended Run.
EndIsFinal == [][facts.status # "active" => facts' = facts]_vars

\* Every Run ends and its worker with it, without the deadline's help: rounds
\* that gain and lose the same events are cut off by the limit of rounds.
ResearchConcludes == <>(runner = "ended" /\ worker.step \in {"idle", "done", "raised"})

==============================================================================
