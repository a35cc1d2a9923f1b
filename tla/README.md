# A TLA+ model of the efficiency platform

This directory holds a formal model of the efficiency platform: TLA+ modules translated from its code, TLC
configurations that check them on small instances, and theorems that TLAPS proves for every size. `PROJECT.json` is the
index: which definition stands for which lines, which run checks which property, which slip of the code each property
would notice, and which hazards are covered.

Paths: `agent/` below is `src/efficiency-platform-agent/src/efficiency_platform_agent/`, `java/` is
`src/ai-efficiency-platform/`, `ui/` is `src/ai-efficiency-platform-ui/`.

## 1. Inventory

The platform has three programs. The **Agent** (Python, one asyncio process) runs tasks called *Runs*: it interprets a
request, plans, lets specialists call models and tools, and publishes events. The **platform service** (Java, Spring)
owns the users' conversations, files and knowledge bases in its own database; it starts Runs over HTTP and projects
their event streams into rows. The **front end** (React) follows a Run through the Java service.

```
 page (useOperationChat, sseClient)            browser
   |  SSE, one session per page and reconnect
 OperationAssistantController / Service        Java: row, messages, artifacts; FOR UPDATE row lock
   |  HTTP submit / cancel, SSE
 api/routes -> AgentRuntimeService (Harness)   Agent: run repository (CAS), event store (append), EventHub
   |  background task per Run
 graph runtime -> supervisor -> scheduler -> specialists -> models, tools, research sources (budget lease)
```

| Component | State | Operations | What is hard | Correct means |
|---|---|---|---|---|
| Harness, Run lifecycle (`agent/harness/service.py`) | Run record with a version, event log, cancellation set, state lock, closed streams, preparation usage, checkpoints | create, prepare, execute, apply a result, resume, cancel, settle a failure | every `await` is an interleaving point; some writers take the state lock and some do not; six paths write the final status; a restart loses everything in memory | one execution at a time; one outcome; a cancellation is never overridden; a Run ends; paid usage is kept |
| Run repository, event store, checkpoints | rows | insert unique request id, compare-and-swap, append | duplicate requests, stale versions | no lost update |
| Event stream (`runtime/event_hub.py`, `api/sse.py`, `ui/.../sseClient.ts`) | history, subscriptions with queues, a reader's cursor | publish, subscribe, replay, send, drop, reconnect | replay and live events overlap; the stream may close during a replay; connections break | every event once and in order |
| Platform service and page (`OperationAssistantService`, `...Controller`, `useOperationChat.ts`) | row of the Run, artifacts, SSE sessions, pages | submit, project an event, send it on, cancel, reconnect, reload | several sessions project the same events; calls to the Agent inside a transaction; the answer to a call is lost | the row tells what the Agent did |
| Budget lease of a research Run (`core/budget_lease.py`, `providers/research/transport.py`, `harness/research_local_runtime.py`) | ledger (used, reserved), leases, terminal scopes | reserve, dispatch, settle, mark terminal, freeze | calls in flight together; unknown results; late answers; timeouts that look like cancellations | never over the limit; nothing delivered after the end |
| Research Run (`orchestration/research_v2/`, `harness/research_local_runtime.py`, `persistence/research_local_memory.py`) | the state of the graph (ids), the facts in the store, the worker, the stored delivery | plan, discover, acquire, cluster, extract claims, assess, compose, verify, render, materialize; finish, cancel | a round is cut off at any point by budget, time, cancellation or an error; state and facts are written one after the other; the worker of an ended Run goes on | the delivery is one assessed round, called what it is; an ended Run stays as it is; every Run ends |
| Scenario supervisor and scheduler (`orchestration/supervisor.py`, `strategies/multi_agent/scheduler.py`, `agents/operation/supervisor/`) | task graph, statuses, envelopes, the wave under way, candidates tried | allocate, run a wave, try a candidate, time out, cancel, decode, aggregate | the tasks of a wave run in parallel over one ledger; answer, timeout and cancellation race; a success that does not decode | inputs complete; enough waves; an honest verdict; every scenario ends |
| Operation budget ledger (`agents/operation/supervisor/budget.py`) | allocations, budgets in force, consumption, what is left of the pool | allocate, hand out what is left, cap, consume | integer shares; tasks ask in any order | never over the work pool; a budget never grows |
| Supervisor graph (`strategies/multi_agent/nodes.py`, `routing.py`) | attempts, fence, plan revision, pending question | plan, revise, ask, resume | waits and restores | registered by tests only at this commit |
| Conversation service (`agent/conversation/service.py`) | futures of submissions under way, answers to remembered request ids, one context with a turn lock per conversation, the slot of each Run, two hand-over stores | submit, prepare, hand over, hear of a Run's waiting or end, cancel, resume | repeated request ids; contexts evicted and expired while something refers to them; a listener that hears late | never more Runs than admitted; whoever waits is answered; slots come back; only live Runs pin a context |
| Task broker (`tasks/broker.py`) | queue, leases | enqueue, claim, ack, redeliver | a worker dies, a lease expires while it works | at least once, no lost task |
| Tool and model runtimes | attempts, records | invoke, retry, fall back | timeouts, retries of what was already done | attempts bounded, usage recorded |
| Durable research budget (`persistence/research_budget.py`) | SQL ledger | as the lease | workers in different processes | as the lease |
| Customer service (`agent/agents/customer_service/service.py`, `CustomerServiceApplicationService`, `CustomerServiceEventProjector`, `useCustomerServiceChat.ts`) | the Agent's Run and its events in memory, the row and the message in the database, subscriptions, the page | submit, bind, append, project, replay, subscribe, cancel, refresh | nobody follows a Run but the pages that look at it; subscriptions outlive their pages and project at once; answers to calls are lost | the stored and the shown answer are the Agent's, once and in order; its end is stored |
| Knowledge base (`KnowledgeDocumentService`, `KnowledgeImportService`, `KnowledgeReleaseService`) and the Agent's index (`agent/agents/customer_service/`) | versions, tasks and items, batches, releases, pointers; ingest jobs, chunks, members of releases | upload, retry, poll, publish, roll back; parse and embed, verify | drawers that ask at once; a publication is a chain of calls and transactions; either side restarts | what is served is what is shown; it can be answered from; no publication is lost; tasks and publications end |
| Interpretation of messages (`agent/orchestration/intent_v2/`), answering (`agent/agents/customer_service/graph.py`) | none that outlives a call | model calls | - | - |
| Management of AI releases, files (Java) | releases, objects | publish, roll back, store | optimistic locks | one active release |
| Prompts, scenarios, configuration, redaction, logs, rendering | data | - | no protocol | - |

`PROJECT.json` lists every one of them under `components`, also those that are not modelled, with the reason, and under
`hazards` what can go wrong in the code, at its line.

## 2. Modules

| Module | Stands for |
|---|---|
| `RunStatus` | the statuses of a Run and the table of legal moves (`core/run.py`) |
| `RunContract` | abstract: what the Harness promises its callers about Runs |
| `RunLifecycle` | the Harness: all coroutines that touch Runs, one action per repository or event-store call |
| `RunInvariant`, `RunHistory` | the two inductive invariants of `RunLifecycle`: who may hold a Run, and what each coroutine finds |
| `RunProofs` | its theorems |
| `OrderedDelivery` | abstract: every reader gets every event once and in order; `EventStream` and the row of `RunProjection` implement it |
| `EventStream` | `EventHub`, the SSE coroutine and the client's reconnecting loop |
| `EventStreamProofs` | its theorems |
| `RunProjection`, `ProjectionProofs` | the Java service and the pages around one Run, and their theorems |
| `BudgetLease` | the budget shared by the calls of one research Run |
| `BudgetLedger` | the operators of the ledger that splits a scenario's budget among its tasks |
| `ScenarioWaves` | the supervisor and the scheduler running one scenario over that ledger |
| `BudgetProofs` | what sums over finite sets obey (`SumFunctionOnSet` of the community modules), and the theorems of both budgets, which rest on it |
| `ResearchRun` | the stages of one research Run, its delivery and the runtime that ends it |
| `ResearchHistory`, `ResearchProofs` | the inductive invariant of `ResearchRun` and its theorems |
| `Conversation`, `ConversationProofs` | the Agent's front door: from messages to Runs, contexts, slots and hand-over, and its theorems |
| `KnowledgeIndex`, `KnowledgeProofs` | documents, their processing and the index releases, in Java and in the Agent, and their theorems |
| `CustomerAnswer`, `CustomerProofs` | one question to the customer service, from the page through Java to the Agent and back, and the theorems |
| `MC...` | the constants and definitions of the TLC instances |

How they compose. `RunLifecycle` refines `RunContract` (property `KeepsContract`: the repository's status is the
abstract status, a cancellation request on record is the abstract acceptance). `EventStream` refines
`OrderedDelivery`. `RunProjection` builds on both: its Agent moves as `RunContract` lets it, and its Agent stream is
an index into a gapless list because that is what `OrderedDelivery` promises; an event that is lost on the way from
the Agent to the Java service is a broken session. `ScenarioWaves` EXTENDS `BudgetLedger` and is one way a graph of
`RunLifecycle` goes from `StartRun` to `GraphReturns`. `ResearchRun` is the work whose calls `BudgetLease` pays for:
a call that finds no room there is one way its `CallFails`, and its `Finish` comes with the `Freeze` there.
`Conversation` stands in front of `RunLifecycle` and sees of a Run what `RunContract` says of it: not yet ended,
asked to stop, ended; its action `Create` is the Harness's creation of a Run with a unique request id.
`KnowledgeIndex` and `CustomerAnswer` meet only in contents (a question is answered from the chunks of the release
that is served), so they are separate.

### RunLifecycle

Processes are the coroutines: `Callers` serve API requests, and the background task of Run `r` is the process `r`
itself. `pc[p]` is the next call a coroutine makes, `job[p]` its local variables: the Run as it last read or wrote it
(`snap`), the status it wants to write (`target`), whether the error or result it carries includes the usage of the
preparation (`charged`). Each action runs from one `await` on a store to the next:

- creating: `LookupRequest`, `InsertRun`, `RecordCreated`, `QueueRun`, `RecordQueued`, `SpawnTask`;
- the pipeline's preparation: `PrepareGuard` to `PrepareCheck`;
- executing: `LoadQueued`, `SelectStrategy`, `StartRun`, `RecordStarted`, `GraphReturns`/`GraphRaises`, and the
  failure path `FailLoad`, `FailStart`;
- applying a result: `ApplyLock` (takes `_run_state_lock` and reads), `ApplySave` (saves and lets go), then the events
  `RecordCheckpoint`, `RecordBudget`, `PublishResult`, `RecordOutcome` outside the lock;
- resuming: `LoadWaiting`, `MatchCheckpoint`, `ResumeRun`, `RecordResumed`, then the graph as above;
- cancelling, under the lock throughout: `CancelLoad`, `RecordCancelRequest`, `CancelTry`, `CancelReload`,
  `RecordCancelled`;
- settling a background failure: `SettleLoad` to `SettleSpend`;
- `Restart`: the repository, the event store and what clients know survive, everything else is gone.

A graph is any outcome, plus the number of the question its checkpoint stores. The contents of requests, plans and
answers are left out; usage is reduced to whether the preparation's share is in the stored record. `reported` are the
Runs whose preparation handed its usage over, with its result or with its error, `lost` those that failed with an error
that says nothing of what was paid (`PrepareFails`, section 5).

### EventStream

An event is its sequence number. A connection goes `opened` (registered, its queue fills), `replay` (the history it
read, being sent), `live` (the queue). `Open` and `Replay` are two steps, since taking the hub's lock is an `await`;
each send is one. The client keeps the last id it got and a number of tries; `Drop` breaks a connection with whatever is
under way on it, `Follow` is a page that asks for the events of a resumed Run. Keep-alive comments change no state. The
deployed browsers read this stream through the Java service, whose reader follows the same protocol as the client here.

### RunProjection

The Agent's Run is a status, a pending cancellation and the events still due. The row is (status, last sequence, whether
the Agent's Run id is known). A transaction that calls the Agent while it holds the row (`SubmitMessage`, `CancelRun`)
is split at the call, with the row as it was read kept in `call`; while it is open nobody else gets the row (`RowFree`,
`SELECT ... FOR UPDATE`). A session reads the Agent's stream from the larger of the page's and the row's sequence,
projects an event (`ProjectEvent`, or `ProjectionFails` and `FailEventProjection`), then sends it (`SendEvent`). The
Agent's side of a session is the position of the last event it replays (`replay`): a stream that is closed during the
replay ends there, without `stream_done` (`Complete`), and the page spends a reconnect on the rest. A page reconnects
a bounded number of times, stops at a question or at the end, and may be reloaded.

### BudgetLease

One Run, a set of calls, each with the charge it reserves. The repository's `asyncio.Lock` is never held over a
suspension, so it is never contended and a caller's reserve, retry after a version conflict and dispatch are one step;
the version itself is therefore left out. The five dimensions of a charge are one number. `Return`, `Break`,
`SlowSource` and `Cancelled` are the ways a call ends in `transport.py`, `capabilities/model/runtime.py` and
`tools/runtime/service.py`; each settles. `Freeze` is `_mark_terminal` at the end of the Run. Nobody reserves for the
stage "output" at this commit, although its part of the limit and its last 35 seconds are kept back from everyone else,
so no call of that stage is modelled. Its
names differ from those of `ScenarioWaves` (`LeaseNext`, `LeaseTypeOK`) because one module proves about both.

### ScenarioWaves

One scenario. `plan` is the compiled graph with the budgets its tasks ask for, `status`, `delivered` and `ledger` are the
supervisor's `task_statuses`, `envelopes` and `BudgetLedger`, and `job[t]` is where the coroutine `_execute_node` of task
`t` is: about to try the candidate of its `turn`, `working`, `answered`, or closed with an outcome. The supervisor's loop
is `StartWave` (`run_wave` takes the first ready tasks), `EndWave` (statuses, envelopes and newly ready tasks in one
step, there is no `await` in between), `AbandonWave` and `BreakOff` (a cancelled outcome, a cancellation found before
the next wave) and `Conclude` (aggregation, the supervisor's override for partial deliveries, the service's check). A
task goes `Unbuilt` or `Dispatch` (the ledger's `budget_for`, then the deadline), `Answer`, `Collect` (`consume`, the
outcome or the next candidate), and may `Expire` or `Stop` (timeout, cancellation) also after the specialist has
answered and before the scheduler has taken the answer. A result is a decodable envelope, a garbled one, a refusal or an
exception; `Producers` are the tasks whose envelopes hold a deliverable. A ledger entry is a function over two
dimensions instead of six: one that a task cannot run without (as iterations and time), one that may be zero.

### ResearchRun

`state` is the graph's state and `facts` the store's; a stage goes `Enter` (`run_stage` up to the work), its own
action (what it saves and returns, one step each, since the store's lock is never held over a suspension), and
`Leave` (the last look at the control; then the node's own update, `NodePatch`, and the route). `BudgetStop` may
replace either end: it puts the ids of the last assessed round back. Documents are left out: which events a round
finds (`Cluster`), which claims (`ExtractClaims`) and which of them pass the gates (`Quality`) is chosen within what
the code allows; a claim stands for itself and the evidence it cites. A draft and a delivery are the record of what
they are computed from (`Draft`), so that comparing them means what comparing their contents means in
`materializer.py`. `Wake` is `_execute` after its wait: cancellation, deadline, result, in this order.
`SaveSnapshot` stores the delivery and closes the Run, `CallerLeaves` is a cancelled `research`, and `WorkerDropped`
the cancellation of a worker nobody waits for any more. `cancel` has two stages because the stages look at a
listener of their own, which hears of a cancellation after the store does.

### Conversation

`call[k]` is one call of `submit`: it is refused, answered from memory, waits for another caller's future, or creates a Run
(`Create`, `CreateFails`) and registers it (`Register`, which is `on_queued` and the start of the background task). Contexts
are entries named by identity, not by conversation, because an evicted entry lives on as long as a Run or a task refers to
it; `Entries` are named again once nothing does; a
submission is only made while there is one to spare (`Spare`), which there always is in the instance. `contexts` and `cached` are in the order of their use. The hour after
which an answer or a context expires is a nondeterministic choice among those nothing is under way for, since a Run has
five minutes. `pipe[r]` is the background task: `TakeTurn` (the conversation's lock), `Decide` (what the message is),
`PutDirect` or `PutScenario` (hand-over), `StartGraph`, `FinishGraph`, or `PrepareFails`. `due[r]` are the notifications of
the Harness to `on_run_state` that have not arrived: `HearWaiting`, `HearFinal`. `astray` is a history variable: the
requests that `submit` itself loses track of (section 5).

### KnowledgeIndex

An attempt to process a version is one record: the Java task and item (written together), how far the request that
created them is (`submit`), and the Agent's job. `NoReadUrl` is a submission that raises before it is sent, `Accept` is
the Agent's side of the call, `SaveReply` or `SubmitFailed` what Java writes, `FailVersion` and `FinishBatch` the writes
after it. A drawer's `getTask` is `PollAsk` (the row is read and the Agent asked), `PollSave` (the task is written) and
`PollProject` (`projectTerminal`). A publication is `Build`, `Verify`, `MarkReady`, `Activate` or `Abandon`; a rollback
is `RollbackCheck`, `RollbackRead`, `RollbackSwitch`. `Switch` is the transaction both share. `PlatformCrash` drops what
the Java requests are doing, `AgentRestart` the jobs; databases stay. The Agent's check that a version is in no release
and the replacement of its chunks are one step. `plan` chooses where a behaviour starts and how far it goes.

### CustomerAnswer

`agent` is the Run's status and its log of events; a piece of the answer is named by its sequence number, and events
that are neither pieces nor an end are `step`. `call` is the submission in Java: pending rows, the Agent, one repetition
when the answer is lost, then `Bind` or `FailRow` and `FailMessage`. A subscription `sess[s]` is the Agent's generator
(`Turn`, `Wake`, with the end of the log it took) and Java's `project` of each event, in two steps, because what it
reads (`Locate`) may be old when its conditional update runs (`Project`). Sending an event and its receipt are one step;
a subscription whose page went away has no `owner` and ends at some later send. A page opens the timeline (`Open`;
`OpenUnread` when it could not be read), connects (`Connect`: replayed from the database, refused, or subscribed to;
finding the Run and subscribing is one step), may lose the connection (`Break`), asks for the stored state at the end
(`Refresh`, whose reads may fail: then it keeps its text, its status or both), cancels or leaves.

## 3. Runs

| Run | Instance | Shows |
|---|---|---|
| `run_races` | one Run, three callers, two waits, one restart; about 680 000 states | safety of the lifecycle: `SingleExecution`, `LogAgrees` (`OneOutcome`, `ResumedOncePerWait`), `CancelRetriesSuffice`, `LockedSnapshotCurrent`, `UsageKept`, and `KeepsContract` |
| `run_progress` | one Run, two callers, two waits, no restart; about 94 000 states | `RunSettles` (and its end is announced), `CancelTerminates` under fairness |
| `stream_order` | two readers, three events, three broken connections; about 190 000 states | `NothingMissed`, `InOrder` (refinement of `OrderedDelivery`), `EndReaches` |
| `projection` | one page, two sessions, two drops or reloads, two reconnects, failing stores; about 1 709 000 states | `RowInvariant` (`SucceededComplete`, `CancelledStops`), `NeverUndone`, `RowSettles` |
| `shown_failed` | one page, two sessions, nothing breaks or fails | finding: a waiting Run stored as failed |
| `lease` | two model calls, two sources, wanting one more unit than there is; about 133 000 states | `LedgerInvariant` (`Balanced`, `WithinLimit`), `HonestDelivered`, `NothingAfterTheEnd` |
| `research` | one Run, two events with a claim each, three briefs, three rounds; about 1 360 000 states | `ResearchInvariant` (`SelfConsistent`), `HonestOutcome`, `EndIsFinal`, `ResearchConcludes` |
| `scenario` | four tasks in three graphs, two budgets, two at a time, two candidates for two of them; about 370 000 states | `DepsDelivered`, `BudgetInvariant` (`WithinPool`), `WavesSuffice`, `VerdictHonest`, `NeverGrows`, `Concludes` |
| `conversation` | three calls, two requests of one or two conversations, one context, one remembered answer, two slots; about 285 000 states | `SlotInvariant` (`SlotsBounded`, `DirectHandedOver`), `PinnedForLive`, `RequestsEnd` (`AnswersArrive`, `SlotsFreed`) |
| `retry_answered` | the instance of `conversation` | finding: a retry that is never answered |
| `knowledge` | three publications and a rollback of three versions, or an upload with its attempts, two drawers and a crash; about 172 000 states | `IndexInvariant` (`ServedIsShown`), `Answerable`, `NothingLost`, `TaskSettles`, `PublicationEnds` |
| `customer` | one page, two subscriptions, one reconnect, three events before the result; about 583 000 states | `StoreInvariant` (`AnswerWhole`), `EndsAlike`, `ShownFaithful`, `AnswerStored` |

The type invariant of a module is checked together with its safety invariant (`RowInvariant`, `LedgerInvariant`,
`BudgetInvariant`, `ResearchInvariant`, `SlotInvariant`, `IndexInvariant`, `StoreInvariant`); those of
`RunLifecycle` and `EventStream`, and the inductive invariant of `RunLifecycle`, are proved (section 4) and not
checked again.

**Why these bounds.** Runs share nothing but the state lock and tables keyed by Run, so one Run with several coroutines
has all conflicts between writers of a record; the theorems below cover any number of Runs and callers. Three callers
are the fewest with a cancellation, a resume and a third writer at once, two waits the fewest in which a stale answer or
a second resume exists, and one restart the fewest that loses memory at any point. Two readers with different cursors
are enough for replay and live sending to overlap, and three events let one be in the history, one in the replay and one
in the queue; the stream's theorems hold for any number. A page that breaks off or is loaded anew leaves a session
behind, which goes on projecting beside its new one, so one page and two sessions give two projectors of the same event;
two reconnects are the fewest that survive a drop and an early end of the Agent's connection together. What the row and
its position keep is proved for any number of pages and sessions. The lease's instance has calls of two sizes whose sum
exceeds the limit by one, so that the order of reservations decides who is refused, and one unit of excess makes a model
go over. A scenario of four tasks with two at a time has a chain that needs every wave, a wave that is too narrow for
the tasks ready, and a task that waits for two others; one request is more than the pool, so that shares are rounded,
and one is less, so that there is something left to hand out; the smaller agent comes before the larger one for one task
and after it for the other. The scheduler of the service takes four tasks at a time. Of two events with claims of
different kinds a round can find none, either or both: enough to lose one and gain the other, to fall short of an exact
number, to miss a required kind, and to find more than asked for; the second refill round is the last the code allows,
and the first that can go without gain twice. A conversation service with room for one context and one remembered answer
evicts at every second message, two slots let one Run wait while another is created, and three calls give two requests
of which one is repeated while its owner, its Run or its listener is at any point. Three releases of two documents are
the fewest in which a candidate, a publication that overtakes it and a third that is built in between all exist, and a
rollback crosses each of them; two attempts and two drawers give an answer that is written late and one projected twice;
a crash of either service comes at every point. With one page, a second subscription is one the page left when it broke
off, went away or came back, so that two project the same event; three events before the result give a title or stage
and two pieces, in any order, before, between and after two subscriptions begin. `MaxWaits`, `MaxRestarts`, `MaxEvents`,
`MaxDrops` and `Excess` are bounds of the models, not of the code; so are `Placements`, `MaxCalls` and `Entries`,
`Plans`, `Sessions` and `MaxLog`. `MaxReconnects` is the client's limit of reconnects (smaller here than in the clients,
where it is 3), `MaxContexts`, `MaxRequests` and `MaxActive` are settings of the service (larger there), and
`CancelTries` is the code's.

**Deadlock** is not checked in any run: a Run that has ended, a stream with no reader left and a settled ledger are
where these systems stop. That they do not stop earlier is what the liveness properties say.

**Fairness.** Every coroutine that can take a step eventually does (weak fairness per coroutine): the event loop runs
all ready tasks, each model call and each tool call has a timeout, and the graph has the Run's deadline. Nothing makes a
client send a request (`Request` is outside the fairness), nothing makes a Run restart, a connection break or a user
stop. In `RunProjection` a session has strong fairness: it waits for a row lock that cancellations take again and again,
and the database grants row locks in turn. In `ScenarioWaves` the supervisor and the scheduler's side of every task are
fair; that a specialist answers is not assumed, its timeout ends it (on the assumption that a specialist does not
swallow the cancellation the timeout sends: the scheduler waits for it to end). In `ResearchRun` every stage ends, since
its calls run under timeouts, and the runtime wakes up; the deadline is not fair, so a Run ends without its help. In
`Conversation` every task and every notification goes on; users submit, cancel and resume as they like. In
`KnowledgeIndex` requests and jobs go on; that anybody asks for a task is the assumption `Watched`, a drawer that stays
open and asks every three seconds (strong fairness, since `plan.tabs` bounds how many ask at once). In `CustomerAnswer`
subscriptions go on, the database does not refuse projections for ever, and `Watched` says that somebody keeps coming
back to the question: without that nothing is stored, which is how the code is made (section 5).

### Findings

1. **A browser that is gone makes a Run fail** (`shown_failed`, `OperationAssistantController.java:130`). Projecting and
   sending share one `try`; the page stops reading at a question, and the next event's sending fails.
2. **A retry is never answered** (`retry_answered`, `conversation/service.py:707`). A submission that is refused
   because every context is pinned leaves its future behind. The error is marked as retryable, and the retry waits
   for that future; the lost future counts as a slot for ever.

## 4. Proofs

The theorems hold for every value of the constants that satisfies the named assumptions: `ProcessesDistinct` and
`BoundsNatural` (`RunLifecycle`), the bounds of `EventStream` are natural numbers, `LeaseAssumption` (`BudgetLease`),
`LedgerAssumption` and `WavesAssumption` (`BudgetLedger`, `ScenarioWaves`; nothing is assumed of the graphs but that they
are over the tasks), `ProjectionAssumption` (`RunProjection`: the bounds are natural numbers, `None` is not a session),
`KnowledgeAssumption` (`KnowledgeIndex`: finitely many versions, each of one document), `CustomerAssumption`
(`CustomerAnswer`: the bounds are natural numbers, `Nobody` is not a page), `ConversationAssumption` (`Conversation`:
finitely many requests, positive capacities, `None` is neither a request, an entry nor a conversation), and
`BriefsAssumption` and `NoneAssumption` (`ResearchRun`: briefs ask for kinds of claims that exist and for at least one event, the documents tell
of finitely many events, and `None` is neither a set of events nor one of the words a refusal is written with).
TLC evaluates each of them in the runs of its module.

- `RunProofs!TypeCorrect`: the type invariant of the lifecycle, one step per action.
- `RunProofs!Invariance`: `Spec => []IInv`. None of the interesting invariants is inductive by itself. `IInv` says,
  for each coroutine under way (`Local`): what it read is the stored record or an older version of it (`Fresh`); who is
  between taking and releasing the state lock has it (`Locks`); who may still queue, start, execute or fail a Run finds
  it neither waiting nor absent (`Holds`); the record a result is about to replace is the one that was read
  (`Applies`); and a cancellation on record is signalled to whoever could still publish a result (`Signalled`). Of two
  coroutines with one Run (`Apart`), one no longer holds it or the Run has ended, and never are both busy with it. It
  carries over because a version is written once: the second writer finds its snapshot older than the record.
  From it follow `ExecutesOnce` (`SingleExecution`) and `SnapshotCurrent` (`LockedSnapshotCurrent`).
- `RunProofs!ContractKept`: `Spec => Contract!Spec`. Every step of the lifecycle is a legal move of the status, an
  acceptance, or a stutter of `RunContract`; a move after an acceptance is to a status the contract allows because
  `Signalled` makes the writer decide for "cancelled".
- `RunProofs!CourseKept`: the invariant `Course` of `RunHistory`, relative to `IInv`. For each step of a coroutine it
  says what is stored when the step is reached: the status of its Run (`Phase`), where the usage of the preparation is
  (`Usage`: not yet paid for, held back, or in what the coroutine is about to write), that a writer writes over what it
  read (`Informed`), and what became of a question (`Questions`); and for each Run that its resumptions, with one that is
  under way, are as many as the questions answered (`Counts`). `UsageReported` (`UsageKept`: usage that was handed
  over reaches the final record by whichever path writes it) follows, and `ResumedOnce`:
  two answers to one question race, and one of them finds the checkpoint gone.
- `RunProofs!OneStory` (`LogAgrees`): an event is appended after the write it reports, outside the lock, so the log and the
  repository disagree in between. `Told` says that of all coroutines at most one still owes the log the end of a Run,
  and none once the log has it.
- `RunProofs!RetriesSuffice` (`CancelRetriesSuffice`): why three attempts are enough. Once the cancellation is signalled,
  the coroutine that holds the Run has at most two writes left that do not take the state lock (`Left`: the launch, and
  the usage of the preparation), each can overtake the cancellation once, and nothing adds to them; so the attempts lost
  and the writes left are never more than two (`Patience`).
- `EventStreamProofs`: the inductive invariant is `Shape`, that is `TypeOK`, `NothingMissed` and a bound on the tries.
  `StreamTypeCorrect`, `NoHole` and the refinement `DeliveredInOrder` follow; in the refinement a send is the abstract
  `Receive` exactly because the next event is the one at hand.
- `BudgetProofs`, first part: a sum over a finite set does not depend on the order in which it is formed. The library has induction
  only with an operator as its parameter, so the induction is stated over sets: a set of subsets that has the empty set,
  and a set whenever it has that set without one element, has them all (`SubsetInduction`, from the well-foundedness of
  the strict subsets). From it: a sum changes by as much as one amount in it, is monotone, and is a natural number.
- `BudgetProofs`, the lease: `FrozenForGood` (`NothingAfterTheEnd`), from the invariant that a Run that ended has its scope marked.
  `LedgerTrue` (`LedgerInvariant`) and `NothingWithheld` (`HonestDelivered`), from `LeaseInv`: what is used and what is
  reserved are the sums of what the calls have spent and still hold (`Balanced`), and they exceed the limit by no more
  than the calls went beyond their estimates (`WithinLimit`).
- `BudgetProofs`, the scenario: `InputsComplete`, `RoundsSuffice` and `VerdictAgrees` state `DepsDelivered`, `WavesSuffice` and
  `VerdictHonest`. They share one inductive invariant: a task has succeeded exactly if its envelope is there, a ready one
  has all it depends on, a pending one misses something (`Accounted`); who is under way belongs to the wave (`Jobs`);
  and, the step that needs counting, the unfinished tasks are at most as many as the waves left, one more during a wave
  (`Enough`). A wave is never empty (`FirstNonEmpty`: some ready task has the least id) and finishes every task in it.
  `PoolKept` (`BudgetInvariant`) and `BudgetsOnlyFall` (`NeverGrows`) are about the integer shares: the floors of all
  shares sum to at most the pool, what is left over is less than the number of tasks, and the rank decides who gets one
  more, so that no two tasks get the same unit; a redistribution hands out only what tasks that are through did not use,
  which needs to know that only they have been charged (`Charged`).
- `ProjectionProofs`: `RowTrue` and `RowNeverUndone` state `RowInvariant` and `NeverUndone`, from the inductive invariant
  `RowInv`. That a success is complete needs to know that no event was skipped: until the row is final, no session and no
  page is ahead of it and everything delivered up to its position is stored (`Seen`), so the event a session projects is
  the very next one; and the end of a Run is the last event it will ever publish (`Ending`). That a cancellation is true,
  and overwrites nothing, needs the transaction around the call: the row under the lock is still the one that was read, and
  the Agent's answer still holds (`Held`, `Stopping`). `RowInOrder` is a refinement, `Spec => Delivery!Spec`: the row is one
  more reader of `OrderedDelivery`, though it has no connection of its own and any session may read for it. Each
  projection and each failure that moves the row is the abstract `Receive`, because `Seen` makes the event the next one
  and a session only fails over an event there is (`FailsOver`); writing back the row read before a cancellation is a
  stutter of it, because the row was locked.
- `KnowledgeProofs`: `ServedAgrees`, `AnswersPossible` and `NoPublicationLost` state `IndexInvariant`, `Answerable` and
  `NothingLost`, from the inductive invariant `IndexInv`: a job that succeeded has left its chunks (`JobsStored`); a
  candidate is an earlier release with one document replaced, one version of each (`Formed`); it gets past its
  verification only with its members and their chunks at the Agent, and what a rollback chose had done so (`Verified`).
  `activate` then finds that the current release is the candidate's base, so nothing is lost; a crash between a call and
  the write behind it disturbs none of this.
- `ResearchProofs`: `ClosureNeverRefused`, `DeliveredHonestly` and `EndKept` state `ResearchInvariant`, `HonestOutcome` and
  `EndIsFinal`. The inductive invariant `History` has two parts for each stage: a state the routes can have led to
  (`Shape`: before a stage that collects neither the budget nor the time is marked as used up, a draft is begun only with
  something qualified or an honest nothing, the verdict is the one of the state it is written in), and what the facts
  in the store say about it (`Agree`: the same evaluated round, except that from clustering to the next evaluation the ids
  in the state are ahead; the draft, its acceptance and the delivery are those of this state). It holds of what a stage
  finds and of what the next one will find once the update that is being returned is taken (`Leaves`): a stage saves its
  facts first and its update of the state is dropped if the Run was stopped in between, so the two are apart just when
  nobody reads them any more, because a stop is for good. `BudgetStop` returns to the round in the facts, which is why the
  materializer never meets half a round.
- `CustomerProofs`: `AnswerStoredWhole`, `StoredEndAgrees` and `ShownWhole` state `StoreInvariant`, `EndsAlike` and
  `ShownFaithful`, from the inductive invariant `CustomerInv`: the row has counted a prefix of the log and the message has
  its pieces (`RowOK`), an end is the log's last event (`StoryOK`), and no subscription has sent what the row has not
  counted (`SessionOK`), so that a projection that comes too late is one whose event is stored already. A page has the
  pieces up to its cursor, and a subscription it owns starts right there (`Owned`, `ViewOK`). `Pieces` is a recursive
  function; that it takes exactly the pieces of a range in their order, and that ranges join, is an induction over sets
  of numbers, as for the sums. `AnswerGrows` is an action property: the message changes only by the piece of the event
  the row moves on to, although what is written was read before the conditional update, because an update that applies
  finds the row as it was read (`SessionOK`); and `FailRow` and `FailMessage` take back nothing that was told, because a
  Run that is not bound has projected nothing (`Binding`, `NothingTold`).
- `ConversationProofs`: `SlotsKept` and `PinsReleased` state `SlotInvariant` and `PinnedForLive`, from the inductive
  invariant `ConvInv`. A submission has the future of its request to itself and the Run it created nobody knows of yet
  (`CallsOK`), so that what is pending turns into a slot one for one (`SlotTaken`), and so that nobody ends the Run
  before it is registered. A context is its conversation's only one and what refers to an entry belongs to its
  conversation (`TalksOK`), which is why a listener that puts an entry back displaces no other conversation's. A Run
  pins only the entry that holds its slot (`PinsOK`), and one that ended with its slot is about to be heard (`EndsOK`); the
  requests `submit` loses track of (`astray`) are exactly where these two fail. `Without`, the filter behind eviction and
  expiry, is a recursive function, and what it leaves is an induction over sets of numbers. `OneRunPerRequest` is an action
  property on top of `ConvInv` and `Driven` (a graph works only for a Run that runs): a request has one Run whose task
  starts once, together with the first answer that names it, and nothing changes the Run after its end: neither a
  preparation that comes late, nor a cancellation, nor a repeated submission that finds it over.

The properties `Grows` (`AnswerGrows`) and `OneRun` (`OneRunPerRequest`) and the refinement of `RowInOrder` are proved and
not among the properties of a run.

**Only model-checked** is all liveness: it and `ENABLED` are out of the prover's reach altogether, as is what a recursive
definition computes for every input, beyond what an induction over sets of numbers says of `Pieces` and `Without`.

## 5. What is not modelled, and known limits

- Failures of the stores themselves, the `on_queued` callback, live text deltas, and `create_and_execute`, which no route
  of the deployed service calls (`api/routes.py:89-92`).
- The usage of a Run that is cancelled while its preparation is being saved is lost by the code
  (`harness/service.py:373`); `UsageKept` is stated for other ends, and for usage that was handed over: a preparation
  that has paid for the interpretation of a message and then fails in the resolver, over an unknown scenario or at the
  submission (`conversation/service.py:956-960`, `983`, `994`), or whose result is refused
  (`harness/service.py:339-348`), raises an error that carries no usage, and the Run ends FAILED without it (`lost`).
  The usage of the first segment of a Run whose resume fails is not part of the model (`harness/service.py:1078`).
- After a restart, a running Run that is then cancelled gets its signal and no task that would act on it.
- In the Java service a cursor is the larger of the page's and the row's position, so an event that was projected but
  lost on its way to the page is not sent again: the page finds its messages after a reload. A cancellation of a Run that
  the Agent has already ended raises an error there, and the transaction rolls back. A Run whose question is shown may
  end unseen, by a cancellation whose answer is lost; `RowSettles` therefore stops at a question.
- The SQL form of the budget lease has no caller in the service at this commit. Read beside the form in memory, it keeps a
  reservation that is refused at dispatch, marks the whole ledger instead of one stage, and would meet the counter of
  invocations starting again after a restart; the hazards name the lines.
- The ledger's `release_unstarted`, `reserve_revision`, `snapshot` and `restore` have no caller at this commit. Read
  beside `_redistribute`, the check of a restored ledger (`budget.py:511`) refuses one that has handed out its leftover.
- Of a research Run: the draft generator and the second collection it may ask for (`verify` to `plan`), which no
  wiring of the service passes; the sizes and ages at which the store lets Runs go.
- Of a scenario: the research that prepares its inputs (`_prepare_research`), its progress events, the quality gate
  behind the verdict (`agents/operation/scenarios/service.py:127`). The supervisor in graph form with revisions and
  questions (`strategies/multi_agent/nodes.py`) is registered by tests only; read beside its state, `route_after_reconcile`
  (`routing.py:6`) schedules another wave for as long as a task has failed and the status is not final.
- Contents: prompts, plans, answers, artifacts, citations, ranking, redaction.

**Known limits of the code**, met while modelling and not stated as a property of a run:

- Lifecycle. The binding a resume request must repeat (checkpoint, request, plan revision, fence) does not change from one
  question to the next, so an old answer would be taken for a new question (`contracts/operation_resume.py:74`,
  `strategies/multi_agent/nodes.py:337`). Background tasks and checkpoints are in memory only, so a restart leaves Runs that
  no task will end (`harness/service.py:199`); `RunSettles` is checked without a restart.
- Event stream. After a replay the code asks whether the stream is closed, not what its queue holds (`api/sse.py:79`), so a
  connection may end without `stream_done`; the client comes back for it at the price of one reconnect.
- Budget lease. The limit of a single request to a source is met by the same exception as the cancellation of the Run, and
  marks the scope as ended (`providers/research/transport.py:312`); `SlowSource` is that action.
- Research. Every refill round clusters and judges all documents anew and replaces what was qualified
  (`stage_runner.py:1052`), so a Run stopped by a limit may have lost what an earlier round had, and end FAILED; the
  design keeps "已合格结果" (what has been qualified). A gain counts events and the number of gaps, never claims, because
  `quality` returns no claim ids. Nothing found after a complete search (`NO_MATCHES`) is finished as completed and
  refused by the store that keeps deliveries (`local_live_research_factory.py:386`), so the Run fails. The
  thirty-first body in the first round ends the research with its documents unjudged. More events than an exact or
  "at most" brief wants fail the whole Run (a deliberate choice, tested). A delivery that was being stored when its
  Run was cancelled may be stored.
- Conversation. The submission of a scenario is stored without asking whether its Run still has a slot
  (`conversation/service.py:994`), unlike a direct one, and stays in the store when the Run was cancelled before; an
  evicted conversation gets a second turn lock while the first is still held (`:1474`); a repeated request id with
  another message is not compared while the first is pending (`:697`).
- Knowledge. Two drawers ask for one task; the slower projection may come after the version was published and set it
  back to ready while the index serves it (`KnowledgeDocumentService.java:353`). A batch is only brought up to date when
  somebody opens a task of it: `getBatch` reads (`KnowledgeImportService.java:42`). `finishBatch` may write RUNNING over
  a summary that is already final. Retrying an old failure twice leaves an item PROCESSING, because only the latest item
  is projected. A crash between the transaction of an upload and the call leaves the version PROCESSING, and a restart
  of the Agent loses its jobs. A retry of an old failure of a version that was published since is refused by the Agent,
  and the version is shown as FAILED while it is served. A verification whose answer is lost leaves its members at the
  Agent. The read URL of a file is made before the `try` of `submit` (`KnowledgeDocumentService.java:256`): when that
  raises, the task stays QUEUED and the version PROCESSING, and no drawer can end it, since there is nothing to ask the
  Agent for; only an import marks its item and its batch as FAILED. `TaskSettles` excludes such a task (`NeverSent`).
  `TaskSettles` and `PublicationEnds` exclude crashes.
- Customer service. Nobody but a page follows a Run: a row nobody looks at stays RUNNING. If the answer to a submission
  is lost and the Agent's Run has ended when it is asked again, the row is bound as ended, no event is ever projected
  and the message stays PENDING; `EndsAlike` speaks of rows that saw an event, `AnswerStored` leaves this row out the
  same way. A submission that fails twice leaves the Agent's Run running unobserved; a crash of Java during it leaves
  the row PENDING. A restart of the Agent leaves the row RUNNING. A cancellation before the row is bound is dropped. A
  broken read is not retried by the page. The page ignores that its last reads fail
  (`useCustomerServiceChat.ts:160-162`): having seen `run.completed` it shows SUCCEEDED with the text it was sent,
  without the pieces that another subscription projected first, until it is opened again; `ShownFaithful` speaks of
  pages that have taken the stored messages.

## 6. Plan

Done: 1. the Run lifecycle with its contract and proofs; 2. the event stream; 3. the projection into the platform; 4. the
budget lease of research Runs; 5. the waves of a scenario over the operation budget ledger; 6. conversations; 7. the
knowledge index; 8. the answers of the customer service; 9. the research Run.

Next, in this order:

10. Tool and model runtimes: attempts, fallbacks, what a timeout leaves running.
11. Releases of agents (Java) under optimistic locks.
12. The task broker: claims, lease expiry, redelivery. Nothing calls it at this commit.
