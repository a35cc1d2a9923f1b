--------------------------- MODULE KnowledgeIndex ---------------------------
(***************************************************************************)
(* The knowledge index: the Java platform keeps documents, their versions,  *)
(* the attempts to process them and the index releases; the Agent keeps, in *)
(* memory, the jobs that parse and embed a version and, in its database,    *)
(* the chunks of the versions and the members of the releases it verified.  *)
(*                                                                          *)
(* Several requests are served at once.  A transaction is a step (activate  *)
(* and the build of a candidate take the base's row lock; what a build      *)
(* reads before it has the lock is a snapshot, so the step is the moment of *)
(* that snapshot); a call of the Agent is a step of the Agent's; so is what *)
(* a handler writes, outside a transaction, between two of these.  One      *)
(* knowledge base, one file in a batch, no file twice.  How a job parses    *)
(* and what a chunk holds are left out.                                     *)
(***************************************************************************)
EXTENDS Naturals, Sequences, FiniteSets, FiniteSetsExt

CONSTANTS
    Versions,   \* document versions
    DocOf,      \* [Versions -> documents]
    Plans,      \* bounds: where a behaviour starts and how far it goes
    None

Plan == [ready : SUBSET Versions,   \* versions processed before it starts
         new : SUBSET Versions,     \* versions uploaded on the way
         attempts : Nat,            \* bound: attempts to process a version
         releases : Nat,            \* bound: index releases
         rollbacks : Nat,           \* bound: rollbacks
         tabs : Nat,                \* bound: calls of getTask at a time
         faults : Nat]              \* bound: crashes and restarts

ASSUME KnowledgeAssumption ==
    /\ DOMAIN DocOf = Versions
    /\ Plans \subseteq Plan
    /\ IsFiniteSet(Versions) /\ IsFiniteSet(Plans)
    /\ None \notin Nat \cup Versions

VARIABLES
    plan,
    version,    \* [Versions -> status]: kb_document_version
    attempts,   \* [Versions -> Seq(attempt)]: task and item of each attempt, and its job
    batch,      \* [Versions -> status]: the batch the version was uploaded in
    poll,       \* [Tabs -> getTask under way]
    indexed,    \* versions whose chunks the Agent holds
    held,       \* releases whose members the Agent holds
    release,    \* Seq(release): kb_index_release, and the publication of each
    current,    \* the base's current_index_release_id
    pointer,    \* [documents -> current_published_version_id]
    rollback,   \* Seq(rollback): rollbacks under way or done
    faults

ingestVars  == <<version, attempts, batch, poll, indexed>>
releaseVars == <<held, release, current, pointer, rollback>>
vars == <<plan, ingestVars, releaseVars, faults>>

Tabs     == 1..plan.tabs
Docs     == {DocOf[v] : v \in Versions}
Terminal == {"SUCCEEDED", "FAILED"}
Idle     == [step |-> "idle", version |-> None, attempt |-> 0, seen |-> "QUEUED"]

\* A task and its item are written together; `asked` is an agentTaskId set,
\* `submit` the progress of the request that created them, `job` the Agent's
\* job ("none" when the Agent does not know it).
Fresh == [task |-> "QUEUED", asked |-> FALSE, item |-> "PROCESSING",
          submit |-> "sending", job |-> "none"]
Processed == [task |-> "SUCCEEDED", asked |-> TRUE, item |-> "SUCCEEDED",
              submit |-> "done", job |-> "SUCCEEDED"]

Attempts(v) == DOMAIN attempts[v]
Members(r)  == IF r = None THEN {} ELSE release[r].members

Init ==
    /\ plan \in Plans
    /\ version = [v \in Versions |-> IF v \in plan.ready THEN "READY" ELSE "none"]
    /\ attempts = [v \in Versions |-> IF v \in plan.ready THEN <<Processed>> ELSE <<>>]
    /\ batch = [v \in Versions |-> IF v \in plan.ready THEN "SUCCEEDED" ELSE "none"]
    /\ poll = [t \in Tabs |-> Idle]
    /\ indexed = plan.ready
    /\ held = {} /\ release = <<>> /\ current = None
    /\ pointer = [d \in Docs |-> None]
    /\ rollback = <<>> /\ faults = 0

-----------------------------------------------------------------------------
(* KnowledgeDocumentService and KnowledgeImportService                      *)

\* refreshBatchSummary: what a batch is, counted from its items.
Summary(s) ==
    LET some(status) == \E k \in DOMAIN s : s[k].item = status
    IN  CASE some("PROCESSING") -> "RUNNING"
          [] ~some("PROCESSING") /\ ~some("FAILED") -> "SUCCEEDED"
          [] ~some("PROCESSING") /\ ~some("SUCCEEDED") -> "FAILED"
          [] OTHER -> "PARTIAL_FAILED"

\* processNewDocument, uploadVersion and reindex, up to the call of the Agent.
Upload(v) ==
    /\ v \in plan.new /\ version[v] = "none"
    /\ version' = [version EXCEPT ![v] = "PROCESSING"]
    /\ attempts' = [attempts EXCEPT ![v] = <<Fresh>>]
    /\ batch' = [batch EXCEPT ![v] = "RUNNING"]
    /\ UNCHANGED <<plan, poll, indexed, releaseVars, faults>>

\* retryTask and retryItem: any failed item is enough, of any attempt.
Retry(v) ==
    /\ Len(attempts[v]) < plan.attempts
    /\ \E k \in Attempts(v) : attempts[v][k].item = "FAILED"
    /\ attempts' = [attempts EXCEPT ![v] = Append(@, Fresh)]
    /\ UNCHANGED <<plan, version, batch, poll, indexed, releaseVars, faults>>

\* createReadUrl raises, before anything is caught: nothing is written, but that
\* an import marks its item.
NoReadUrl(v, k) ==
    /\ attempts[v][k].submit = "sending"
    /\ \/ attempts' = [attempts EXCEPT ![v][k].submit = "done"]
       \/ k = 1 /\ attempts' = [attempts EXCEPT ![v][k].item = "FAILED",
                                                ![v][k].submit = "unsent"]
    /\ UNCHANGED <<plan, version, batch, poll, indexed, releaseVars, faults>>

\* The Agent's submit: the job is created and runs.
Accept(v, k) ==
    /\ attempts[v][k].submit = "sending"
    /\ attempts' = [attempts EXCEPT ![v][k].submit = "accepted", ![v][k].job = "RUNNING"]
    /\ UNCHANGED <<plan, version, batch, poll, indexed, releaseVars, faults>>

\* A slip: the job's id is not kept.
FaultySaveReply(v, k) ==
    /\ attempts[v][k].submit = "accepted"
    /\ attempts' = [attempts EXCEPT ![v][k].task = "RUNNING",
                                    ![v][k].submit = IF k = 1 THEN "finish" ELSE "done"]
    /\ UNCHANGED <<plan, version, batch, poll, indexed, releaseVars, faults>>

\* The end of submit when the Agent answered.  finishBatch follows the first
\* attempt only.
SaveReply(v, k) ==
    /\ attempts[v][k].submit = "accepted"
    /\ attempts' = [attempts EXCEPT ![v][k].task = "RUNNING", ![v][k].asked = TRUE,
                                    ![v][k].item = "PROCESSING",
                                    ![v][k].submit = IF k = 1 THEN "finish" ELSE "done"]
    /\ UNCHANGED <<plan, version, batch, poll, indexed, releaseVars, faults>>

\* The call failed, or its answer was lost: task and item, then the version.
SubmitFailed(v, k) ==
    /\ attempts[v][k].submit \in {"sending", "accepted"}
    /\ attempts' = [attempts EXCEPT ![v][k].task = "FAILED", ![v][k].item = "FAILED",
                                    ![v][k].submit = "failing"]
    /\ UNCHANGED <<plan, version, batch, poll, indexed, releaseVars, faults>>

FailVersion(v, k) ==
    /\ attempts[v][k].submit = "failing"
    /\ version' = [version EXCEPT ![v] = "FAILED"]
    /\ batch' = [batch EXCEPT ![v] = Summary(attempts[v])]
    /\ attempts' = [attempts EXCEPT ![v][k].submit = IF k = 1 THEN "failed" ELSE "done"]
    /\ UNCHANGED <<plan, poll, indexed, releaseVars, faults>>

\* finishBatch: after an upload (RUNNING), after a failed import (FAILED) or,
\* for a new version that failed, not at all.  What was not sent is an import.
FinishBatch(v, k) ==
    /\ \/ /\ attempts[v][k].submit = "finish"
          /\ batch' = [batch EXCEPT ![v] = "RUNNING"]
       \/ /\ attempts[v][k].submit = "failed"
          /\ batch' \in {batch, [batch EXCEPT ![v] = "FAILED"]}
       \/ /\ attempts[v][k].submit = "unsent"
          /\ batch' = [batch EXCEPT ![v] = "FAILED"]
    /\ attempts' = [attempts EXCEPT ![v][k].submit = "done"]
    /\ UNCHANGED <<plan, version, poll, indexed, releaseVars, faults>>

\* getTask: the row is read and the Agent asked; a job the Agent does not
\* know is an error, and nothing is written.
PollAsk(t, v, k) ==
    /\ poll[t] = Idle
    /\ attempts[v][k].asked /\ attempts[v][k].task \notin Terminal
    /\ attempts[v][k].job # "none"
    /\ poll' = [poll EXCEPT ![t] = [step |-> "answered", version |-> v, attempt |-> k,
                                    seen |-> attempts[v][k].job]]
    /\ UNCHANGED <<plan, version, attempts, batch, indexed, releaseVars, faults>>

\* updateTask, whatever the row holds by now.
PollSave(t) ==
    /\ poll[t].step = "answered"
    /\ attempts' = [attempts EXCEPT ![poll[t].version][poll[t].attempt].task = poll[t].seen]
    /\ poll' = [poll EXCEPT ![t] = IF @.seen \in Terminal THEN [@ EXCEPT !.step = "saved"]
                                                          ELSE Idle]
    /\ UNCHANGED <<plan, version, batch, indexed, releaseVars, faults>>

\* A slip: a task that is over is a version processed.
HastyOutcome(seen)  == IF seen \in Terminal THEN "READY" ELSE "FAILED"

\* The status projectTerminal gives a version.
Outcome(seen) == IF seen = "SUCCEEDED" THEN "READY" ELSE "FAILED"

\* projectTerminal: the version, its latest item, and the batch.
PollProject(t) ==
    LET v == poll[t].version
        s == [attempts[v] EXCEPT ![Len(attempts[v])].item = poll[t].seen]
    IN  /\ poll[t].step = "saved"
        /\ version' = [version EXCEPT ![v] = Outcome(poll[t].seen)]
        /\ attempts' = [attempts EXCEPT ![v] = s]
        /\ batch' = [batch EXCEPT ![v] = Summary(s)]
        /\ poll' = [poll EXCEPT ![t] = Idle]
        /\ UNCHANGED <<plan, indexed, releaseVars, faults>>

-----------------------------------------------------------------------------
(* The Agent's job: CustomerServiceIngestService._process                   *)

\* index_release_document has a row for the version.
Immutable(v) == \E r \in held : v \in release[r].members

\* replace_version_chunks and the end of the job.
JobDone(v, k) ==
    /\ attempts[v][k].job = "RUNNING" /\ ~Immutable(v)
    /\ indexed' = indexed \cup {v}
    /\ attempts' = [attempts EXCEPT ![v][k].job = "SUCCEEDED"]
    /\ UNCHANGED <<plan, version, batch, poll, releaseVars, faults>>

\* A stage fails; the chunks of an immutable version are not replaced.
JobFailed(v, k) ==
    /\ attempts[v][k].job = "RUNNING"
    /\ attempts' = [attempts EXCEPT ![v][k].job = "FAILED"]
    /\ UNCHANGED <<plan, version, batch, poll, indexed, releaseVars, faults>>

-----------------------------------------------------------------------------
(* KnowledgeReleaseService                                                  *)

\* buildCandidate: the current members with one document replaced.
Candidate(v) ==
    [status |-> "BUILDING", step |-> "verify", base |-> current,
     members |-> {m \in Members(current) : DocOf[m] # DocOf[v]} \cup {v}]

Build(v) ==
    /\ Len(release) < plan.releases
    /\ version[v] = "READY"
    /\ release' = Append(release, Candidate(v))
    /\ UNCHANGED <<plan, ingestVars, held, current, pointer, rollback, faults>>

\* _verify_index_release: every member has its chunks.
Complete(members) == members \subseteq indexed

\* sync_and_verify_index_release, and the answer read or lost.
Verify(r) ==
    /\ release[r].step = "verify"
    /\ Complete(release[r].members)
    /\ held' = held \cup {r}
    /\ \E step \in {"verified", "failing"} :
          release' = [release EXCEPT ![r].step = step]
    /\ UNCHANGED <<plan, ingestVars, current, pointer, rollback, faults>>

\* The Agent refused the release, or could not be reached.
VerifyFailed(r) ==
    /\ release[r].step = "verify"
    /\ release' = [release EXCEPT ![r].step = "failing"]
    /\ UNCHANGED <<plan, ingestVars, held, current, pointer, rollback, faults>>

MarkReady(r) ==
    /\ release[r].step = "verified"
    /\ release' = [release EXCEPT ![r].status = "READY", ![r].step = "activate"]
    /\ UNCHANGED <<plan, ingestVars, held, current, pointer, rollback, faults>>

\* Slips: whatever became of the release; only a release not verified yet.
FaultyAbandoned(status) == "FAILED"
HalfAbandoned(status)   == IF status = "BUILDING" THEN "FAILED" ELSE status

\* failCandidate: markFailed leaves a release that got further alone.
Abandoned(status) == IF status \in {"BUILDING", "READY"} THEN "FAILED" ELSE status

Abandon(r) ==
    /\ release[r].step = "failing"
    /\ release' = [release EXCEPT ![r].status = Abandoned(@), ![r].step = "done"]
    /\ UNCHANGED <<plan, ingestVars, held, current, pointer, rollback, faults>>

\* A slip: the pointer is set whatever it was.
FaultyExpected(base) == base = base

\* activate: under the base's lock, the pointer must be where it was read.
Expected(base) == current = base

\* JdbcKnowledgeReleaseMappers.activate, on the releases `rs`.
Switch(rs, base, r) ==
    LET published == rs[r].members
    IN  /\ current' = r
        /\ release' = [q \in DOMAIN rs |->
                         [rs[q] EXCEPT !.status = CASE q = r -> "PUBLISHED"
                                                    [] q # r /\ q = base /\ @ = "PUBLISHED" -> "RETIRED"
                                                    [] OTHER -> @]]
        /\ version' = [v \in Versions |->
                         CASE v \in published -> "PUBLISHED"
                           [] v \notin published /\ version[v] = "PUBLISHED" -> "RETIRED"
                           [] OTHER -> version[v]]
        /\ pointer' = [d \in Docs |-> IF \E v \in published : DocOf[v] = d
                                      THEN CHOOSE v \in published : DocOf[v] = d
                                      ELSE pointer[d]]

Activate(r) ==
    /\ release[r].step = "activate"
    /\ IF Expected(release[r].base)
         THEN Switch([release EXCEPT ![r].step = "done"], release[r].base, r)
         ELSE /\ release' = [release EXCEPT ![r].step = "failing"]
              /\ UNCHANGED <<version, current, pointer>>
    /\ UNCHANGED <<plan, attempts, batch, poll, indexed, held, rollback, faults>>

\* rollback: the target is read and checked, ...
RollbackCheck(r) ==
    /\ Len(rollback) < plan.rollbacks
    /\ release[r].status \in {"READY", "RETIRED"}
    /\ rollback' = Append(rollback, [target |-> r, base |-> None, step |-> "checked"])
    /\ UNCHANGED <<plan, ingestVars, held, release, current, pointer, faults>>

\* ... then the base ...
RollbackRead(u) ==
    /\ rollback[u].step = "checked"
    /\ rollback' = [rollback EXCEPT ![u].base = current, ![u].step = "read"]
    /\ UNCHANGED <<plan, ingestVars, held, release, current, pointer, faults>>

\* ... and the transaction is the publication's.
RollbackSwitch(u) ==
    /\ rollback[u].step = "read"
    /\ rollback' = [rollback EXCEPT ![u].step = "done"]
    /\ IF Expected(rollback[u].base)
         THEN Switch(release, rollback[u].base, rollback[u].target)
         ELSE UNCHANGED <<version, release, current, pointer>>
    /\ UNCHANGED <<plan, attempts, batch, poll, indexed, held, faults>>

-----------------------------------------------------------------------------
\* The platform stops: its requests are dropped where they are.
PlatformCrash ==
    /\ faults < plan.faults /\ faults' = faults + 1
    /\ attempts' = [v \in Versions |->
                      [k \in Attempts(v) |-> [attempts[v][k] EXCEPT !.submit = "done"]]]
    /\ poll' = [t \in Tabs |-> Idle]
    /\ release' = [r \in DOMAIN release |-> [release[r] EXCEPT !.step = "done"]]
    /\ rollback' = [u \in DOMAIN rollback |-> [rollback[u] EXCEPT !.step = "done"]]
    /\ UNCHANGED <<plan, version, batch, indexed, held, current, pointer>>

\* The Agent restarts: InMemoryIngestJobRepository is empty again.
AgentRestart ==
    /\ faults < plan.faults /\ faults' = faults + 1
    /\ attempts' = [v \in Versions |->
                      [k \in Attempts(v) |-> [attempts[v][k] EXCEPT !.job = "none"]]]
    /\ UNCHANGED <<plan, version, batch, poll, indexed, releaseVars>>

Submission(v, k) == NoReadUrl(v, k) \/ Accept(v, k) \/ SaveReply(v, k)
                    \/ SubmitFailed(v, k) \/ FailVersion(v, k) \/ FinishBatch(v, k)
Job(v, k)        == JobDone(v, k) \/ JobFailed(v, k)
Answered(t)      == PollSave(t) \/ PollProject(t)
Publication(r)   == Verify(r) \/ VerifyFailed(r) \/ MarkReady(r) \/ Activate(r) \/ Abandon(r)

Next ==
    \/ \E v \in Versions : Upload(v) \/ Retry(v) \/ Build(v)
    \/ \E v \in Versions : \E k \in Attempts(v) : Submission(v, k) \/ Job(v, k)
    \/ \E v \in Versions : \E k \in Attempts(v) : \E t \in Tabs : PollAsk(t, v, k)
    \/ \E t \in Tabs : Answered(t)
    \/ \E r \in DOMAIN release : Publication(r) \/ RollbackCheck(r)
    \/ \E u \in DOMAIN rollback : RollbackRead(u) \/ RollbackSwitch(u)
    \/ PlatformCrash \/ AgentRestart

Spec == Init /\ [][Next]_vars

AttemptNos == 1..Max({p.attempts : p \in Plans})
ReleaseNos == 1..Max({p.releases : p \in Plans})
TabNos     == 1..Max({p.tabs : p \in Plans})
Uploaded   == UNION {p.new : p \in Plans}

\* What the two services do by themselves: a request goes on, a job ends.
Fairness ==
    /\ \A v \in Uploaded : \A k \in AttemptNos :
          WF_vars(k \in Attempts(v) /\ (Submission(v, k) \/ Job(v, k)))
    /\ \A t \in TabNos : WF_vars(t \in Tabs /\ Answered(t))
    /\ \A r \in ReleaseNos : WF_vars(r \in DOMAIN release /\ Publication(r))

\* A drawer stays open on every task: ProcessingTaskDrawer asks every three
\* seconds until the task is over.  (Strong, as plan.tabs bounds how many ask.)
Watched ==
    \A v \in Uploaded : \A k \in AttemptNos :
        SF_vars(k \in Attempts(v) /\ \E t \in Tabs : PollAsk(t, v, k))

FairSpec    == Spec /\ Fairness
WatchedSpec == FairSpec /\ Watched

-----------------------------------------------------------------------------
VersionStatus == {"none", "PROCESSING", "READY", "FAILED", "PUBLISHED", "RETIRED"}
TaskStatus    == {"QUEUED", "RUNNING"} \cup Terminal

Attempt  == [task : TaskStatus, asked : BOOLEAN, item : {"PROCESSING"} \cup Terminal,
             submit : {"sending", "unsent", "accepted", "finish", "failing", "failed", "done"},
             job : {"none", "RUNNING"} \cup Terminal]
Question == [step : {"idle", "answered", "saved"}, version : Versions \cup {None},
             attempt : Nat, seen : TaskStatus]
Release  == [status : {"BUILDING", "READY", "PUBLISHED", "RETIRED", "FAILED"},
             step : {"verify", "verified", "activate", "failing", "done"},
             base : Nat \cup {None}, members : SUBSET Versions]
Rollback == [target : Nat, base : Nat \cup {None}, step : {"checked", "read", "done"}]

TypeOK ==
    /\ plan \in Plans /\ faults \in Nat
    /\ version \in [Versions -> VersionStatus]
    /\ attempts \in [Versions -> Seq(Attempt)]
    /\ batch \in [Versions -> {"none", "RUNNING", "PARTIAL_FAILED"} \cup Terminal]
    /\ poll \in [Tabs -> Question]
    /\ \A t \in Tabs : poll[t].step # "idle" =>
          /\ poll[t].version \in Versions /\ poll[t].attempt \in Attempts(poll[t].version)
          /\ poll[t].step = "saved" => poll[t].seen \in Terminal
    /\ indexed \subseteq Versions /\ held \subseteq DOMAIN release
    /\ release \in Seq(Release) /\ rollback \in Seq(Rollback)
    /\ current \in DOMAIN release \cup {None}
    /\ pointer \in [Docs -> Versions \cup {None}]

\* One index is served, and what the platform shows agrees with it: the current
\* release is the only one PUBLISHED, only its members are, and the documents
\* in it point at the versions in it, however publications and rollbacks cross.
ServedIsShown ==
    /\ \A r \in DOMAIN release : release[r].status = "PUBLISHED" <=> r = current
    /\ \A v \in Versions : version[v] = "PUBLISHED" => v \in Members(current)
    /\ \A v \in Members(current) : pointer[DocOf[v]] = v

\* The platform's tables and the index it serves.
IndexInvariant == TypeOK /\ ServedIsShown

\* A publication replaces one document of the index that is being served at
\* that moment, and loses nothing another publication or rollback put there
\* since its candidate was built.
NothingLost ==
    [][\A r \in DOMAIN release :
         release[r].step = "activate" /\ release'[r].step = "done" /\ faults' = faults
           => \E v \in release[r].members :
                release[r].members = {m \in Members(current) : DocOf[m] # DocOf[v]} \cup {v}]_vars

\* The Agent can answer from whatever the platform may serve: a version shown
\* as processed has its chunks there, and a release that is or was served, or
\* that a rollback may still choose, has its members and all their chunks.
Answerable ==
    /\ \A v \in Versions : version[v] \in {"READY", "PUBLISHED", "RETIRED"} => v \in indexed
    /\ \A r \in DOMAIN release :
          release[r].status \in {"READY", "PUBLISHED", "RETIRED"}
            => r \in held /\ release[r].members \subseteq indexed

\* The request for a task is over and the Agent never heard of it.
NeverSent(v, k) ==
    /\ k \in Attempts(v) /\ attempts[v][k].submit \in {"unsent", "done"}
    /\ attempts[v][k].task = "QUEUED" /\ ~attempts[v][k].asked /\ attempts[v][k].job = "none"

\* A task ends, and stays ended, as long as its drawer is open and nothing
\* crashes: an answer that is written late, over a newer one, is put right by
\* the next.  (One whose file gets no read URL never reaches the Agent, and
\* stays as it is.)
TaskSettles ==
    \A v \in Uploaded : \A k \in AttemptNos :
        LET over == k \in Attempts(v) => attempts[v][k].task \in Terminal
        IN  (k \in Attempts(v)) ~> (faults > 0 \/ NeverSent(v, k) \/ []over)

\* A publication ends: its candidate does not stay behind BUILDING or READY,
\* to be offered for a rollback, when it was refused or overtaken.
PublicationEnds ==
    \A r \in ReleaseNos :
        LET over == r \in DOMAIN release
                      => release[r].status \in {"PUBLISHED", "RETIRED", "FAILED"}
        IN  (r \in DOMAIN release) ~> (faults > 0 \/ over)
=============================================================================
