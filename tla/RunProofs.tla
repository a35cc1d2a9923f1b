----------------------------- MODULE RunProofs -----------------------------
(***************************************************************************)
(* The theorems about RunLifecycle, for every set of Runs and callers and   *)
(* any number of waits and restarts: type correctness; the invariant of     *)
(* RunInvariant with what follows from it; the refinement of RunContract;   *)
(* and, on the invariants of RunHistory, the usage a Run reports, the story *)
(* its log tells and the attempts a cancellation needs.                     *)
(***************************************************************************)
EXTENDS RunHistory, FiniteSetTheorems, TLAPS

(***************************************************************************)
(* Part 1.  Type correctness.                                               *)
(***************************************************************************)

TInv == TypeOK /\ Placed

\* What is left of TInv once every coroutine but p is known to stay.
Alone(p) == \A q \in Procs \ {p} : pc'[q] = pc[q] /\ job'[q] = job[q]
Moved(p) == pc' \in [Procs -> Step] /\ job' \in [Procs -> Job] /\ Placed' /\ Alone(p)

-----------------------------------------------------------------------------
(* The operators the actions are made of. *)

\* A coroutine under way serves a Run, a task its own.
LEMMA Serves ==
    ASSUME TInv, NEW p \in Procs, pc[p] \notin Resting
    PROVE  Run(p) \in Runs /\ (p \in Runs => Run(p) = p)
BY DEF TInv, Placed, Procs

LEMMA NoJobType == NoJob \in Job /\ Absent \in Record
BY DEF NoJob, Job, Absent, Record, Outcomes, Terminal, Waiting, Status

\* A coroutine moves to a step that fits the Run of its job.
LEMMA MoveTo ==
    ASSUME TInv, NEW p \in Procs, NEW s \in Step, NEW j \in Job, With(p, s, j),
           s \notin Resting => j.run \in Runs /\ (p \in Runs => j.run = p)
    PROVE  Moved(p) /\ pc'[p] = s /\ job'[p] = j
<1>1. /\ pc' \in [Procs -> Step] /\ job' \in [Procs -> Job]
      /\ pc'[p] = s /\ job'[p] = j /\ Alone(p)
  BY DEF TInv, TypeOK, With, Goto, Become, Alone
<1>2. ASSUME NEW q \in Procs, pc'[q] \notin Resting
      PROVE  job'[q].run \in Runs /\ (q \in Runs => job'[q].run = q)
  <2>1. CASE q = p
    BY <1>1, <1>2, <2>1
  <2>2. CASE q # p
    <3>1. pc'[q] = pc[q] /\ job'[q] = job[q]
      BY <1>1, <2>2 DEF Alone
    <3> QED
      BY <1>2, <3>1, Serves DEF Run
  <2> QED
    BY <2>1, <2>2
<1>3. Placed'
  BY <1>2 DEF Placed, Run, Procs
<1> QED
  BY <1>1, <1>3 DEF Moved

\* It moves on with the job it has.
LEMMA GoesTo ==
    ASSUME TInv, NEW p \in Procs, NEW s \in Step, Goto(p, s), UNCHANGED job,
           pc[p] \notin Resting
    PROVE  Moved(p) /\ pc'[p] = s /\ job'[p] = job[p]
<1>1. job[p] \in Job /\ With(p, s, job[p])
  BY DEF TInv, TypeOK, With, Become
<1>2. job[p].run \in Runs /\ (p \in Runs => job[p].run = p)
  BY Serves DEF Run
<1> QED
  BY <1>1, <1>2, MoveTo

\* It ends.
LEMMA Finishes ==
    ASSUME TInv, NEW p \in Procs, Finish(p)
    PROVE  Moved(p) /\ pc'[p] \in Resting /\ job'[p] = NoJob
<1>1. (IF p \in Runs THEN "gone" ELSE "idle") \in Step \cap Resting
  BY DEF Step, Resting
<1> QED
  BY <1>1, NoJobType, MoveTo DEF Finish

\* It keeps its Run and changes the rest of its job.
LEMMA JobType ==
    ASSUME NEW j \in Job, NEW x \in Record, NEW t \in Outcomes, NEW b \in BOOLEAN
    PROVE  LET k1 == [j EXCEPT !.snap = x]
               k2 == [j EXCEPT !.target = t]
               k3 == [j EXCEPT !.target = t, !.charged = b]
               k4 == [j EXCEPT !.snap = x, !.target = t]
           IN  /\ k1 \in Job /\ k1.run = j.run /\ k1.snap = x /\ k1.target = j.target
               /\ k2 \in Job /\ k2.run = j.run /\ k2.snap = j.snap /\ k2.target = t
               /\ k3 \in Job /\ k3.run = j.run /\ k3.snap = j.snap /\ k3.target = t
               /\ k4 \in Job /\ k4.run = j.run /\ k4.snap = x /\ k4.target = t
BY DEF Job

LEMMA KnownRecord ==
    ASSUME TInv, NEW p \in Procs
    PROVE  /\ job[p] \in Job /\ Snap(p) \in Record /\ job[p].target \in Outcomes
           /\ job[p].charged \in BOOLEAN
           /\ Run(p) \in Runs => repo[Run(p)] \in Record
BY DEF TInv, TypeOK, Job, Snap, Run

\* A task under way goes to its settlement, or to a second one, or ends.
LEMMA Settles ==
    ASSUME TInv, NEW p \in Procs, pc[p] \notin Resting,
           NEW t \in Outcomes, NEW b \in BOOLEAN, Settle(p, t, b)
    PROVE  /\ Moved(p) /\ pc'[p] = "settle_load"
           /\ job'[p].run = Run(p) /\ job'[p].snap = Snap(p)
           /\ job'[p].target = t /\ job'[p].charged = b
<1> DEFINE j == [job[p] EXCEPT !.target = t, !.charged = b]
<1>1. j \in Job /\ j.run = Run(p) /\ j.snap = Snap(p) /\ j.target = t /\ j.charged = b
  BY KnownRecord DEF Job, Run, Snap
<1>2. "settle_load" \in Step /\ With(p, "settle_load", j)
  BY DEF Step, Settle
<1>3. j.run \in Runs /\ (p \in Runs => j.run = p)
  BY <1>1, Serves
<1> HIDE DEF j
<1> QED
  BY <1>1, <1>2, <1>3, MoveTo

LEMMA SettlesAgain ==
    ASSUME TInv, NEW p \in Procs, pc[p] \notin Resting, SettleRaises(p)
    PROVE  /\ Moved(p) /\ pc'[p] \in Resting \cup {"settle_load"}
           /\ pc'[p] = "settle_load" =>
                 /\ job'[p].run = Run(p) /\ job'[p].snap = Snap(p)
                 /\ job'[p].target = "failed" /\ job'[p].charged = FALSE
<1> DEFINE j == [job[p] EXCEPT !.mode = "prepare", !.target = "failed", !.charged = FALSE]
<1>1. CASE job[p].mode = "execute"
  <2>1. /\ j \in Job /\ j.run = Run(p) /\ j.snap = Snap(p)
        /\ j.target = "failed" /\ j.charged = FALSE
    BY KnownRecord DEF Job, Run, Snap, Outcomes, Terminal
  <2>2. "settle_load" \in Step /\ With(p, "settle_load", j)
    BY <1>1 DEF Step, SettleRaises
  <2>3. j.run \in Runs /\ (p \in Runs => j.run = p)
    BY <2>1, Serves
  <2> HIDE DEF j
  <2> QED
    BY <2>1, <2>2, <2>3, MoveTo
<1>2. CASE job[p].mode # "execute"
  <2>1. Finish(p)
    BY <1>2 DEF SettleRaises
  <2> QED
    BY <2>1, Finishes DEF Resting
<1> QED
  BY <1>1, <1>2

LEMMA RaisesToApply ==
    ASSUME TInv, NEW p \in Procs, pc[p] \notin Resting, ApplyRaises(p)
    PROVE  /\ Moved(p) /\ pc'[p] \in {"fail_load", "apply_lock"}
           /\ job'[p].run = Run(p) /\ job'[p].snap = Snap(p)
           /\ job'[p].target = "failed"
           /\ job'[p].charged = FALSE \/ (p \notin Runs /\ job'[p].charged = job[p].charged)
<1> DEFINE j1 == [job[p] EXCEPT !.target = "failed", !.charged = FALSE]
           j2 == [job[p] EXCEPT !.target = "failed"]
<1>1. /\ j1 \in Job /\ j1.run = Run(p) /\ j1.snap = Snap(p)
      /\ j1.target = "failed" /\ j1.charged = FALSE
      /\ j2 \in Job /\ j2.run = Run(p) /\ j2.snap = Snap(p)
      /\ j2.target = "failed" /\ j2.charged = job[p].charged
  BY KnownRecord DEF Job, Run, Snap, Outcomes, Terminal
<1>2. {"fail_load", "apply_lock"} \subseteq Step
  BY DEF Step
<1>3. Run(p) \in Runs /\ (p \in Runs => Run(p) = p)
  BY Serves
<1>4. CASE p \in Runs
  <2>1. With(p, "fail_load", j1)
    BY <1>4 DEF ApplyRaises
  <2> HIDE DEF j1
  <2>2. Moved(p) /\ pc'[p] = "fail_load" /\ job'[p] = j1
    BY <1>1, <1>2, <1>3, <2>1, MoveTo
  <2>3. job'[p].charged = FALSE
    BY <1>1, <2>2, Zenon
  <2> QED
    BY <1>1, <2>2, <2>3
<1>5. CASE p \notin Runs
  <2>1. With(p, "apply_lock", j2)
    BY <1>5 DEF ApplyRaises
  <2> HIDE DEF j2
  <2>2. Moved(p) /\ pc'[p] = "apply_lock" /\ job'[p] = j2
    BY <1>1, <1>2, <1>3, <2>1, MoveTo
  <2>3. job'[p].charged = job[p].charged
    BY <1>1, <2>2, Zenon
  <2> QED
    BY <1>1, <1>5, <2>2, <2>3
<1> QED
  BY <1>4, <1>5

LEMMA RevisedType ==
    ASSUME TInv, NEW p \in Procs, NEW s \in Status, NEW b \in BOOLEAN
    PROVE  Revised(p, s, b) \in Record
BY KnownRecord DEF Revised, Record

LEMMA SaveType ==
    ASSUME TInv, NEW p \in Procs, Run(p) \in Runs, NEW rec \in Record, Save(p, rec)
    PROVE  /\ repo' \in [Runs -> Record] /\ repo'[Run(p)] = rec
           /\ \A r \in Runs \ {Run(p)} : repo'[r] = repo[r]
BY DEF TInv, TypeOK, Save

LEMMA EmitType ==
    ASSUME TInv, NEW p \in Procs, Run(p) \in Runs, NEW e \in Event, Emit(p, e)
    PROVE  log' \in [Runs -> Seq(Event)]
BY DEF TInv, TypeOK, Emit

\* It saves the next version of its Run, and knows it.
LEMMA Saved ==
    ASSUME TInv, NEW p \in Procs, pc[p] \notin Resting, NEW s \in Step,
           NEW st \in Status, NEW b \in BOOLEAN,
           Save(p, Revised(p, st, b)),
           With(p, s, [job[p] EXCEPT !.snap = Revised(p, st, b)])
    PROVE  /\ Moved(p) /\ pc'[p] = s /\ repo' \in [Runs -> Record]
           /\ repo'[Run(p)] = Revised(p, st, b)
           /\ \A r \in Runs \ {Run(p)} : repo'[r] = repo[r]
           /\ job'[p].run = Run(p) /\ job'[p].snap = Revised(p, st, b)
           /\ job'[p].target = job[p].target /\ job'[p].charged = job[p].charged
<1> DEFINE rec == Revised(p, st, b)
           j   == [job[p] EXCEPT !.snap = rec]
<1>1. rec \in Record
  BY RevisedType
<1>2. Run(p) \in Runs /\ (p \in Runs => Run(p) = p)
  BY Serves
<1>3. Save(p, rec) /\ With(p, s, j)
  OBVIOUS
<1> HIDE DEF rec
<1>4. /\ j \in Job /\ j.run = Run(p) /\ j.snap = rec
      /\ j.target = job[p].target /\ j.charged = job[p].charged
  BY <1>1, KnownRecord DEF Job, Run
<1> HIDE DEF j
<1>5. /\ Moved(p) /\ pc'[p] = s /\ job'[p] = j /\ repo' \in [Runs -> Record]
      /\ repo'[Run(p)] = rec /\ \A r \in Runs \ {Run(p)} : repo'[r] = repo[r]
  BY <1>1, <1>2, <1>3, <1>4, MoveTo, SaveType
<1> QED
  BY <1>4, <1>5 DEF rec

\* It reads its Run.
LEMMA Loaded ==
    ASSUME TInv, NEW p \in Procs, pc[p] \notin Resting, NEW s \in Step,
           NEW t \in Outcomes,
           \/ With(p, s, [job[p] EXCEPT !.snap = repo[Run(p)]]) /\ t = job[p].target
           \/ With(p, s, [job[p] EXCEPT !.snap = repo[Run(p)], !.target = t])
    PROVE  /\ Moved(p) /\ pc'[p] = s
           /\ job'[p].run = Run(p) /\ job'[p].snap = repo[Run(p)] /\ job'[p].target = t
           /\ job'[p].charged = job[p].charged
<1> DEFINE j1 == [job[p] EXCEPT !.snap = repo[Run(p)]]
           j2 == [job[p] EXCEPT !.snap = repo[Run(p)], !.target = t]
<1>1. Run(p) \in Runs /\ (p \in Runs => Run(p) = p) /\ repo[Run(p)] \in Record
  BY Serves, KnownRecord
<1>2. /\ j1 \in Job /\ j1.run = Run(p) /\ j1.snap = repo[Run(p)] /\ j1.target = job[p].target
      /\ j2 \in Job /\ j2.run = Run(p) /\ j2.snap = repo[Run(p)] /\ j2.target = t
      /\ j1.charged = job[p].charged /\ j2.charged = job[p].charged
  BY <1>1, KnownRecord DEF Job, Run
<1>3. \/ With(p, s, j1) /\ t = job[p].target
      \/ With(p, s, j2)
  OBVIOUS
<1> HIDE DEF j1, j2
<1> QED
  BY <1>1, <1>2, <1>3, MoveTo

LEMMA LoadedFor ==
    ASSUME TInv, NEW p \in Procs, pc[p] \notin Resting, NEW s \in Step, NEW t \in Outcomes,
           With(p, s, [job[p] EXCEPT !.snap = repo[Run(p)], !.target = t])
    PROVE  /\ Moved(p) /\ pc'[p] = s
           /\ job'[p].run = Run(p) /\ job'[p].snap = repo[Run(p)] /\ job'[p].target = t
           /\ job'[p].charged = job[p].charged
BY Loaded

-----------------------------------------------------------------------------
(* Each action: TInv and the action give TInv'. *)

\* A step that leaves everything but pc and job, and perhaps repo and log, alone.
LEMMA QuietType ==
    ASSUME TInv, NEW p \in Procs, Moved(p), repo' \in [Runs -> Record],
           log' \in [Runs -> Seq(Event)], UNCHANGED <<mem, rest>>
    PROVE  TInv'
BY DEF TInv, TypeOK, Moved, mem, rest

LEMMA LookupRequestType ==
    ASSUME TInv, NEW c \in Callers, NEW r \in Runs, LookupRequest(c, r)
    PROVE  TInv' /\ Moved(c)
<1> DEFINE j == [NoJob EXCEPT !.run = r]
<1>1. c \in Procs /\ "insert" \in Step /\ c \notin Runs
  BY ProcessesDistinct DEF Procs, Step
<1>2. j \in Job /\ j.run = r
  BY NoJobType DEF Job
<1>3. With(c, "insert", j) /\ UNCHANGED <<repo, log, mem, rest>>
  BY DEF LookupRequest
<1> HIDE DEF j
<1>4. Moved(c)
  BY <1>1, <1>2, <1>3, MoveTo
<1> QED
  BY <1>1, <1>3, <1>4, QuietType DEF TInv, TypeOK

LEMMA InsertRunType ==
    ASSUME TInv, NEW c \in Callers, InsertRun(c)
    PROVE  TInv' /\ Moved(c)
<1> DEFINE new == [Absent EXCEPT !.status = "created", !.version = 1]
           j   == [job[c] EXCEPT !.snap = new]
<1>1. c \in Procs /\ "created" \in Step /\ pc[c] \notin Resting
  BY DEF Procs, Step, Resting, InsertRun
<1>2. Run(c) \in Runs /\ (c \in Runs => Run(c) = c)
  BY <1>1, Serves
<1>3. new \in Record /\ j \in Job /\ j.run = Run(c)
  BY <1>1, KnownRecord, NoJobType DEF Absent, Record, Status, Job, Run
<1>4. Moved(c) /\ repo' \in [Runs -> Record]
  <2>1. CASE repo[Run(c)].status = "absent"
    <3>1. Save(c, new) /\ With(c, "created", j)
      BY <2>1 DEF InsertRun
    <3> HIDE DEF new, j
    <3> QED
      BY <1>1, <1>2, <1>3, <3>1, MoveTo, SaveType
  <2>2. CASE repo[Run(c)].status # "absent"
    <3>1. UNCHANGED repo /\ Finish(c)
      BY <2>2 DEF InsertRun
    <3> QED
      BY <1>1, <3>1, Finishes DEF TInv, TypeOK
  <2> QED
    BY <2>1, <2>2
<1>5. UNCHANGED <<log, mem, rest>>
  BY DEF InsertRun
<1> QED
  BY <1>1, <1>4, <1>5, QuietType DEF TInv, TypeOK

LEMMA RecordCreatedType ==
    ASSUME TInv, NEW c \in Callers, RecordCreated(c)
    PROVE  TInv'
<1>1. c \in Procs /\ pc[c] \notin Resting /\ {"queue"} \subseteq Step /\ {"run_created"} \subseteq Event
  BY DEF Resting, RecordCreated, Procs, Step, Event, Outcomes, Terminal
<1>2. Run(c) \in Runs
  BY <1>1, Serves
<1>3. /\ Emit(c, "run_created") /\ Goto(c, "queue")
      /\ UNCHANGED <<repo, job, mem, rest>>
  BY DEF RecordCreated
<1>4. Moved(c) /\ log' \in [Runs -> Seq(Event)]
  BY <1>1, <1>2, <1>3, GoesTo, EmitType
<1> QED
  BY <1>1, <1>3, <1>4, QuietType DEF TInv, TypeOK

LEMMA QueueRunType ==
    ASSUME TInv, NEW c \in Callers, QueueRun(c)
    PROVE  TInv'
<1>1. c \in Procs /\ pc[c] \notin Resting /\ {"queued"} \subseteq Step
  BY DEF Resting, QueueRun, Procs, Step
<1>2. Run(c) \in Runs
  BY <1>1, Serves
<1>3. Snap(c).counted \in BOOLEAN /\ "queued" \in Status
  BY KnownRecord, <1>1 DEF Record, Status, Waiting, Terminal
<1>4. Moved(c) /\ repo' \in [Runs -> Record]
  <2>1. CASE Saves(c, "queued")
    <3>1. /\ Save(c, Revised(c, "queued", Snap(c).counted))
          /\ With(c, "queued", [job[c] EXCEPT !.snap = Revised(c, "queued", Snap(c).counted)])
      BY <2>1 DEF QueueRun
    <3> QED
      BY <1>1, <1>3, <3>1, Saved
  <2>2. CASE ~Saves(c, "queued")
    <3>1. UNCHANGED repo /\ Finish(c)
      BY <2>2 DEF QueueRun
    <3> QED
      BY <1>1, <3>1, Finishes DEF TInv, TypeOK
  <2> QED
    BY <2>1, <2>2
<1>5. UNCHANGED <<log, mem, rest>>
  BY DEF QueueRun
<1> QED
  BY <1>1, <1>4, <1>5, QuietType DEF TInv, TypeOK

LEMMA RecordQueuedType ==
    ASSUME TInv, NEW c \in Callers, RecordQueued(c)
    PROVE  TInv'
<1>1. c \in Procs /\ pc[c] \notin Resting /\ {"spawn"} \subseteq Step /\ {"run_queued"} \subseteq Event
  BY DEF Resting, RecordQueued, Procs, Step, Event, Outcomes, Terminal
<1>2. Run(c) \in Runs
  BY <1>1, Serves
<1>3. /\ Emit(c, "run_queued") /\ Goto(c, "spawn")
      /\ UNCHANGED <<repo, job, mem, rest>>
  BY DEF RecordQueued
<1>4. Moved(c) /\ log' \in [Runs -> Seq(Event)]
  BY <1>1, <1>2, <1>3, GoesTo, EmitType
<1> QED
  BY <1>1, <1>3, <1>4, QuietType DEF TInv, TypeOK

LEMMA SpawnTaskType ==
    ASSUME TInv, NEW c \in Callers, NEW mode \in {"direct", "prepare"}, SpawnTask(c, mode)
    PROVE  TInv'
<1> DEFINE r    == Run(c)
           step == IF mode = "direct" THEN "load" ELSE "guard"
           new  == [NoJob EXCEPT !.run = r, !.mode = mode]
<1>1. c \in Procs /\ c \notin Runs /\ pc[c] \notin Resting /\ {"idle", "load", "guard"} \subseteq Step
  BY ProcessesDistinct DEF Procs, Resting, Step, SpawnTask
<1>2. r \in Runs /\ r \in Procs /\ r # c
  BY <1>1, Serves DEF Procs
<1>3. step \in Step /\ new \in Job /\ new.run = r
  BY <1>1, <1>2, NoJobType DEF Job
<1>4. /\ pc' = [pc EXCEPT ![c] = "idle", ![r] = step]
      /\ job' = [job EXCEPT ![c] = NoJob, ![r] = new]
      /\ UNCHANGED <<repo, log, mem, rest>>
  BY DEF SpawnTask
<1> HIDE DEF r, step, new
<1>5. /\ pc' \in [Procs -> Step] /\ job' \in [Procs -> Job]
      /\ pc'[c] = "idle" /\ pc'[r] = step /\ job'[r] = new
      /\ \A q \in Procs \ {c, r} : pc'[q] = pc[q] /\ job'[q] = job[q]
  BY <1>1, <1>2, <1>3, <1>4, NoJobType DEF TInv, TypeOK
<1>6. ASSUME NEW q \in Procs, pc'[q] \notin Resting
      PROVE  job'[q].run \in Runs /\ (q \in Runs => job'[q].run = q)
  <2>1. CASE q \in {c, r}
    BY <1>1, <1>2, <1>3, <1>5, <1>6, <2>1 DEF Resting
  <2>2. CASE q \notin {c, r}
    BY <1>5, <1>6, <2>2, Serves DEF Run
  <2> QED
    BY <2>1, <2>2
<1>7. Placed'
  BY <1>6 DEF Placed, Run, Procs
<1> QED
  BY <1>4, <1>5, <1>7 DEF TInv, TypeOK, mem, rest

LEMMA MatchCheckpointType ==
    ASSUME TInv, NEW c \in Callers, MatchCheckpoint(c)
    PROVE  TInv'
<1>1. c \in Procs /\ pc[c] \notin Resting /\ {"resume"} \subseteq Step
  BY DEF Resting, MatchCheckpoint, Procs, Step
<1>2. Run(c) \in Runs
  BY <1>1, Serves
<1>3. \/ Goto(c, "resume") /\ UNCHANGED job
      \/ Finish(c)
  BY DEF MatchCheckpoint
<1>4. Moved(c)
  BY <1>1, <1>3, GoesTo, Finishes
<1>5. UNCHANGED <<repo, log, mem, rest>>
  BY DEF MatchCheckpoint
<1> QED
  BY <1>1, <1>4, <1>5, QuietType DEF TInv, TypeOK

LEMMA LoadWaitingType ==
    ASSUME TInv, NEW c \in Callers, NEW r \in Runs, LoadWaiting(c, r)
    PROVE  TInv'
<1>1. c \in Procs /\ "match" \in Step /\ c \notin Runs
  BY ProcessesDistinct DEF Procs, Step
<1>2. PICK q \in 1 .. asked[r] :
        With(c, "match", [NoJob EXCEPT !.run = r, !.snap = repo[r], !.answer = q])
  BY DEF LoadWaiting
<1>3. q \in Nat /\ repo[r] \in Record
  BY DEF TInv, TypeOK
<1> DEFINE j == [NoJob EXCEPT !.run = r, !.snap = repo[r], !.answer = q]
<1>4. j \in Job /\ j.run = r
  BY <1>3, NoJobType DEF Job
<1>5. With(c, "match", j) /\ UNCHANGED <<repo, log, mem, rest>>
  BY <1>2 DEF LoadWaiting
<1> HIDE DEF j
<1>6. Moved(c)
  BY <1>1, <1>4, <1>5, MoveTo
<1> QED
  BY <1>1, <1>5, <1>6, QuietType DEF TInv, TypeOK

LEMMA ResumeRunType ==
    ASSUME TInv, NEW c \in Callers, ResumeRun(c)
    PROVE  TInv'
<1>1. c \in Procs /\ pc[c] \notin Resting /\ {"resumed"} \subseteq Step
  BY DEF Resting, ResumeRun, Procs, Step
<1>2. Run(c) \in Runs
  BY <1>1, Serves
<1>3. Snap(c).counted \in BOOLEAN /\ "running" \in Status
  BY KnownRecord, <1>1 DEF Record, Status, Waiting, Terminal
<1>4. Moved(c) /\ repo' \in [Runs -> Record]
  <2>1. CASE Saves(c, "running")
    <3>1. /\ Save(c, Revised(c, "running", Snap(c).counted))
          /\ With(c, "resumed", [job[c] EXCEPT !.snap = Revised(c, "running", Snap(c).counted)])
      BY <2>1 DEF ResumeRun
    <3> QED
      BY <1>1, <1>3, <3>1, Saved
  <2>2. CASE ~Saves(c, "running")
    <3>1. UNCHANGED repo /\ Finish(c)
      BY <2>2 DEF ResumeRun
    <3> QED
      BY <1>1, <3>1, Finishes DEF TInv, TypeOK
  <2> QED
    BY <2>1, <2>2
<1>5. UNCHANGED <<log, mem, rest>>
  BY DEF ResumeRun
<1> QED
  BY <1>1, <1>4, <1>5, QuietType DEF TInv, TypeOK

LEMMA RecordResumedType ==
    ASSUME TInv, NEW c \in Callers, RecordResumed(c)
    PROVE  TInv'
<1>1. c \in Procs /\ pc[c] \notin Resting /\ {"graph"} \subseteq Step /\ {"run_resumed"} \subseteq Event
  BY DEF Resting, RecordResumed, Procs, Step, Event, Outcomes, Terminal
<1>2. Run(c) \in Runs
  BY <1>1, Serves
<1>3. /\ Emit(c, "run_resumed") /\ Goto(c, "graph")
      /\ UNCHANGED <<repo, job, mem, rest>>
  BY DEF RecordResumed
<1>4. Moved(c) /\ log' \in [Runs -> Seq(Event)]
  BY <1>1, <1>2, <1>3, GoesTo, EmitType
<1> QED
  BY <1>1, <1>3, <1>4, QuietType DEF TInv, TypeOK

LEMMA CancelLoadType ==
    ASSUME TInv, NEW c \in Callers, NEW r \in Runs, CancelLoad(c, r)
    PROVE  TInv'
<1> DEFINE step == IF r \in cancelled THEN "cancel_try" ELSE "cancel_mark"
           j    == [NoJob EXCEPT !.run = r, !.snap = repo[r]]
<1>1. c \in Procs /\ c \notin Runs /\ step \in Step
  BY ProcessesDistinct DEF Procs, Step
<1>2. j \in Job /\ j.run = r
  BY NoJobType DEF Job, TInv, TypeOK
<1>3. /\ With(c, step, j) /\ stateLock' = c /\ cancelled' = cancelled \cup {r}
      /\ UNCHANGED <<repo, log, hubClosed, prefix, question, rest>>
  BY DEF CancelLoad
<1> HIDE DEF step, j
<1>4. Moved(c)
  BY <1>1, <1>2, <1>3, MoveTo
<1> QED
  BY <1>1, <1>3, <1>4 DEF TInv, TypeOK, Moved, rest

LEMMA RecordCancelRequestType ==
    ASSUME TInv, NEW c \in Callers, RecordCancelRequest(c)
    PROVE  TInv'
<1>1. c \in Procs /\ pc[c] \notin Resting /\ {"cancel_try"} \subseteq Step /\ {"run_cancel_requested"} \subseteq Event
  BY DEF Resting, RecordCancelRequest, Procs, Step, Event, Outcomes, Terminal
<1>2. Run(c) \in Runs
  BY <1>1, Serves
<1>3. /\ Emit(c, "run_cancel_requested")
      /\ \/ Goto(c, "cancel_try") /\ UNCHANGED <<job, stateLock>>
         \/ Finish(c) /\ stateLock' = None
      /\ UNCHANGED <<repo, cancelled, hubClosed, prefix, question, rest>>
  BY DEF RecordCancelRequest
<1>4. Moved(c) /\ log' \in [Runs -> Seq(Event)]
  BY <1>1, <1>2, <1>3, GoesTo, Finishes, EmitType
<1> QED
  BY <1>3, <1>4 DEF TInv, TypeOK, Moved, rest

LEMMA CancelTryType ==
    ASSUME TInv, NEW c \in Callers, CancelTry(c)
    PROVE  TInv'
<1>1. c \in Procs /\ pc[c] \notin Resting /\ {"cancel_reload", "cancel_record"} \subseteq Step
  BY DEF Resting, CancelTry, Procs, Step
<1>2. Run(c) \in Runs
  BY <1>1, Serves
<1>3. Snap(c).counted \in BOOLEAN /\ "cancelled" \in Status
  BY KnownRecord, <1>1 DEF Record, Status, Terminal
<1>4. Moved(c) /\ repo' \in [Runs -> Record]
  <2>1. CASE Saves(c, "cancelled")
    <3>1. /\ Save(c, Revised(c, "cancelled", Snap(c).counted))
          /\ With(c, "cancel_record",
                  [job[c] EXCEPT !.snap = Revised(c, "cancelled", Snap(c).counted)])
      BY <2>1 DEF CancelTry
    <3> QED
      BY <1>1, <1>3, <3>1, Saved
  <2>2. CASE ~Saves(c, "cancelled")
    <3> DEFINE j == [job[c] EXCEPT !.tries = @ + 1]
    <3>1. UNCHANGED repo /\ With(c, "cancel_reload", j)
      BY <2>2 DEF CancelTry
    <3>2. j \in Job /\ j.run = Run(c)
      BY <1>1, KnownRecord DEF Job, Run
    <3>3. Run(c) \in Runs /\ (c \in Runs => Run(c) = c)
      BY <1>1, Serves
    <3> HIDE DEF j
    <3> QED
      BY <1>1, <3>1, <3>2, <3>3, MoveTo DEF TInv, TypeOK
  <2> QED
    BY <2>1, <2>2
<1>5. UNCHANGED <<log, mem, rest>>
  BY DEF CancelTry
<1> QED
  BY <1>1, <1>4, <1>5, QuietType DEF TInv, TypeOK

LEMMA CancelReloadType ==
    ASSUME TInv, NEW c \in Callers, CancelReload(c)
    PROVE  TInv'
<1>1. c \in Procs /\ pc[c] \notin Resting /\ {"cancel_try"} \subseteq Step
  BY DEF Resting, CancelReload, Procs, Step
<1>2. Run(c) \in Runs
  BY <1>1, Serves
<1>3. \/ Finish(c) /\ stateLock' = None
      \/ With(c, "cancel_try", [job[c] EXCEPT !.snap = repo[Run(c)]]) /\ UNCHANGED stateLock
  BY DEF CancelReload
<1>4. job[c].target \in Outcomes /\ UNCHANGED <<repo, log, cancelled, hubClosed, prefix, question, rest>>
  BY <1>1, KnownRecord DEF CancelReload
<1>5. Moved(c)
  BY <1>1, <1>3, <1>4, Finishes, Loaded
<1> QED
  BY <1>3, <1>4, <1>5 DEF TInv, TypeOK, Moved, rest

LEMMA RecordCancelledType ==
    ASSUME TInv, NEW c \in Callers, RecordCancelled(c)
    PROVE  TInv'
<1>1. c \in Procs /\ pc[c] \notin Resting /\ {"cancelled"} \subseteq Event
  BY DEF Resting, RecordCancelled, Procs, Event, Outcomes, Terminal
<1>2. Run(c) \in Runs
  BY <1>1, Serves
<1>3. /\ Emit(c, "cancelled") /\ Finish(c) /\ stateLock' = None
      /\ hubClosed' = hubClosed \cup {Run(c)} /\ prefix' = prefix \ {Run(c)}
      /\ UNCHANGED <<repo, cancelled, question, rest>>
  BY DEF RecordCancelled
<1>4. Moved(c) /\ log' \in [Runs -> Seq(Event)]
  BY <1>1, <1>2, <1>3, Finishes, EmitType
<1> QED
  BY <1>2, <1>3, <1>4 DEF TInv, TypeOK, Moved, rest

LEMMA PrepareGuardType ==
    ASSUME TInv, NEW r \in Runs, PrepareGuard(r)
    PROVE  TInv'
<1>1. r \in Procs /\ pc[r] \notin Resting /\ {"prepare"} \subseteq Step
  BY DEF Resting, PrepareGuard, Procs, Step
<1>2. Run(r) \in Runs
  BY <1>1, Serves
<1>3. \/ Settle(r, "timed_out", FALSE)
      \/ Settle(r, "cancelled", FALSE)
      \/ Goto(r, "prepare") /\ UNCHANGED job
  BY DEF PrepareGuard
<1>4. job[r].target \in Outcomes /\ {"failed", "timed_out", "cancelled"} \subseteq Outcomes
  BY <1>1, KnownRecord DEF Outcomes, Terminal
<1>5. Moved(r)
  BY <1>1, <1>3, <1>4, Settles, GoesTo
<1>6. UNCHANGED <<repo, log, mem, rest>>
  BY DEF PrepareGuard
<1> QED
  BY <1>1, <1>5, <1>6, QuietType DEF TInv, TypeOK

LEMMA PrepareReturnsType ==
    ASSUME TInv, NEW r \in Runs, PrepareReturns(r)
    PROVE  TInv'
<1>1. r \in Procs /\ pc[r] \notin Resting /\ {"prep_load"} \subseteq Step
  BY DEF Resting, PrepareReturns, Procs, Step
<1>2. Run(r) \in Runs
  BY <1>1, Serves
<1>3. /\ Goto(r, "prep_load") /\ reported' = reported \cup {r}
      /\ UNCHANGED <<repo, log, job, mem, asked, lost, restarts>>
  BY DEF PrepareReturns
<1>4. Moved(r)
  BY <1>1, <1>3, GoesTo
<1> QED
  BY <1>3, <1>4 DEF TInv, TypeOK, Moved, mem

LEMMA PrepareFailsType ==
    ASSUME TInv, NEW r \in Runs, PrepareFails(r)
    PROVE  TInv'
<1>1. r \in Procs /\ pc[r] \notin Resting
  BY DEF Resting, PrepareFails, Procs
<1>2. Run(r) \in Runs
  BY <1>1, Serves
<1>3. PICK target \in {"failed", "timed_out", "cancelled"}, carried \in BOOLEAN :
        /\ reported' = IF carried THEN reported \cup {r} ELSE reported
        /\ lost' \in {lost, lost \cup {r}}
        /\ Settle(r, target, carried)
  BY DEF PrepareFails
<1>4. target \in Outcomes /\ UNCHANGED <<repo, log, mem, asked, restarts>>
  BY DEF Outcomes, Terminal, PrepareFails
<1>5. Moved(r)
  BY <1>1, <1>3, <1>4, Settles
<1> QED
  BY <1>3, <1>4, <1>5 DEF TInv, TypeOK, Moved, mem

LEMMA PrepareLoadType ==
    ASSUME TInv, NEW r \in Runs, PrepareLoad(r)
    PROVE  TInv'
<1>1. r \in Procs /\ pc[r] \notin Resting /\ {"prep_save"} \subseteq Step
  BY DEF Resting, PrepareLoad, Procs, Step
<1>2. Run(r) \in Runs
  BY <1>1, Serves
<1>3. \/ With(r, "prep_save", [job[r] EXCEPT !.snap = repo[r]])
      \/ Settle(r, "timed_out", TRUE)
  BY DEF PrepareLoad
<1>4. job[r].target \in Outcomes /\ {"failed", "timed_out", "cancelled"} \subseteq Outcomes
  BY <1>1, KnownRecord DEF Outcomes, Terminal
<1>5. Moved(r)
  BY <1>1, <1>3, <1>4, Serves, Settles, Loaded
<1>6. UNCHANGED <<repo, log, mem, rest>>
  BY DEF PrepareLoad
<1> QED
  BY <1>1, <1>5, <1>6, QuietType DEF TInv, TypeOK

LEMMA PrepareSaveType ==
    ASSUME TInv, NEW r \in Runs, PrepareSave(r)
    PROVE  TInv'
<1>1. r \in Procs /\ pc[r] \notin Resting /\ {"prep_check"} \subseteq Step
  BY DEF Resting, PrepareSave, Procs, Step
<1>2. Run(r) \in Runs
  BY <1>1, Serves
<1>3. Snap(r).status \in Status /\ "failed" \in Outcomes
  BY KnownRecord, <1>1 DEF Record, Outcomes, Terminal
<1>4. Moved(r) /\ repo' \in [Runs -> Record] /\ prefix' \subseteq Runs
  <2>1. CASE IsCurrent(r)
    <3>1. /\ Save(r, Revised(r, Snap(r).status, TRUE))
          /\ With(r, "prep_check", [job[r] EXCEPT !.snap = Revised(r, Snap(r).status, TRUE)])
          /\ prefix' = prefix \cup {r}
      BY <2>1 DEF PrepareSave
    <3> QED
      BY <1>1, <1>3, <3>1, Saved DEF TInv, TypeOK
  <2>2. CASE ~IsCurrent(r)
    <3>1. UNCHANGED <<repo, prefix>> /\ Settle(r, "failed", FALSE)
      BY <2>2 DEF PrepareSave
    <3> QED
      BY <1>1, <1>3, <3>1, Settles DEF TInv, TypeOK
  <2> QED
    BY <2>1, <2>2
<1>5. UNCHANGED <<log, cancelled, stateLock, hubClosed, question, rest>>
  BY DEF PrepareSave
<1> QED
  BY <1>4, <1>5 DEF TInv, TypeOK, Moved, rest

LEMMA PrepareCheckType ==
    ASSUME TInv, NEW r \in Runs, PrepareCheck(r)
    PROVE  TInv'
<1>1. r \in Procs /\ pc[r] \notin Resting /\ {"load"} \subseteq Step
  BY DEF Resting, PrepareCheck, Procs, Step
<1>2. Run(r) \in Runs
  BY <1>1, Serves
<1> DEFINE j == [job[r] EXCEPT !.mode = "execute"]
<1>3. \/ prefix' = prefix \ {r} /\ Finish(r)
      \/ UNCHANGED prefix /\ With(r, "load", j)
  BY DEF PrepareCheck
<1>4. j \in Job /\ j.run = r
  BY <1>1, KnownRecord, Serves DEF Job, Run
<1> HIDE DEF j
<1>5. Moved(r)
  BY <1>1, <1>3, <1>4, MoveTo, Finishes
<1>6. UNCHANGED <<repo, log, cancelled, stateLock, hubClosed, question, rest>>
  BY DEF PrepareCheck
<1> QED
  BY <1>3, <1>5, <1>6 DEF TInv, TypeOK, Moved, rest

LEMMA LoadQueuedType ==
    ASSUME TInv, NEW r \in Runs, LoadQueued(r)
    PROVE  TInv'
<1>1. r \in Procs /\ pc[r] \notin Resting /\ {"select"} \subseteq Step
  BY DEF Resting, LoadQueued, Procs, Step
<1>2. Run(r) \in Runs
  BY <1>1, Serves
<1>3. \/ Finish(r)
      \/ With(r, "select", [job[r] EXCEPT !.snap = repo[r]])
  BY DEF LoadQueued
<1>4. job[r].target \in Outcomes /\ {"failed", "timed_out", "cancelled"} \subseteq Outcomes
  BY <1>1, KnownRecord DEF Outcomes, Terminal
<1>5. Moved(r)
  BY <1>1, <1>3, <1>4, Serves, Finishes, Loaded
<1>6. UNCHANGED <<repo, log, mem, rest>>
  BY DEF LoadQueued
<1> QED
  BY <1>1, <1>5, <1>6, QuietType DEF TInv, TypeOK

LEMMA SelectStrategyType ==
    ASSUME TInv, NEW r \in Runs, SelectStrategy(r)
    PROVE  TInv'
<1>1. r \in Procs /\ pc[r] \notin Resting /\ {"start"} \subseteq Step /\ {"strategy_selected"} \subseteq Event
  BY DEF Resting, SelectStrategy, Procs, Step, Event, Outcomes, Terminal
<1>2. Run(r) \in Runs
  BY <1>1, Serves
<1>3. /\ Emit(r, "strategy_selected") /\ Goto(r, "start")
      /\ UNCHANGED <<repo, job, mem, rest>>
  BY DEF SelectStrategy
<1>4. Moved(r) /\ log' \in [Runs -> Seq(Event)]
  BY <1>1, <1>2, <1>3, GoesTo, EmitType
<1> QED
  BY <1>1, <1>3, <1>4, QuietType DEF TInv, TypeOK

LEMMA RejectStrategyType ==
    ASSUME TInv, NEW r \in Runs, RejectStrategy(r)
    PROVE  TInv'
<1>1. r \in Procs /\ pc[r] \notin Resting
  BY DEF Resting, RejectStrategy, Procs
<1>2. Run(r) \in Runs
  BY <1>1, Serves
<1>3. Settle(r, "failed", FALSE)
  BY DEF RejectStrategy
<1>4. job[r].target \in Outcomes /\ {"failed", "timed_out", "cancelled"} \subseteq Outcomes
  BY <1>1, KnownRecord DEF Outcomes, Terminal
<1>5. Moved(r)
  BY <1>1, <1>3, <1>4, Settles
<1>6. UNCHANGED <<repo, log, mem, rest>>
  BY DEF RejectStrategy
<1> QED
  BY <1>1, <1>5, <1>6, QuietType DEF TInv, TypeOK

LEMMA RejectPayloadType ==
    ASSUME TInv, NEW r \in Runs, RejectPayload(r)
    PROVE  TInv'
<1>1. r \in Procs /\ pc[r] \notin Resting /\ {"fail_load"} \subseteq Step
  BY DEF Resting, RejectPayload, Procs, Step
<1>2. Run(r) \in Runs
  BY <1>1, Serves
<1>3. Goto(r, "fail_load") /\ UNCHANGED job
  BY DEF RejectPayload
<1>4. job[r].target \in Outcomes /\ {"failed", "timed_out", "cancelled"} \subseteq Outcomes
  BY <1>1, KnownRecord DEF Outcomes, Terminal
<1>5. Moved(r)
  BY <1>1, <1>3, <1>4, GoesTo
<1>6. UNCHANGED <<repo, log, mem, rest>>
  BY DEF RejectPayload
<1> QED
  BY <1>1, <1>5, <1>6, QuietType DEF TInv, TypeOK

LEMMA StartRunType ==
    ASSUME TInv, NEW r \in Runs, StartRun(r)
    PROVE  TInv'
<1>1. r \in Procs /\ pc[r] \notin Resting /\ {"started", "fail_load"} \subseteq Step
  BY DEF Resting, StartRun, Procs, Step
<1>2. Run(r) \in Runs
  BY <1>1, Serves
<1>3. Snap(r).counted \in BOOLEAN /\ "running" \in Status
  BY KnownRecord, <1>1 DEF Record, Status, Waiting, Terminal
<1>4. Moved(r) /\ repo' \in [Runs -> Record]
  <2>1. CASE Saves(r, "running")
    <3>1. /\ Save(r, Revised(r, "running", Snap(r).counted))
          /\ With(r, "started", [job[r] EXCEPT !.snap = Revised(r, "running", Snap(r).counted)])
      BY <2>1 DEF StartRun
    <3> QED
      BY <1>1, <1>3, <3>1, Saved
  <2>2. CASE ~Saves(r, "running")
    <3>1. UNCHANGED repo /\ UNCHANGED job /\ Goto(r, "fail_load")
      BY <2>2 DEF StartRun
    <3> QED
      BY <1>1, <3>1, GoesTo DEF TInv, TypeOK
  <2> QED
    BY <2>1, <2>2
<1>5. UNCHANGED <<log, mem, rest>>
  BY DEF StartRun
<1> QED
  BY <1>1, <1>4, <1>5, QuietType DEF TInv, TypeOK

LEMMA RecordStartedType ==
    ASSUME TInv, NEW r \in Runs, RecordStarted(r)
    PROVE  TInv'
<1>1. r \in Procs /\ pc[r] \notin Resting /\ {"fail_load", "graph"} \subseteq Step /\ {"run_started"} \subseteq Event
  BY DEF Resting, RecordStarted, Procs, Step, Event, Outcomes, Terminal
<1>2. Run(r) \in Runs
  BY <1>1, Serves
<1>3. /\ Emit(r, "run_started") /\ UNCHANGED job
      /\ Goto(r, "fail_load") \/ Goto(r, "graph")
      /\ UNCHANGED <<repo, mem, rest>>
  BY DEF RecordStarted
<1>4. Moved(r) /\ log' \in [Runs -> Seq(Event)]
  BY <1>1, <1>2, <1>3, GoesTo, EmitType
<1> QED
  BY <1>1, <1>3, <1>4, QuietType DEF TInv, TypeOK

LEMMA FailLoadType ==
    ASSUME TInv, NEW r \in Runs, FailLoad(r)
    PROVE  TInv'
<1>1. r \in Procs /\ pc[r] \notin Resting /\ {"apply_lock", "fail_start"} \subseteq Step
  BY DEF Resting, FailLoad, Procs, Step
<1>2. Run(r) \in Runs
  BY <1>1, Serves
<1>3. \/ Finish(r)
      \/ With(r, "apply_lock", [job[r] EXCEPT !.snap = repo[r], !.target = "failed"])
      \/ With(r, "fail_start", [job[r] EXCEPT !.snap = repo[r], !.target = "failed"])
  BY DEF FailLoad
<1>4. Run(r) = r /\ "failed" \in Outcomes
  BY <1>1, Serves DEF Outcomes, Terminal
<1>5. Moved(r)
  BY <1>1, <1>3, <1>4, Finishes, Loaded
<1>6. UNCHANGED <<repo, log, mem, rest>>
  BY DEF FailLoad
<1> QED
  BY <1>1, <1>5, <1>6, QuietType DEF TInv, TypeOK

LEMMA FailStartType ==
    ASSUME TInv, NEW r \in Runs, FailStart(r)
    PROVE  TInv'
<1>1. r \in Procs /\ pc[r] \notin Resting /\ {"apply_lock"} \subseteq Step
  BY DEF Resting, FailStart, Procs, Step
<1>2. Run(r) \in Runs
  BY <1>1, Serves
<1>3. Snap(r).counted \in BOOLEAN /\ "running" \in Status
  BY KnownRecord, <1>1 DEF Record, Status, Waiting, Terminal
<1>4. Moved(r) /\ repo' \in [Runs -> Record]
  <2>1. CASE Saves(r, "running")
    <3>1. /\ Save(r, Revised(r, "running", Snap(r).counted))
          /\ With(r, "apply_lock", [job[r] EXCEPT !.snap = Revised(r, "running", Snap(r).counted)])
      BY <2>1 DEF FailStart
    <3> QED
      BY <1>1, <1>3, <3>1, Saved
  <2>2. CASE ~Saves(r, "running")
    <3>1. UNCHANGED repo /\ Settle(r, "failed", FALSE)
      BY <2>2 DEF FailStart
    <3>2. "failed" \in Outcomes
      BY DEF Outcomes, Terminal
    <3> QED
      BY <1>1, <3>1, <3>2, Settles DEF TInv, TypeOK
  <2> QED
    BY <2>1, <2>2
<1>5. UNCHANGED <<log, mem, rest>>
  BY DEF FailStart
<1> QED
  BY <1>1, <1>4, <1>5, QuietType DEF TInv, TypeOK

LEMMA SettleLoadType ==
    ASSUME TInv, NEW r \in Runs, SettleLoad(r)
    PROVE  TInv'
<1>1. r \in Procs /\ pc[r] \notin Resting /\ {"settle_charge", "settle_start", "settle_spend", "apply_lock"} \subseteq Step
  BY DEF Resting, SettleLoad, Procs, Step
<1>2. Run(r) \in Runs
  BY <1>1, Serves
<1>3. \/ Finish(r)
      \/ \E step \in {"settle_charge", "settle_start", "settle_spend", "apply_lock"} :
           With(r, step, [job[r] EXCEPT !.snap = repo[r]])
  BY DEF SettleLoad
<1>4. Run(r) = r /\ job[r].target \in Outcomes
  BY <1>1, Serves, KnownRecord
<1>5. Moved(r)
  BY <1>1, <1>3, <1>4, Finishes, Loaded
<1>6. UNCHANGED <<repo, log, mem, rest>>
  BY DEF SettleLoad
<1> QED
  BY <1>1, <1>5, <1>6, QuietType DEF TInv, TypeOK

LEMMA SettleChargeType ==
    ASSUME TInv, NEW r \in Runs, SettleCharge(r)
    PROVE  TInv'
<1>1. r \in Procs /\ pc[r] \notin Resting
  BY DEF Resting, SettleCharge, Procs
<1>2. Run(r) \in Runs
  BY <1>1, Serves
<1>3. Revised(r, Snap(r).status, TRUE) \in Record
  BY <1>1, KnownRecord, RevisedType DEF Record
<1>4. Moved(r) /\ repo' \in [Runs -> Record]
  <2>1. Finish(r) /\ (UNCHANGED repo \/ Save(r, Revised(r, Snap(r).status, TRUE)))
    BY DEF SettleCharge
  <2> QED
    BY <1>1, <1>2, <1>3, <2>1, Finishes, SaveType DEF TInv, TypeOK
<1>5. UNCHANGED <<log, mem, rest>>
  BY DEF SettleCharge
<1> QED
  BY <1>1, <1>4, <1>5, QuietType DEF TInv, TypeOK

LEMMA SettleStartType ==
    ASSUME TInv, NEW r \in Runs, SettleStart(r)
    PROVE  TInv'
<1>1. r \in Procs /\ pc[r] \notin Resting /\ {"settle_started"} \subseteq Step
  BY DEF Resting, SettleStart, Procs, Step
<1>2. Run(r) \in Runs
  BY <1>1, Serves
<1>3. Snap(r).counted \in BOOLEAN /\ "running" \in Status
  BY KnownRecord, <1>1 DEF Record, Status, Waiting, Terminal
<1>4. Moved(r) /\ repo' \in [Runs -> Record]
  <2>1. CASE Saves(r, "running")
    <3>1. /\ Save(r, Revised(r, "running", Snap(r).counted))
          /\ With(r, "settle_started", [job[r] EXCEPT !.snap = Revised(r, "running", Snap(r).counted)])
      BY <2>1 DEF SettleStart
    <3> QED
      BY <1>1, <1>3, <3>1, Saved
  <2>2. CASE ~Saves(r, "running")
    <3>1. UNCHANGED repo /\ SettleRaises(r)
      BY <2>2 DEF SettleStart
    <3> QED
      BY <1>1, <3>1, SettlesAgain DEF TInv, TypeOK
  <2> QED
    BY <2>1, <2>2
<1>5. UNCHANGED <<log, mem, rest>>
  BY DEF SettleStart
<1> QED
  BY <1>1, <1>4, <1>5, QuietType DEF TInv, TypeOK

LEMMA RecordSettleStartedType ==
    ASSUME TInv, NEW r \in Runs, RecordSettleStarted(r)
    PROVE  TInv'
<1>1. r \in Procs /\ pc[r] \notin Resting /\ {"settle_spend", "apply_lock"} \subseteq Step /\ {"run_started"} \subseteq Event
  BY DEF Resting, RecordSettleStarted, Procs, Step, Event, Outcomes, Terminal
<1>2. Run(r) \in Runs
  BY <1>1, Serves
<1>3. /\ Emit(r, "run_started")
      /\ \/ SettleRaises(r)
         \/ Goto(r, "settle_spend") /\ UNCHANGED job
         \/ Goto(r, "apply_lock") /\ UNCHANGED job
      /\ UNCHANGED <<repo, mem, rest>>
  BY DEF RecordSettleStarted
<1>4. Moved(r) /\ log' \in [Runs -> Seq(Event)]
  BY <1>1, <1>2, <1>3, GoesTo, SettlesAgain, EmitType
<1> QED
  BY <1>1, <1>3, <1>4, QuietType DEF TInv, TypeOK

LEMMA SettleSpendType ==
    ASSUME TInv, NEW r \in Runs, SettleSpend(r)
    PROVE  TInv'
<1>1. r \in Procs /\ pc[r] \notin Resting /\ {"apply_lock"} \subseteq Step
  BY DEF Resting, SettleSpend, Procs, Step
<1>2. Run(r) \in Runs
  BY <1>1, Serves
<1> DEFINE rec == Revised(r, Snap(r).status, TRUE)
<1>3. rec \in Record /\ Run(r) = r
  BY <1>1, KnownRecord, RevisedType, Serves DEF Record
<1>4. Moved(r) /\ repo' \in [Runs -> Record]
  <2>1. CASE IsCurrent(r)
    <3>1. PICK target \in {job[r].target, "timed_out"} :
            With(r, "apply_lock", [job[r] EXCEPT !.snap = rec, !.target = target])
      BY <2>1 DEF SettleSpend
    <3>2. Save(r, rec)
      BY <2>1 DEF SettleSpend
    <3> DEFINE j == [job[r] EXCEPT !.snap = rec, !.target = target]
    <3> HIDE DEF rec
    <3>3. j \in Job /\ j.run = r
      BY <1>1, <1>3, KnownRecord DEF Job, Run, Outcomes, Terminal
    <3>4. With(r, "apply_lock", j)
      BY <3>1
    <3> HIDE DEF j
    <3> QED
      BY <1>1, <1>2, <1>3, <3>2, <3>3, <3>4, MoveTo, SaveType
  <2>2. CASE ~IsCurrent(r)
    <3>1. UNCHANGED repo /\ SettleRaises(r)
      BY <2>2 DEF SettleSpend
    <3> QED
      BY <1>1, <3>1, SettlesAgain DEF TInv, TypeOK
  <2> QED
    BY <2>1, <2>2
<1>5. UNCHANGED <<log, mem, rest>>
  BY DEF SettleSpend
<1> QED
  BY <1>1, <1>4, <1>5, QuietType DEF TInv, TypeOK

LEMMA GraphReturnsType ==
    ASSUME TInv, NEW p \in Procs, GraphReturns(p)
    PROVE  TInv'
<1>1. pc[p] \notin Resting /\ {"apply_lock"} \subseteq Step
  BY DEF Resting, GraphReturns, Step
<1>2. Run(p) \in Runs
  BY <1>1, Serves
<1>3. PICK o \in Outcomes :
        /\ question' = IF o = "waiting_input" THEN [question EXCEPT ![Run(p)] = @ + 1] ELSE question
        /\ With(p, "apply_lock",
                [job[p] EXCEPT !.target = IF Run(p) \in cancelled THEN "cancelled" ELSE o,
                               !.charged = FALSE])
  BY DEF GraphReturns
<1> DEFINE t == IF Run(p) \in cancelled THEN "cancelled" ELSE o
           j == [job[p] EXCEPT !.target = t, !.charged = FALSE]
<1>4. t \in Outcomes /\ With(p, "apply_lock", j)
  BY <1>3 DEF Outcomes, Terminal
<1> HIDE DEF t
<1>5. j \in Job /\ j.run = Run(p) /\ (p \in Runs => Run(p) = p)
  <2>1. job[p] \in Job /\ job[p].run = Run(p) /\ (p \in Runs => Run(p) = p) /\ t \in Outcomes
    BY <1>1, <1>4, KnownRecord, Serves DEF Run
  <2> QED
    BY <2>1 DEF Job
<1> HIDE DEF j
<1>6. Moved(p)
  BY <1>1, <1>2, <1>4, <1>5, MoveTo
<1>7. question' \in [Runs -> Nat]
  BY <1>2, <1>3 DEF TInv, TypeOK
<1>8. UNCHANGED <<repo, log, cancelled, stateLock, hubClosed, prefix, rest>>
  BY DEF GraphReturns
<1> QED
  BY <1>6, <1>7, <1>8 DEF TInv, TypeOK, Moved, rest

LEMMA GraphRaisesType ==
    ASSUME TInv, NEW p \in Procs, GraphRaises(p)
    PROVE  TInv'
<1>1. pc[p] \notin Resting
  BY DEF Resting, GraphRaises
<1>2. Run(p) \in Runs
  BY <1>1, Serves
<1>3. (ApplyRaises(p) \/ Settle(p, "failed", FALSE)) /\ "failed" \in Outcomes
  BY DEF GraphRaises, Outcomes, Terminal
<1>4. Moved(p)
  BY <1>1, <1>3, RaisesToApply, Settles
<1>5. UNCHANGED <<repo, log, mem, rest>>
  BY DEF GraphRaises
<1> QED
  BY <1>4, <1>5, QuietType DEF TInv, TypeOK

LEMMA ApplyLockType ==
    ASSUME TInv, NEW p \in Procs, ApplyLock(p)
    PROVE  TInv'
<1>1. pc[p] \notin Resting /\ {"apply_save"} \subseteq Step
  BY DEF Resting, ApplyLock, Step
<1>2. Run(p) \in Runs
  BY <1>1, Serves
<1>3. \/ UNCHANGED stateLock /\ Finish(p)
      \/ /\ stateLock' = p
         /\ With(p, "apply_save", [job[p] EXCEPT !.snap = repo[Run(p)],
                                                 !.target = Decided(p, job[p].target)])
  BY DEF ApplyLock
<1>4. Decided(p, job[p].target) \in Outcomes
  BY <1>1, KnownRecord DEF Decided, Outcomes, Terminal
<1>5. Moved(p)
  BY <1>1, <1>3, <1>4, Finishes, Loaded
<1>6. UNCHANGED <<repo, log, cancelled, hubClosed, prefix, question, rest>>
  BY DEF ApplyLock
<1> QED
  BY <1>3, <1>5, <1>6 DEF TInv, TypeOK, Moved, rest

LEMMA ApplySaveType ==
    ASSUME TInv, NEW p \in Procs, ApplySave(p)
    PROVE  TInv'
<1>1. pc[p] \notin Resting /\ {"checkpoint"} \subseteq Step
  BY DEF Resting, ApplySave, Step
<1>2. Run(p) \in Runs
  BY <1>1, Serves
<1>3. job[p].target \in Status /\ Counted(p) \in BOOLEAN
  BY <1>1, KnownRecord DEF Outcomes, Status, Waiting, Counted
<1>4. Moved(p) /\ repo' \in [Runs -> Record] /\ asked' \in [Runs -> Nat]
  <2>1. CASE Saves(p, job[p].target)
    <3>1. /\ Save(p, Revised(p, job[p].target, Counted(p)))
          /\ With(p, "checkpoint",
                  [job[p] EXCEPT !.snap = Revised(p, job[p].target, Counted(p))])
          /\ \/ asked' = [asked EXCEPT ![Run(p)] = question[Run(p)]]
             \/ asked' = asked
      BY <2>1 DEF ApplySave
    <3>2. asked' \in [Runs -> Nat]
      BY <1>2, <3>1 DEF TInv, TypeOK
    <3> QED
      BY <1>1, <1>3, <3>1, <3>2, Saved
  <2>2. CASE ~Saves(p, job[p].target)
    <3>1. UNCHANGED <<repo, asked>> /\ ApplyRaises(p)
      BY <2>2 DEF ApplySave
    <3> QED
      BY <1>1, <3>1, RaisesToApply DEF TInv, TypeOK
  <2> QED
    BY <2>1, <2>2
<1>5. stateLock' = None /\ UNCHANGED <<log, cancelled, hubClosed, prefix, question, reported, lost, restarts>>
  BY DEF ApplySave
<1> QED
  BY <1>4, <1>5 DEF TInv, TypeOK, Moved

LEMMA RecordCheckpointType ==
    ASSUME TInv, NEW p \in Procs, RecordCheckpoint(p)
    PROVE  TInv'
<1>1. pc[p] \notin Resting /\ {"budget", "result", "outcome"} \subseteq Step /\ {"checkpoint_saved"} \subseteq Event
  BY DEF Resting, RecordCheckpoint, Step, Event, Outcomes, Terminal
<1>2. Run(p) \in Runs
  BY <1>1, Serves
<1>3. /\ Emit(p, "checkpoint_saved")
      /\ \E step \in {"budget", "result", "outcome"} : Goto(p, step)
      /\ UNCHANGED <<repo, job, mem, rest>>
  BY DEF RecordCheckpoint
<1>4. Moved(p) /\ log' \in [Runs -> Seq(Event)]
  BY <1>1, <1>2, <1>3, GoesTo, EmitType
<1> QED
  BY <1>3, <1>4, QuietType DEF TInv, TypeOK

LEMMA RecordBudgetType ==
    ASSUME TInv, NEW p \in Procs, RecordBudget(p)
    PROVE  TInv'
<1>1. pc[p] \notin Resting /\ {"outcome"} \subseteq Step /\ {"budget_exhausted"} \subseteq Event
  BY DEF Resting, RecordBudget, Step, Event, Outcomes, Terminal
<1>2. Run(p) \in Runs
  BY <1>1, Serves
<1>3. /\ Emit(p, "budget_exhausted") /\ Goto(p, "outcome")
      /\ UNCHANGED <<repo, job, mem, rest>>
  BY DEF RecordBudget
<1>4. Moved(p) /\ log' \in [Runs -> Seq(Event)]
  BY <1>1, <1>2, <1>3, GoesTo, EmitType
<1> QED
  BY <1>1, <1>3, <1>4, QuietType DEF TInv, TypeOK

LEMMA PublishResultType ==
    ASSUME TInv, NEW p \in Procs, PublishResult(p)
    PROVE  TInv'
<1>1. pc[p] \notin Resting /\ {"outcome"} \subseteq Step
  BY DEF Resting, PublishResult, Step
<1>2. Run(p) \in Runs
  BY <1>1, Serves
<1>3. Snap(p).status \in Status /\ Snap(p).counted \in BOOLEAN
  BY KnownRecord DEF Record
<1>4. Moved(p) /\ repo' \in [Runs -> Record]
  <2>1. CASE UNCHANGED <<repo, job>> /\ Goto(p, "outcome")
    BY <1>1, <2>1, GoesTo DEF TInv, TypeOK
  <2>2. CASE /\ Save(p, Revised(p, Snap(p).status, Snap(p).counted))
             /\ With(p, "outcome",
                     [job[p] EXCEPT !.snap = Revised(p, Snap(p).status, Snap(p).counted)])
    BY <1>1, <1>3, <2>2, Saved
  <2>3. CASE UNCHANGED repo /\ ApplyRaises(p)
    BY <1>1, <2>3, RaisesToApply DEF TInv, TypeOK
  <2> QED
    BY <2>1, <2>2, <2>3 DEF PublishResult
<1>5. UNCHANGED <<log, mem, rest>>
  BY DEF PublishResult
<1> QED
  BY <1>4, <1>5, QuietType DEF TInv, TypeOK

LEMMA RecordOutcomeType ==
    ASSUME TInv, NEW p \in Procs, RecordOutcome(p)
    PROVE  TInv'
<1>1. pc[p] \notin Resting
  BY DEF Resting, RecordOutcome
<1>2. Run(p) \in Runs
  BY <1>1, Serves
<1>3. /\ Emit(p, job[p].target) /\ job[p].target \in Event
      /\ ApplyRaises(p) \/ Finish(p)
      /\ hubClosed' \in {hubClosed, hubClosed \cup {Run(p)}}
      /\ prefix' \in {prefix, prefix \ {Run(p)}}
      /\ UNCHANGED <<repo, cancelled, stateLock, question, rest>>
  BY <1>1, KnownRecord DEF RecordOutcome, Event
<1>4. Moved(p) /\ log' \in [Runs -> Seq(Event)]
  BY <1>1, <1>2, <1>3, RaisesToApply, Finishes, EmitType
<1> QED
  BY <1>2, <1>3, <1>4 DEF TInv, TypeOK, Moved, rest

LEMMA RestartType == TInv /\ Restart => TInv'
<1> SUFFICES ASSUME TInv, Restart PROVE TInv'
  OBVIOUS
<1>1. /\ pc' = [p \in Procs |-> IF p \in Callers THEN "idle"
                                ELSE IF pc[p] = "none" THEN "none" ELSE "gone"]
      /\ job' = [p \in Procs |-> NoJob]
  BY DEF Restart
<1>2. pc' \in [Procs -> Step] /\ \A p \in Procs : pc'[p] \in Resting
  BY <1>1 DEF Step, Resting
<1>3. job' \in [Procs -> Job] /\ Placed'
  BY <1>1, <1>2, NoJobType DEF Placed, Procs
<1> QED
  BY <1>2, <1>3 DEF TInv, TypeOK, Restart

\* Type correctness is inductive.
THEOREM TypePreserved == TInv /\ [Next]_vars => TInv'
<1> SUFFICES ASSUME TInv, [Next]_vars PROVE TInv'
  OBVIOUS
<1>1. ASSUME NEW c \in Callers, Request(c) PROVE TInv'
  BY <1>1, LookupRequestType, LoadWaitingType, CancelLoadType DEF Request
<1>2. ASSUME NEW c \in Callers, CallerStep(c) PROVE TInv'
  BY <1>2, InsertRunType, RecordCreatedType, QueueRunType, RecordQueuedType, SpawnTaskType,
     MatchCheckpointType, ResumeRunType, RecordResumedType, RecordCancelRequestType,
     CancelTryType, CancelReloadType, RecordCancelledType
     DEF CallerStep
<1>3. ASSUME NEW r \in Runs, TaskStep(r) PROVE TInv'
  BY <1>3, PrepareGuardType, PrepareReturnsType, PrepareFailsType, PrepareLoadType,
     PrepareSaveType, PrepareCheckType, LoadQueuedType, SelectStrategyType,
     RejectStrategyType, RejectPayloadType, StartRunType, RecordStartedType, FailLoadType,
     FailStartType, SettleLoadType, SettleChargeType, SettleStartType,
     RecordSettleStartedType, SettleSpendType
     DEF TaskStep
<1>4. ASSUME NEW p \in Procs, GraphStep(p) PROVE TInv'
  BY <1>4, GraphReturnsType, GraphRaisesType, ApplyLockType, ApplySaveType,
     RecordCheckpointType, RecordBudgetType, PublishResultType, RecordOutcomeType
     DEF GraphStep
<1>5. CASE UNCHANGED vars
  BY <1>5 DEF TInv, TypeOK, Placed, Run, vars
<1> QED
  BY <1>1, <1>2, <1>3, <1>4, <1>5, RestartType DEF Next

\* TypeOK holds initially, with the placing of every coroutine.
THEOREM TypeInitial == Init => TInv
<1> SUFFICES ASSUME Init PROVE TInv
  OBVIOUS
<1>1. \A p \in Procs : pc[p] \in Step \cap Resting
  BY DEF Init, Step, Resting
<1>2. repo \in [Runs -> Record] /\ job \in [Procs -> Job]
  BY NoJobType DEF Init
<1>3. pc \in [Procs -> Step] /\ Placed
  BY <1>1 DEF Init, Placed, Procs
<1> QED
  BY <1>2, <1>3 DEF Init, TInv, TypeOK

\* The variables keep their types, and every coroutine under way serves one Run:
\* a background task its own (harness/service.py).
THEOREM TypeCorrect == Spec => []TypeOK
<1>1. TInv => TypeOK
  BY DEF TInv
<1> QED
  BY <1>1, TypeInitial, TypePreserved, PTL DEF Spec

-----------------------------------------------------------------------------
(***************************************************************************)
(* Part 2.  The invariant of RunInvariant is inductive: SingleExecution,    *)
(* LockedSnapshotCurrent and the other invariants follow.                   *)
(*                                                                          *)
(* A step moves one coroutine p and changes at most the record of its Run.  *)
(* Calm says what the others may rely on, Keeps that p does not become a    *)
(* second holder; OneStep assembles IInv' from them, and the lemmas after   *)
(* it cover the shapes most actions have.                                   *)
(***************************************************************************)

\* What the step of another coroutine leaves q to rely on.
Calm(q) ==
    /\ stateLock = q => stateLock' = q
    /\ \/ repo'[Run(q)] = repo[Run(q)]
       \/ /\ repo'[Run(q)].version > repo[Run(q)].version
          /\ pc[q] # "apply_save"
          /\ repo'[Run(q)].status # "absent"
          /\ Ended(Run(q)) => Ended(Run(q))'
          /\ pc[q] \in Holding => repo'[Run(q)].status \notin Waiting
    /\ Run(q) \in cancelled => Run(q) \in cancelled'
    /\ Run(q) \in Accepted' => Run(q) \in Accepted \/ Run(q) \in cancelled'
    /\ pc[q] = "apply_save" /\ Run(q) \in cancelled' => Run(q) \in cancelled

\* p becomes no second holder of a Run that has not ended, and no second executor.
Keeps(p) ==
    /\ pc'[p] \in Holding =>
          \/ pc[p] \in Holding /\ job'[p].run = Run(p)
          \/ repo'[job'[p].run].status \in Terminal
          \/ \A q \in Procs \ {p} : pc[q] \in Holding => Run(q) # job'[p].run
    /\ pc'[p] \in Busy =>
          \/ pc[p] \in Busy /\ job'[p].run = Run(p)
          \/ \A q \in Procs \ {p} : pc[q] \in Busy => Run(q) # job'[p].run
    /\ \A r \in Runs : Ended(r) => Ended(r)'

LEMMA Phases ==
    /\ Busy \subseteq Holding
    /\ Holding \cap (Resting \cup Cancelling \cup Announcing) = {}
    /\ "apply_save" \in Holding
    /\ Holding \cap {"match", "resume", "insert", "settle_charge"} = {}
    /\ Cancelling \cap (Announcing \cup Resting) = {}
    /\ {"match", "resume", "insert", "settle_charge"} \cap (Cancelling \cup Announcing \cup Resting) = {}
BY DEF Busy, Holding, Resting, Cancelling, Announcing

LEMMA StatusFacts ==
    /\ Terminal \cap (Waiting \cup {"absent", "created", "queued", "running"}) = {}
    /\ Waiting \cap {"absent", "created", "queued", "running"} = {}
    /\ "created" \in Successors("absent")
    /\ \A s \in Status : /\ Successors(s) \subseteq Status \ {"absent"}
                         /\ s \in Terminal => Successors(s) = {}
                         /\ s # "running" => Successors(s) \cap Waiting = {}
BY DEF Terminal, Waiting, Status, Successors

LEMMA OthersLocal ==
    ASSUME TInv, TInv', NEW q \in Procs, Local(q), pc'[q] = pc[q], job'[q] = job[q],
           pc[q] \notin Resting => Calm(q)
    PROVE  Local(q)'
<1> SUFFICES ASSUME pc[q] \notin Resting
             PROVE  (Fresh(q) /\ Locks(q) /\ Holds(q) /\ Applies(q) /\ Knows(q) /\ Signalled(q))'
  BY DEF Local
<1>1. Fresh(q) /\ Locks(q) /\ Holds(q) /\ Applies(q) /\ Knows(q) /\ Signalled(q) /\ Calm(q)
  BY DEF Local
<1>2. /\ Run(q)' = Run(q) /\ Snap(q)' = Snap(q) /\ job'[q] = job[q] /\ pc'[q] = pc[q]
      /\ Stored(q) = repo[Run(q)] /\ Stored(q)' = repo'[Run(q)]
  BY DEF Run, Snap, Stored
<1>3. /\ Snap(q).version \in Nat /\ repo[Run(q)].version \in Nat
      /\ repo'[Run(q)].version \in Nat
  BY KnownRecord, Serves DEF Record, TInv, TypeOK
<1>4. Fresh(q)'
  <2>1. CASE repo'[Run(q)] = repo[Run(q)]
    BY <1>1, <1>2, <2>1 DEF Fresh
  <2>2. CASE repo'[Run(q)].version > repo[Run(q)].version
    BY <1>1, <1>2, <1>3, <2>2 DEF Fresh
  <2> QED
    BY <1>1, <2>1, <2>2 DEF Calm
<1>5. Locks(q)'
  BY <1>1, <1>2 DEF Locks, Calm
<1>6. Holds(q)'
  BY <1>1, <1>2 DEF Holds, Calm
<1>7. Applies(q)'
  BY <1>1, <1>2 DEF Applies, Calm, Ended
<1>8. Knows(q)'
  BY <1>1, <1>2 DEF Knows, Calm, Ended
<1>9. Signalled(q)'
  BY <1>1, <1>2 DEF Signalled, Calm
<1> QED
  BY <1>4, <1>5, <1>6, <1>7, <1>8, <1>9

LEMMA ApartStep ==
    ASSUME TInv, NEW p \in Procs,
           \A q1, q2 \in Procs : Apart(q1, q2), Placed', Alone(p), Keeps(p)
    PROVE  \A q1, q2 \in Procs : Apart(q1, q2)'
<1>1. ASSUME NEW q1 \in Procs, NEW q2 \in Procs, q1 # q2,
             pc'[q1] \notin Resting, pc'[q2] \notin Resting, job'[q1].run = job'[q2].run
      PROVE  /\ pc'[q1] \in Holding /\ pc'[q2] \in Holding => repo'[job'[q1].run].status \in Terminal
             /\ ~(pc'[q1] \in Busy /\ pc'[q2] \in Busy)
  <2>1. job'[q1].run \in Runs
    BY <1>1 DEF Placed, Run, Procs
  <2>2. \A q \in Procs \ {p} : pc'[q] = pc[q] /\ job'[q] = job[q] /\ job'[q].run = Run(q)
    BY DEF Alone, Run
  <2>3. \A r \in Runs : Ended(r) => Ended(r)'
    BY DEF Keeps
  <2>4. ASSUME NEW q \in Procs \ {p}, pc[q] \notin Resting, Run(q) = job'[p].run,
               pc'[p] \notin Resting
        PROVE  /\ pc'[p] \in Holding /\ pc[q] \in Holding => repo'[job'[p].run].status \in Terminal
               /\ ~(pc'[p] \in Busy /\ pc[q] \in Busy)
    <3>1. pc[p] \in Holding \cup Busy => pc[p] \notin Resting
      BY Phases
    <3>2. Run(p) = job'[p].run /\ pc[p] \notin Resting => Apart(p, q)
      OBVIOUS
    <3>3. job'[p].run \in Runs
      BY <2>4 DEF Placed, Run, Procs
    <3> QED
      BY <2>3, <2>4, <3>1, <3>2, <3>3 DEF Keeps, Apart, Ended
  <2>5. CASE q1 = p
    BY <1>1, <2>2, <2>4, <2>5
  <2>6. CASE q2 = p
    BY <1>1, <2>2, <2>4, <2>6
  <2>7. CASE q1 # p /\ q2 # p
    BY <1>1, <2>1, <2>2, <2>3, <2>7 DEF Apart, Run, Ended
  <2> QED
    BY <2>5, <2>6, <2>7
<1> QED
  BY <1>1 DEF Apart, Run, Ended

LEMMA OneStep ==
    ASSUME TInv, TInv', IInv, NEW p \in Procs, Alone(p), Keeps(p),
           \A q \in Procs \ {p} : pc[q] \notin Resting => Calm(q),
           Local(p)', \A r \in Runs : Sound(r)'
    PROVE  IInv'
<1>1. \A q1, q2 \in Procs : Apart(q1, q2)'
  BY ApartStep DEF IInv, TInv
<1>2. ASSUME NEW q \in Procs PROVE Local(q)'
  <2>1. CASE q = p
    BY <2>1
  <2>2. CASE q # p
    BY <2>2, OthersLocal DEF IInv, Alone
  <2> QED
    BY <2>1, <2>2
<1> QED
  BY <1>1, <1>2 DEF IInv

\* The stored record, the signals and the accepted cancellations stay.
Steady == UNCHANGED <<repo, cancelled, Accepted>>

LEMMA SteadySound ==
    ASSUME IInv, Steady, UNCHANGED <<hubClosed, question>>
    PROVE  \A r \in Runs : Sound(r)'
BY DEF IInv, Steady, Sound, Ended

\* A step that changes no shared state but perhaps releases or takes the lock.
LEMMA SteadyStep ==
    ASSUME TInv, TInv', IInv, NEW p \in Procs, Alone(p), Keeps(p), Steady, Local(p)',
           stateLock' = stateLock \/ stateLock \in {p, None}, \A r \in Runs : Sound(r)'
    PROVE  IInv'
<1>1. \A q \in Procs \ {p} : Calm(q)
  BY ProcessesDistinct DEF Calm, Steady, Procs
<1> QED
  BY <1>1, OneStep

\* A coroutine that ends leaves everything in order.
LEMMA RestingStep ==
    ASSUME TInv, TInv', IInv, NEW p \in Procs, Alone(p), pc'[p] \in Resting, Steady,
           stateLock' = stateLock \/ stateLock \in {p, None}, \A r \in Runs : Sound(r)'
    PROVE  IInv'
<1>1. Local(p)'
  BY DEF Local
<1>2. Keeps(p)
  BY Phases DEF Keeps, Steady, Ended
<1> QED
  BY <1>1, <1>2, SteadyStep

\* A holder goes on with what it knows or what it has just read.
LEMMA HolderStep ==
    ASSUME TInv, TInv', IInv, NEW p \in Procs, Alone(p), Steady,
           stateLock' = stateLock \/ stateLock = p, \A r \in Runs : Sound(r)',
           pc[p] \in Holding, pc'[p] \in Holding \ {"apply_save"},
           job'[p].run = Run(p), job'[p].snap \in {Snap(p), repo[Run(p)]},
           pc'[p] \in Busy => pc[p] \in Busy \/ ~Ended(Run(p))
    PROVE  IInv'
<1>1. pc[p] \notin Resting /\ pc'[p] \notin Resting
  BY Phases
<1>2. Fresh(p) /\ Holds(p) /\ Signalled(p)
  BY <1>1 DEF IInv, Local
<1>3. Run(p)' = Run(p) /\ Stored(p)' = repo[Run(p)] /\ Stored(p) = repo[Run(p)]
  BY DEF Run, Stored, Steady
<1>4. Run(p) \in Runs /\ repo[Run(p)].version \in Nat
  BY <1>1, Serves, KnownRecord DEF Record
<1>5. Fresh(p)'
  BY <1>2, <1>3, <1>4 DEF Fresh, Snap
<1>6. Locks(p)' /\ Knows(p)' /\ Applies(p)'
  BY Phases DEF Locks, Knows, Applies, Announcing, Cancelling
<1>7. Holds(p)'
  BY <1>2, <1>3 DEF Holds
<1>8. Signalled(p)'
  BY <1>2, <1>3, Phases DEF Signalled, Steady
<1>9. Local(p)'
  BY <1>5, <1>6, <1>7, <1>8 DEF Local
<1>10. Keeps(p)
  <2>1. \A r \in Runs : Ended(r) = Ended(r)'
    BY DEF Steady, Ended
  <2>2. ASSUME ~Ended(Run(p)), NEW q \in Procs \ {p}, pc[q] \in Busy PROVE Run(q) # Run(p)
    <3>1. pc[q] \in Holding /\ pc[q] \notin Resting
      BY <2>2, Phases
    <3>2. Apart(p, q)
      BY DEF IInv
    <3> QED
      BY <1>1, <2>2, <3>1, <3>2 DEF Apart
  <2> QED
    BY <2>1, <2>2 DEF Keeps
<1> QED
  BY <1>9, <1>10, SteadyStep

-----------------------------------------------------------------------------
(* Saving the next version of a Run. *)

\* A successful compare-and-swap knew the stored record.
LEMMA CurrentKnown ==
    ASSUME IInv, NEW p \in Procs, pc[p] \notin Resting, IsCurrent(p)
    PROVE  Snap(p) = repo[Run(p)]
BY DEF IInv, Local, Fresh, IsCurrent, Stored

\* The step saves the next version of the Run of p.
Advances(p) ==
    /\ repo'[Run(p)].version = repo[Run(p)].version + 1
    /\ repo'[Run(p)].status \in {repo[Run(p)].status} \cup Successors(repo[Run(p)].status)
    /\ repo'[Run(p)].status # "absent"
    /\ \A r \in Runs \ {Run(p)} : repo'[r] = repo[r]
    /\ UNCHANGED <<cancelled, hubClosed, question, Accepted>>

LEMMA AdvancesStable ==
    ASSUME TInv, NEW p \in Procs, Run(p) \in Runs, Advances(p)
    PROVE  \A r \in Runs : Ended(r) => Ended(r)'
<1> SUFFICES ASSUME NEW r \in Runs, Ended(r) PROVE repo'[r].status \in Terminal
  BY DEF Ended
<1>1. repo[r].status \in Status
  BY DEF TInv, TypeOK, Record
<1> QED
  BY <1>1, StatusFacts DEF Advances, Ended

LEMMA AdvancesSound ==
    ASSUME TInv, IInv, NEW p \in Procs, Run(p) \in Runs, Advances(p)
    PROVE  \A r \in Runs : Sound(r)'
<1> SUFFICES ASSUME NEW r \in Runs PROVE Sound(r)'
  OBVIOUS
<1>1. Sound(r) /\ (Ended(r) => Ended(r)')
  BY AdvancesStable DEF IInv
<1>2. repo'[r] = repo[r] \/ (repo'[r].status # "absent" /\ repo'[r].version # 0)
  <2>1. repo[r].version \in Nat
    BY DEF TInv, TypeOK, Record
  <2>2. r = Run(p) => repo'[r].version = repo[r].version + 1 /\ repo'[r].status # "absent"
    BY DEF Advances
  <2>3. r # Run(p) => repo'[r] = repo[r]
    BY DEF Advances
  <2> QED
    BY <2>1, <2>2, <2>3
<1>3. repo[r].status # "absent" => repo'[r].status # "absent"
  BY <1>2
<1> QED
  BY <1>1, <1>2, <1>3 DEF Sound, Advances

\* Whoever saves holds the Run, or the lock to cancel it, or no holder is left.
LEMMA SaveStep ==
    ASSUME TInv, TInv', IInv, NEW p \in Procs, pc[p] \notin Resting, Alone(p), Advances(p),
           \/ pc[p] \in Holding
           \/ repo[Run(p)].status \in Terminal \cup Waiting \cup {"absent"}
           \/ stateLock = p /\ repo'[Run(p)].status \notin Waiting,
           stateLock' = stateLock \/ stateLock = p, Keeps(p), Local(p)'
    PROVE  IInv'
<1>1. Run(p) \in Runs /\ repo[Run(p)] \in Record
  BY Serves, KnownRecord
<1>2. repo[Run(p)].version \in Nat /\ repo[Run(p)].status \in Status
  BY <1>1 DEF Record
<1>3. ASSUME NEW q \in Procs \ {p}, pc[q] \notin Resting PROVE Calm(q)
  <2>1. Local(q) /\ Apart(p, q)
    BY DEF IInv
  <2>2. Locks(q) /\ Holds(q) /\ Applies(q)
    BY <1>3, <2>1 DEF Local
  <2>3. stateLock = q => stateLock' = q
    OBVIOUS
  <2>4. CASE Run(q) # Run(p)
    <3>1. Run(q) \in Runs
      BY <1>3, Serves
    <3> QED
      BY <2>3, <2>4, <3>1 DEF Calm, Advances
  <2>5. CASE Run(q) = Run(p)
    <3>1. repo'[Run(q)].version > repo[Run(q)].version
      BY <1>2, <2>5 DEF Advances
    <3>2. pc[q] \in Holding => Ended(Run(p)) \/ (stateLock = p /\ repo'[Run(p)].status \notin Waiting)
      <4>1. pc[p] \in Holding /\ pc[q] \in Holding => Ended(Run(p))
        BY <1>3, <2>1, <2>5 DEF Apart
      <4>2. pc[q] \in Holding => repo[Run(p)].status \notin Waiting \cup {"absent"}
        BY <2>2, <2>5 DEF Holds, Stored
      <4> QED
        BY <4>1, <4>2 DEF Ended
    <3>3. pc[q] # "apply_save"
      BY <2>2, <2>5, <3>2, Phases DEF Applies, Locks
    <3>4. Run(q)' = Run(q)
      BY DEF Alone, Run
    <3>5. Ended(Run(q)) => Ended(Run(q))'
      BY <1>1, <2>5, <3>4, AdvancesStable DEF Ended
    <3>6. pc[q] \in Holding => repo'[Run(q)].status \notin Waiting
      BY <1>1, <2>5, <3>2, AdvancesStable, StatusFacts DEF Ended
    <3> QED
      BY <2>3, <3>1, <3>3, <3>5, <3>6, <2>5 DEF Calm, Advances
  <2> QED
    BY <2>4, <2>5
<1> QED
  BY <1>1, <1>3, AdvancesSound, OneStep

\* A holder that saves and goes on.
LEMMA HolderSaves ==
    ASSUME TInv, TInv', IInv, NEW p \in Procs, Alone(p), Advances(p),
           stateLock' = stateLock, pc[p] \in Holding, pc'[p] \in Holding \ {"apply_save"},
           job'[p].run = Run(p), job'[p].snap = repo'[Run(p)],
           repo'[Run(p)].status \notin Waiting,
           pc'[p] \in Busy => pc[p] \in Busy \/ ~Ended(Run(p))
    PROVE  IInv'
<1>1. pc[p] \notin Resting /\ pc'[p] \notin Resting
  BY Phases
<1>2. Signalled(p)
  BY <1>1 DEF IInv, Local
<1>3. Run(p)' = Run(p) /\ Stored(p)' = repo'[Run(p)] /\ Snap(p)' = repo'[Run(p)]
  BY DEF Run, Stored, Snap
<1>4. Run(p) \in Runs /\ repo'[Run(p)].version \in Nat
  BY <1>1, Serves DEF Record, TInv, TypeOK
<1>5. Fresh(p)'
  BY <1>3, <1>4 DEF Fresh
<1>6. Locks(p)' /\ Knows(p)' /\ Applies(p)'
  BY Phases DEF Locks, Knows, Applies, Announcing, Cancelling
<1>7. Holds(p)'
  BY <1>3 DEF Holds, Advances
<1>8. Signalled(p)'
  BY <1>2, <1>3, Phases DEF Signalled, Advances
<1>9. Local(p)'
  BY <1>5, <1>6, <1>7, <1>8 DEF Local
<1>10. Keeps(p)
  <2>1. \A r \in Runs : Ended(r) => Ended(r)'
    BY <1>4, AdvancesStable
  <2>2. ASSUME ~Ended(Run(p)), NEW q \in Procs \ {p}, pc[q] \in Busy PROVE Run(q) # Run(p)
    <3>1. pc[q] \in Holding /\ pc[q] \notin Resting
      BY <2>2, Phases
    <3>2. Apart(p, q)
      BY DEF IInv
    <3> QED
      BY <1>1, <2>2, <3>1, <3>2 DEF Apart
  <2> QED
    BY <2>1, <2>2 DEF Keeps
<1> QED
  BY <1>1, <1>9, <1>10, SaveStep

\* Only an accepted cancellation request changes Accepted.
LEMMA EmitAccepted ==
    ASSUME TInv, NEW p \in Procs, Run(p) \in Runs, NEW e \in Event, Emit(p, e)
    PROVE  Accepted' = IF e = "run_cancel_requested" THEN Accepted \cup {Run(p)} ELSE Accepted
<1>1. /\ log[Run(p)] \in Seq(Event) /\ log'[Run(p)] = Append(log[Run(p)], e)
      /\ \A r \in Runs \ {Run(p)} : log'[r] = log[r]
  BY DEF TInv, TypeOK, Emit
<1>2. ASSUME NEW r \in Runs, r # Run(p) PROVE r \in Accepted' <=> r \in Accepted
  BY <1>1, <1>2 DEF Accepted, Positions
<1>3. Run(p) \in Accepted' <=> e = "run_cancel_requested" \/ Run(p) \in Accepted
  <2> DEFINE s == log[Run(p)]
  <2>1. /\ DOMAIN s = 1 .. Len(s) /\ Len(s) \in Nat
        /\ DOMAIN Append(s, e) = 1 .. Len(s) + 1
        /\ \A i \in 1 .. Len(s) : Append(s, e)[i] = s[i]
        /\ Append(s, e)[Len(s) + 1] = e
    BY <1>1
  <2>2. Run(p) \in Accepted <=> \E i \in DOMAIN s : s[i] = "run_cancel_requested"
    BY DEF Accepted, Positions
  <2>3. Run(p) \in Accepted' <=> \E i \in DOMAIN Append(s, e) : Append(s, e)[i] = "run_cancel_requested"
    BY <1>1 DEF Accepted, Positions
  <2> HIDE DEF s
  <2> QED
    BY <2>1, <2>2, <2>3
<1>4. Accepted \subseteq Runs /\ Accepted' \subseteq Runs
  BY DEF Accepted
<1> QED
  BY <1>2, <1>3, <1>4

LEMMA SameLog == UNCHANGED log => Accepted' = Accepted
BY DEF Accepted, Positions

-----------------------------------------------------------------------------
(* Each action: IInv and the action give IInv'. *)

\* A holder that changes nothing shared ends, or goes on holding.
LEMMA QuietHolder ==
    ASSUME TInv, TInv', IInv, NEW p \in Procs, Moved(p), Accepted' = Accepted,
           UNCHANGED <<repo, cancelled, stateLock, hubClosed, question>>, pc[p] \in Holding,
           \/ pc'[p] \in Resting
           \/ /\ pc'[p] \in Holding \ {"apply_save"}
              /\ job'[p].run = Run(p) /\ job'[p].snap \in {Snap(p), repo[Run(p)]}
              /\ pc'[p] \in Busy => pc[p] \in Busy \/ ~Ended(Run(p))
    PROVE  IInv'
<1>1. Steady /\ Alone(p) /\ \A r \in Runs : Sound(r)'
  BY SteadySound DEF Steady, Moved
<1> QED
  BY <1>1, RestingStep, HolderStep

\* Anyone else may end as well.
LEMMA QuietEnd ==
    ASSUME TInv, TInv', IInv, NEW p \in Procs, Moved(p), Accepted' = Accepted,
           UNCHANGED <<repo, cancelled, hubClosed, question>>, pc'[p] \in Resting,
           stateLock' = stateLock \/ stateLock = p
    PROVE  IInv'
<1>1. Steady /\ Alone(p) /\ \A r \in Runs : Sound(r)'
  BY SteadySound DEF Steady, Moved
<1> QED
  BY <1>1, RestingStep

\* The record and the job of a successful save in the terms of Advances.
LEMMA SavedAdvances ==
    ASSUME TInv, IInv, NEW p \in Procs, pc[p] \notin Resting, IsCurrent(p),
           NEW st \in Status \ {"absent"}, NEW b \in BOOLEAN,
           \/ st = Snap(p).status
           \/ st \in Successors(Snap(p).status),
           repo'[Run(p)] = Revised(p, st, b),
           \A r \in Runs \ {Run(p)} : repo'[r] = repo[r],
           UNCHANGED <<cancelled, hubClosed, question, Accepted>>
    PROVE  Advances(p) /\ repo'[Run(p)].status = st
BY CurrentKnown DEF Advances, Revised

LEMMA LookupRequestSafe ==
    ASSUME TInv, TInv', IInv, NEW c \in Callers, NEW r \in Runs, LookupRequest(c, r)
    PROVE  IInv'
<1> DEFINE j == [NoJob EXCEPT !.run = r]
<1>1. c \in Procs /\ "insert" \in Step /\ c \notin Runs
  BY ProcessesDistinct DEF Procs, Step
<1>2. j \in Job /\ j.run = r /\ j.snap = Absent
  BY NoJobType DEF Job, NoJob
<1>3. With(c, "insert", j) /\ UNCHANGED <<repo, log, mem, rest>>
  BY DEF LookupRequest
<1> HIDE DEF j
<1>4. Moved(c) /\ pc'[c] = "insert" /\ job'[c] = j
  BY <1>1, <1>2, <1>3, MoveTo
<1>5. Steady /\ UNCHANGED <<stateLock, hubClosed, question>>
  BY <1>3, SameLog DEF Steady, mem
<1>6. /\ Run(c)' = r /\ Snap(c)' = Absent /\ Stored(c)' = repo[r]
  BY <1>2, <1>4, <1>5 DEF Run, Snap, Stored, Steady
<1>7. Fresh(c)'
  BY <1>6 DEF Fresh, IInv, Sound, Absent, TInv, TypeOK, Record
<1>8. Local(c)'
  BY <1>4, <1>7, Phases DEF Local, Locks, Holds, Applies, Knows, Signalled, Cancelling, Announcing
<1>9. Keeps(c)
  BY <1>4, <1>5, Phases DEF Keeps, Ended, Steady
<1> QED
  BY <1>1, <1>4, <1>5, <1>8, <1>9, SteadySound, SteadyStep DEF Moved

LEMMA InsertRunSafe ==
    ASSUME TInv, TInv', IInv, NEW c \in Callers, InsertRun(c)
    PROVE  IInv'
<1> DEFINE new == [Absent EXCEPT !.status = "created", !.version = 1]
           j   == [job[c] EXCEPT !.snap = new]
<1>1. /\ c \in Procs /\ {"created", "insert"} \subseteq Step /\ pc[c] \notin Resting
      /\ pc[c] = "insert" /\ UNCHANGED <<log, mem, rest>>
  BY DEF Procs, Step, Resting, InsertRun
<1>2. Run(c) \in Runs /\ (c \in Runs => Run(c) = c)
  BY <1>1, Serves
<1>3. /\ new \in Record /\ j \in Job /\ j.run = Run(c) /\ j.snap = new
      /\ new.status = "created" /\ new.version = 1
  BY <1>1, KnownRecord, NoJobType DEF Absent, Record, Status, Job, Run
<1>4. CASE repo[Run(c)].status # "absent"
  <2>1. UNCHANGED repo /\ Finish(c)
    BY <1>4 DEF InsertRun
  <2> QED
    BY <1>1, <2>1, Finishes, QuietEnd, SameLog DEF mem
<1>5. CASE repo[Run(c)].status = "absent"
  <2>1. Save(c, new) /\ With(c, "created", j)
    BY <1>5 DEF InsertRun
  <2> HIDE DEF new, j
  <2>2. /\ Moved(c) /\ pc'[c] = "created" /\ job'[c] = j /\ repo'[Run(c)] = new
        /\ \A r \in Runs \ {Run(c)} : repo'[r] = repo[r]
    BY <1>1, <1>2, <1>3, <2>1, MoveTo, SaveType
  <2>3. repo[Run(c)] = Absent /\ Run(c) \notin Accepted
    BY <1>2, <1>5 DEF IInv, Sound
  <2>4. Advances(c)
    BY <1>1, <1>3, <2>2, <2>3, SameLog, StatusFacts DEF Advances, Absent, mem
  <2>5. /\ Run(c)' = Run(c) /\ Snap(c)' = new /\ Stored(c)' = new
        /\ Run(c) \notin Accepted'
    BY <1>1, <1>3, <2>2, <2>3, SameLog DEF Run, Snap, Stored
  <2>6. Fresh(c)' /\ Holds(c)' /\ Signalled(c)'
    BY <1>3, <2>2, <2>5, StatusFacts, Phases
       DEF Fresh, Holds, Signalled, Cancelling
  <2>7. Local(c)'
    BY <2>2, <2>6 DEF Local, Locks, Applies, Knows, Cancelling, Announcing
  <2>8. ASSUME NEW q \in Procs \ {c}, pc[q] \in Holding PROVE Run(q) # Run(c)
    BY <1>5, <2>8, Phases DEF IInv, Local, Holds, Stored
  <2>9. Keeps(c)
    BY <1>1, <1>2, <1>3, <2>2, <2>4, <2>8, AdvancesStable DEF Keeps, Busy
  <2> QED
    BY <1>1, <1>5, <2>2, <2>4, <2>7, <2>9, SaveStep DEF Moved, mem
<1> QED
  BY <1>4, <1>5

LEMMA RecordCreatedSafe ==
    ASSUME TInv, TInv', IInv, NEW c \in Callers, RecordCreated(c)
    PROVE  IInv'
<1>1. c \in Procs /\ pc[c] \in Holding /\ pc[c] \notin Resting /\ {"queue"} \subseteq Step /\ {"run_created"} \subseteq Event
  BY DEF RecordCreated, Resting, Holding, Procs, Step, Event, Outcomes, Terminal
<1>2. /\ Emit(c, "run_created") /\ Goto(c, "queue") /\ UNCHANGED <<repo, job, mem>>
  BY DEF RecordCreated
<1>3. Run(c) \in Runs
  BY <1>1, Serves
<1>4. Moved(c) /\ pc'[c] = "queue" /\ job'[c] = job[c]
  BY <1>1, <1>2, GoesTo
<1>5. Accepted' = Accepted
  BY <1>1, <1>2, <1>3, EmitAccepted
<1>6. "queue" \in Holding \ {"apply_save"} /\ "queue" \notin Busy
  BY DEF Holding, Busy
<1> QED
  BY <1>1, <1>2, <1>4, <1>5, <1>6, QuietHolder DEF mem, Run, Snap

LEMMA RecordQueuedSafe ==
    ASSUME TInv, TInv', IInv, NEW c \in Callers, RecordQueued(c)
    PROVE  IInv'
<1>1. c \in Procs /\ pc[c] \in Holding /\ pc[c] \notin Resting /\ {"spawn"} \subseteq Step /\ {"run_queued"} \subseteq Event
  BY DEF RecordQueued, Resting, Holding, Procs, Step, Event, Outcomes, Terminal
<1>2. /\ Emit(c, "run_queued") /\ Goto(c, "spawn") /\ UNCHANGED <<repo, job, mem>>
  BY DEF RecordQueued
<1>3. Run(c) \in Runs
  BY <1>1, Serves
<1>4. Moved(c) /\ pc'[c] = "spawn" /\ job'[c] = job[c]
  BY <1>1, <1>2, GoesTo
<1>5. Accepted' = Accepted
  BY <1>1, <1>2, <1>3, EmitAccepted
<1>6. "spawn" \in Holding \ {"apply_save"} /\ "spawn" \notin Busy
  BY DEF Holding, Busy
<1> QED
  BY <1>1, <1>2, <1>4, <1>5, <1>6, QuietHolder DEF mem, Run, Snap

LEMMA QueueRunSafe ==
    ASSUME TInv, TInv', IInv, NEW c \in Callers, QueueRun(c)
    PROVE  IInv'
<1>1. c \in Procs /\ pc[c] \in Holding /\ pc[c] \notin Resting /\ {"queued"} \subseteq Step
  BY DEF QueueRun, Resting, Holding, Procs, Step
<1>2. Snap(c).counted \in BOOLEAN /\ Run(c) \in Runs /\ UNCHANGED <<log, cancelled, stateLock, hubClosed, question>>
  BY <1>1, KnownRecord, Serves DEF Record, QueueRun, mem
<1>3. CASE Saves(c, "queued")
  <2>1. /\ Save(c, Revised(c, "queued", Snap(c).counted))
        /\ With(c, "queued", [job[c] EXCEPT !.snap = Revised(c, "queued", Snap(c).counted)])
    BY <1>3 DEF QueueRun
  <2>2. IsCurrent(c) /\ Snap(c) = repo[Run(c)]
    BY <1>1, <1>3, CurrentKnown DEF Saves
  <2>3. "queued" \in Status \ ({"absent"} \cup Waiting)
    BY DEF Status, Waiting
  <2>4. /\ Moved(c) /\ pc'[c] = "queued" /\ repo'[Run(c)] = Revised(c, "queued", Snap(c).counted)
        /\ \A s \in Runs \ {Run(c)} : repo'[s] = repo[s]
        /\ job'[c].run = Run(c) /\ job'[c].snap = Revised(c, "queued", Snap(c).counted)
    BY <1>1, <1>2, <2>1, <2>3, Saved
  <2>5. Advances(c) /\ repo'[Run(c)].status = "queued"
    BY <1>1, <1>2, <1>3, <2>2, <2>3, <2>4, SavedAdvances, SameLog DEF Saves
  <2>6. "queued" \in Holding \ {"apply_save"}
    BY DEF Holding
  <2>7. "queued" \notin Busy
    BY DEF Busy
  <2> QED
    BY <1>1, <1>2, <2>3, <2>4, <2>5, <2>6, <2>7, HolderSaves DEF Moved
<1>4. CASE ~Saves(c, "queued")
  <2>1. UNCHANGED repo /\ Finish(c)
    BY <1>4 DEF QueueRun
  <2> QED
    BY <1>1, <1>2, <2>1, Finishes, SameLog, QuietEnd
<1> QED
  BY <1>3, <1>4

LEMMA PrepareSaveSafe ==
    ASSUME TInv, TInv', IInv, NEW r \in Runs, PrepareSave(r)
    PROVE  IInv'
<1>1. r \in Procs /\ pc[r] \in Holding /\ pc[r] \notin Resting /\ {"prep_check", "settle_load"} \subseteq Step
  BY DEF PrepareSave, Resting, Holding, Procs, Step
<1>2. TRUE \in BOOLEAN /\ Run(r) \in Runs /\ UNCHANGED <<log, cancelled, stateLock, hubClosed, question>>
  BY <1>1, KnownRecord, Serves DEF Record, PrepareSave, mem
<1>3. CASE IsCurrent(r)
  <2>1. /\ Save(r, Revised(r, Snap(r).status, TRUE))
        /\ With(r, "prep_check", [job[r] EXCEPT !.snap = Revised(r, Snap(r).status, TRUE)])
    BY <1>3 DEF PrepareSave
  <2>2. IsCurrent(r) /\ Snap(r) = repo[Run(r)]
    BY <1>1, <1>3, CurrentKnown DEF Saves
  <2>3. Snap(r).status \in Status \ ({"absent"} \cup Waiting)
    BY <1>1, <1>2, <2>2, KnownRecord DEF Record, IInv, Local, Holds, Stored
  <2>4. /\ Moved(r) /\ pc'[r] = "prep_check" /\ repo'[Run(r)] = Revised(r, Snap(r).status, TRUE)
        /\ \A s \in Runs \ {Run(r)} : repo'[s] = repo[s]
        /\ job'[r].run = Run(r) /\ job'[r].snap = Revised(r, Snap(r).status, TRUE)
    BY <1>1, <1>2, <2>1, <2>3, Saved
  <2>5. Advances(r) /\ repo'[Run(r)].status = Snap(r).status
    BY <1>1, <1>2, <1>3, <2>2, <2>3, <2>4, SavedAdvances, SameLog DEF Saves
  <2>6. "prep_check" \in Holding \ {"apply_save"}
    BY DEF Holding
  <2>7. "prep_check" \notin Busy
    BY DEF Busy
  <2> QED
    BY <1>1, <1>2, <2>3, <2>4, <2>5, <2>6, <2>7, HolderSaves DEF Moved
<1>4. CASE ~IsCurrent(r)
  <2>1. UNCHANGED repo /\ Settle(r, "failed", FALSE)
    BY <1>4 DEF PrepareSave
  <2>2. {"settle_load"} \cap Busy = {} /\ {"settle_load"} \subseteq Holding \ {"apply_save"}
    BY DEF Busy, Holding
  <2>3. "failed" \in Outcomes
    BY DEF Outcomes, Terminal
  <2>4. Moved(r) /\ (pc'[r] \in Resting \/ (pc'[r] \in {"settle_load"} /\ job'[r].run = Run(r) /\ job'[r].snap = Snap(r)))
    BY <1>1, <2>1, <2>3, Settles DEF Run, Snap
  <2> QED
    BY <1>1, <1>2, <2>1, <2>2, <2>4, SameLog, QuietHolder
<1> QED
  BY <1>3, <1>4

LEMMA StartRunSafe ==
    ASSUME TInv, TInv', IInv, NEW r \in Runs, StartRun(r)
    PROVE  IInv'
<1>1. r \in Procs /\ pc[r] \in Holding /\ pc[r] \notin Resting /\ {"started", "fail_load"} \subseteq Step
  BY DEF StartRun, Resting, Holding, Procs, Step
<1>2. Snap(r).counted \in BOOLEAN /\ Run(r) \in Runs /\ UNCHANGED <<log, cancelled, stateLock, hubClosed, question>>
  BY <1>1, KnownRecord, Serves DEF Record, StartRun, mem
<1>3. CASE Saves(r, "running")
  <2>1. /\ Save(r, Revised(r, "running", Snap(r).counted))
        /\ With(r, "started", [job[r] EXCEPT !.snap = Revised(r, "running", Snap(r).counted)])
    BY <1>3 DEF StartRun
  <2>2. IsCurrent(r) /\ Snap(r) = repo[Run(r)]
    BY <1>1, <1>3, CurrentKnown DEF Saves
  <2>3. "running" \in Status \ ({"absent"} \cup Waiting)
    BY DEF Status, Waiting
  <2>4. /\ Moved(r) /\ pc'[r] = "started" /\ repo'[Run(r)] = Revised(r, "running", Snap(r).counted)
        /\ \A s \in Runs \ {Run(r)} : repo'[s] = repo[s]
        /\ job'[r].run = Run(r) /\ job'[r].snap = Revised(r, "running", Snap(r).counted)
    BY <1>1, <1>2, <2>1, <2>3, Saved
  <2>5. Advances(r) /\ repo'[Run(r)].status = "running"
    BY <1>1, <1>2, <1>3, <2>2, <2>3, <2>4, SavedAdvances, SameLog DEF Saves
  <2>6. "started" \in Holding \ {"apply_save"}
    BY DEF Holding
  <2>7. ~Ended(Run(r))
    BY <1>2, <1>3, <2>2, StatusFacts DEF Saves, Ended, TInv, TypeOK, Record
  <2> QED
    BY <1>1, <1>2, <2>3, <2>4, <2>5, <2>6, <2>7, HolderSaves DEF Moved
<1>4. CASE ~Saves(r, "running")
  <2>1. UNCHANGED <<repo, job>> /\ Goto(r, "fail_load")
    BY <1>4 DEF StartRun
  <2>2. {"fail_load"} \cap Busy = {} /\ {"fail_load"} \subseteq Holding \ {"apply_save"}
    BY DEF Busy, Holding
  <2>3. "failed" \in Outcomes
    BY DEF Outcomes, Terminal
  <2>4. Moved(r) /\ (pc'[r] \in Resting \/ (pc'[r] \in {"fail_load"} /\ job'[r].run = Run(r) /\ job'[r].snap = Snap(r)))
    BY <1>1, <2>1, <2>3, GoesTo DEF Run, Snap
  <2> QED
    BY <1>1, <1>2, <2>1, <2>2, <2>4, SameLog, QuietHolder
<1> QED
  BY <1>3, <1>4

LEMMA FailStartSafe ==
    ASSUME TInv, TInv', IInv, NEW r \in Runs, FailStart(r)
    PROVE  IInv'
<1>1. r \in Procs /\ pc[r] \in Holding /\ pc[r] \notin Resting /\ {"apply_lock", "settle_load"} \subseteq Step
  BY DEF FailStart, Resting, Holding, Procs, Step
<1>2. Snap(r).counted \in BOOLEAN /\ Run(r) \in Runs /\ UNCHANGED <<log, cancelled, stateLock, hubClosed, question>>
  BY <1>1, KnownRecord, Serves DEF Record, FailStart, mem
<1>3. CASE Saves(r, "running")
  <2>1. /\ Save(r, Revised(r, "running", Snap(r).counted))
        /\ With(r, "apply_lock", [job[r] EXCEPT !.snap = Revised(r, "running", Snap(r).counted)])
    BY <1>3 DEF FailStart
  <2>2. IsCurrent(r) /\ Snap(r) = repo[Run(r)]
    BY <1>1, <1>3, CurrentKnown DEF Saves
  <2>3. "running" \in Status \ ({"absent"} \cup Waiting)
    BY DEF Status, Waiting
  <2>4. /\ Moved(r) /\ pc'[r] = "apply_lock" /\ repo'[Run(r)] = Revised(r, "running", Snap(r).counted)
        /\ \A s \in Runs \ {Run(r)} : repo'[s] = repo[s]
        /\ job'[r].run = Run(r) /\ job'[r].snap = Revised(r, "running", Snap(r).counted)
    BY <1>1, <1>2, <2>1, <2>3, Saved
  <2>5. Advances(r) /\ repo'[Run(r)].status = "running"
    BY <1>1, <1>2, <1>3, <2>2, <2>3, <2>4, SavedAdvances, SameLog DEF Saves
  <2>6. "apply_lock" \in Holding \ {"apply_save"}
    BY DEF Holding
  <2>7. "apply_lock" \notin Busy
    BY DEF Busy
  <2> QED
    BY <1>1, <1>2, <2>3, <2>4, <2>5, <2>6, <2>7, HolderSaves DEF Moved
<1>4. CASE ~Saves(r, "running")
  <2>1. UNCHANGED repo /\ Settle(r, "failed", FALSE)
    BY <1>4 DEF FailStart
  <2>2. {"settle_load"} \cap Busy = {} /\ {"settle_load"} \subseteq Holding \ {"apply_save"}
    BY DEF Busy, Holding
  <2>3. "failed" \in Outcomes
    BY DEF Outcomes, Terminal
  <2>4. Moved(r) /\ (pc'[r] \in Resting \/ (pc'[r] \in {"settle_load"} /\ job'[r].run = Run(r) /\ job'[r].snap = Snap(r)))
    BY <1>1, <2>1, <2>3, Settles DEF Run, Snap
  <2> QED
    BY <1>1, <1>2, <2>1, <2>2, <2>4, SameLog, QuietHolder
<1> QED
  BY <1>3, <1>4

LEMMA SettleStartSafe ==
    ASSUME TInv, TInv', IInv, NEW r \in Runs, SettleStart(r)
    PROVE  IInv'
<1>1. r \in Procs /\ pc[r] \in Holding /\ pc[r] \notin Resting /\ {"settle_started", "settle_load"} \subseteq Step
  BY DEF SettleStart, Resting, Holding, Procs, Step
<1>2. Snap(r).counted \in BOOLEAN /\ Run(r) \in Runs /\ UNCHANGED <<log, cancelled, stateLock, hubClosed, question>>
  BY <1>1, KnownRecord, Serves DEF Record, SettleStart, mem
<1>3. CASE Saves(r, "running")
  <2>1. /\ Save(r, Revised(r, "running", Snap(r).counted))
        /\ With(r, "settle_started", [job[r] EXCEPT !.snap = Revised(r, "running", Snap(r).counted)])
    BY <1>3 DEF SettleStart
  <2>2. IsCurrent(r) /\ Snap(r) = repo[Run(r)]
    BY <1>1, <1>3, CurrentKnown DEF Saves
  <2>3. "running" \in Status \ ({"absent"} \cup Waiting)
    BY DEF Status, Waiting
  <2>4. /\ Moved(r) /\ pc'[r] = "settle_started" /\ repo'[Run(r)] = Revised(r, "running", Snap(r).counted)
        /\ \A s \in Runs \ {Run(r)} : repo'[s] = repo[s]
        /\ job'[r].run = Run(r) /\ job'[r].snap = Revised(r, "running", Snap(r).counted)
    BY <1>1, <1>2, <2>1, <2>3, Saved
  <2>5. Advances(r) /\ repo'[Run(r)].status = "running"
    BY <1>1, <1>2, <1>3, <2>2, <2>3, <2>4, SavedAdvances, SameLog DEF Saves
  <2>6. "settle_started" \in Holding \ {"apply_save"}
    BY DEF Holding
  <2>7. ~Ended(Run(r))
    BY <1>2, <1>3, <2>2, StatusFacts DEF Saves, Ended, TInv, TypeOK, Record
  <2> QED
    BY <1>1, <1>2, <2>3, <2>4, <2>5, <2>6, <2>7, HolderSaves DEF Moved
<1>4. CASE ~Saves(r, "running")
  <2>1. UNCHANGED repo /\ SettleRaises(r)
    BY <1>4 DEF SettleStart
  <2>2. {"settle_load"} \cap Busy = {} /\ {"settle_load"} \subseteq Holding \ {"apply_save"}
    BY DEF Busy, Holding
  <2>3. "failed" \in Outcomes
    BY DEF Outcomes, Terminal
  <2>4. Moved(r) /\ (pc'[r] \in Resting \/ (pc'[r] \in {"settle_load"} /\ job'[r].run = Run(r) /\ job'[r].snap = Snap(r)))
    BY <1>1, <2>1, <2>3, SettlesAgain DEF Run, Snap
  <2> QED
    BY <1>1, <1>2, <2>1, <2>2, <2>4, SameLog, QuietHolder
<1> QED
  BY <1>3, <1>4

LEMMA SelectStrategySafe ==
    ASSUME TInv, TInv', IInv, NEW r \in Runs, SelectStrategy(r)
    PROVE  IInv'
<1>1. r \in Procs /\ pc[r] \in Holding /\ pc[r] \notin Resting /\ {"start"} \subseteq Step /\ {"strategy_selected"} \subseteq Event
  BY DEF SelectStrategy, Resting, Holding, Procs, Step, Event, Outcomes, Terminal
<1>2. /\ Emit(r, "strategy_selected") /\ Goto(r, "start") /\ UNCHANGED <<repo, job, mem>>
  BY DEF SelectStrategy
<1>3. Run(r) \in Runs
  BY <1>1, Serves
<1>4. Moved(r) /\ pc'[r] = "start" /\ job'[r] = job[r]
  BY <1>1, <1>2, GoesTo
<1>5. Accepted' = Accepted
  BY <1>1, <1>2, <1>3, EmitAccepted
<1>6. "start" \in Holding \ {"apply_save"} /\ "start" \notin Busy
  BY DEF Holding, Busy
<1> QED
  BY <1>1, <1>2, <1>4, <1>5, <1>6, QuietHolder DEF mem, Run, Snap

LEMMA RecordResumedSafe ==
    ASSUME TInv, TInv', IInv, NEW c \in Callers, RecordResumed(c)
    PROVE  IInv'
<1>1. c \in Procs /\ pc[c] \in Holding /\ pc[c] \notin Resting /\ {"graph"} \subseteq Step /\ {"run_resumed"} \subseteq Event
  BY DEF RecordResumed, Resting, Holding, Procs, Step, Event, Outcomes, Terminal
<1>2. /\ Emit(c, "run_resumed") /\ Goto(c, "graph") /\ UNCHANGED <<repo, job, mem>>
  BY DEF RecordResumed
<1>3. Run(c) \in Runs
  BY <1>1, Serves
<1>4. Moved(c) /\ pc'[c] = "graph" /\ job'[c] = job[c]
  BY <1>1, <1>2, GoesTo
<1>5. Accepted' = Accepted
  BY <1>1, <1>2, <1>3, EmitAccepted
<1>6. "graph" \in Holding \ {"apply_save"} /\ pc[c] \in Busy
  BY DEF Holding, Busy, RecordResumed
<1> QED
  BY <1>1, <1>2, <1>4, <1>5, <1>6, QuietHolder DEF mem, Run, Snap

LEMMA PrepareGuardSafe ==
    ASSUME TInv, TInv', IInv, NEW r \in Runs, PrepareGuard(r)
    PROVE  IInv'
<1>1. r \in Procs /\ pc[r] \in Holding /\ pc[r] \notin Resting /\ {"prepare", "settle_load"} \subseteq Step
  BY DEF PrepareGuard, Resting, Holding, Procs, Step
<1>2. \/ Settle(r, "timed_out", FALSE)
      \/ Settle(r, "cancelled", FALSE)
      \/ (Goto(r, "prepare") /\ UNCHANGED job)
  BY DEF PrepareGuard
<1>3. Run(r) \in Runs /\ job[r].target \in Outcomes /\ UNCHANGED <<repo, cancelled, stateLock, hubClosed, question>>
  BY <1>1, Serves, KnownRecord DEF PrepareGuard, mem
<1>4. {"failed", "timed_out", "cancelled"} \subseteq Outcomes
  BY DEF Outcomes, Terminal
<1>5. Accepted' = Accepted
  BY SameLog DEF PrepareGuard
<1>6. {"prepare", "settle_load"} \cap Busy = {} /\ {"prepare", "settle_load"} \subseteq Holding \ {"apply_save"}
  BY DEF Busy, Holding
<1>7. /\ Moved(r)
      /\ \/ pc'[r] \in Resting
         \/ /\ pc'[r] \in {"prepare", "settle_load"} /\ job'[r].run = Run(r)
            /\ job'[r].snap \in {Snap(r), repo[Run(r)]}
  BY <1>1, <1>2, <1>3, <1>4, Settles, GoesTo DEF Run, Snap
<1> QED
  BY <1>1, <1>3, <1>5, <1>6, <1>7, QuietHolder

LEMMA PrepareReturnsSafe ==
    ASSUME TInv, TInv', IInv, NEW r \in Runs, PrepareReturns(r)
    PROVE  IInv'
<1>1. r \in Procs /\ pc[r] \in Holding /\ pc[r] \notin Resting /\ {"prep_load"} \subseteq Step
  BY DEF PrepareReturns, Resting, Holding, Procs, Step
<1>2. Goto(r, "prep_load") /\ UNCHANGED job
  BY DEF PrepareReturns
<1>3. Run(r) \in Runs /\ job[r].target \in Outcomes /\ UNCHANGED <<repo, cancelled, stateLock, hubClosed, question>>
  BY <1>1, Serves, KnownRecord DEF PrepareReturns, mem
<1>4. {"failed", "timed_out", "cancelled"} \subseteq Outcomes
  BY DEF Outcomes, Terminal
<1>5. Accepted' = Accepted
  BY SameLog DEF PrepareReturns
<1>6. {"prep_load"} \cap Busy = {} /\ {"prep_load"} \subseteq Holding \ {"apply_save"}
  BY DEF Busy, Holding
<1>7. /\ Moved(r)
      /\ \/ pc'[r] \in Resting
         \/ /\ pc'[r] \in {"prep_load"} /\ job'[r].run = Run(r)
            /\ job'[r].snap \in {Snap(r), repo[Run(r)]}
  BY <1>1, <1>2, <1>3, <1>4, GoesTo DEF Run, Snap
<1> QED
  BY <1>1, <1>3, <1>5, <1>6, <1>7, QuietHolder

LEMMA PrepareFailsSafe ==
    ASSUME TInv, TInv', IInv, NEW r \in Runs, PrepareFails(r)
    PROVE  IInv'
<1>1. r \in Procs /\ pc[r] \in Holding /\ pc[r] \notin Resting /\ {"settle_load"} \subseteq Step
  BY DEF PrepareFails, Resting, Holding, Procs, Step
<1>2. \E target \in {"failed", "timed_out", "cancelled"}, paid \in BOOLEAN : Settle(r, target, paid)
  BY DEF PrepareFails
<1>3. Run(r) \in Runs /\ job[r].target \in Outcomes /\ UNCHANGED <<repo, cancelled, stateLock, hubClosed, question>>
  BY <1>1, Serves, KnownRecord DEF PrepareFails, mem
<1>4. {"failed", "timed_out", "cancelled"} \subseteq Outcomes
  BY DEF Outcomes, Terminal
<1>5. Accepted' = Accepted
  BY SameLog DEF PrepareFails
<1>6. {"settle_load"} \cap Busy = {} /\ {"settle_load"} \subseteq Holding \ {"apply_save"}
  BY DEF Busy, Holding
<1>7. /\ Moved(r)
      /\ \/ pc'[r] \in Resting
         \/ /\ pc'[r] \in {"settle_load"} /\ job'[r].run = Run(r)
            /\ job'[r].snap \in {Snap(r), repo[Run(r)]}
  BY <1>1, <1>2, <1>3, <1>4, Settles DEF Run, Snap
<1> QED
  BY <1>1, <1>3, <1>5, <1>6, <1>7, QuietHolder

LEMMA PrepareLoadSafe ==
    ASSUME TInv, TInv', IInv, NEW r \in Runs, PrepareLoad(r)
    PROVE  IInv'
<1>1. r \in Procs /\ pc[r] \in Holding /\ pc[r] \notin Resting /\ {"prep_save", "settle_load"} \subseteq Step
  BY DEF PrepareLoad, Resting, Holding, Procs, Step
<1>2. \/ With(r, "prep_save", [job[r] EXCEPT !.snap = repo[Run(r)]])
      \/ Settle(r, "timed_out", TRUE)
  BY <1>1, Serves DEF PrepareLoad
<1>3. Run(r) \in Runs /\ job[r].target \in Outcomes /\ UNCHANGED <<repo, cancelled, stateLock, hubClosed, question>>
  BY <1>1, Serves, KnownRecord DEF PrepareLoad, mem
<1>4. {"failed", "timed_out", "cancelled"} \subseteq Outcomes
  BY DEF Outcomes, Terminal
<1>5. Accepted' = Accepted
  BY SameLog DEF PrepareLoad
<1>6. {"prep_save", "settle_load"} \cap Busy = {} /\ {"prep_save", "settle_load"} \subseteq Holding \ {"apply_save"}
  BY DEF Busy, Holding
<1>7. /\ Moved(r)
      /\ \/ pc'[r] \in Resting
         \/ /\ pc'[r] \in {"prep_save", "settle_load"} /\ job'[r].run = Run(r)
            /\ job'[r].snap \in {Snap(r), repo[Run(r)]}
  BY <1>1, <1>2, <1>3, <1>4, Loaded, Settles
<1> QED
  BY <1>1, <1>3, <1>5, <1>6, <1>7, QuietHolder

LEMMA PrepareCheckSafe ==
    ASSUME TInv, TInv', IInv, NEW r \in Runs, PrepareCheck(r)
    PROVE  IInv'
<1> DEFINE j == [job[r] EXCEPT !.mode = "execute"]
<1>1. r \in Procs /\ pc[r] \in Holding /\ pc[r] \notin Resting /\ "load" \in Step
  BY DEF PrepareCheck, Resting, Holding, Procs, Step
<1>2. /\ Finish(r) \/ With(r, "load", j)
      /\ UNCHANGED <<repo, cancelled, stateLock, hubClosed, question, log>>
  BY DEF PrepareCheck
<1>3. j \in Job /\ j.run = r /\ j.run = Run(r) /\ j.snap = Snap(r)
  BY <1>1, KnownRecord, Serves DEF Job, Run, Snap
<1> HIDE DEF j
<1>4. /\ Moved(r)
      /\ pc'[r] \in Resting \/ (pc'[r] = "load" /\ job'[r] = j)
  BY <1>1, <1>2, <1>3, MoveTo, Finishes
<1>5. "load" \in Holding \ {"apply_save"} /\ "load" \notin Busy
  BY DEF Holding, Busy
<1> QED
  BY <1>1, <1>2, <1>3, <1>4, <1>5, SameLog, QuietHolder

LEMMA LoadQueuedSafe ==
    ASSUME TInv, TInv', IInv, NEW r \in Runs, LoadQueued(r)
    PROVE  IInv'
<1>1. r \in Procs /\ pc[r] \in Holding /\ pc[r] \notin Resting /\ {"select"} \subseteq Step
  BY DEF LoadQueued, Resting, Holding, Procs, Step
<1>2. \/ Finish(r)
      \/ With(r, "select", [job[r] EXCEPT !.snap = repo[r]])
  BY DEF LoadQueued
<1>3. Run(r) \in Runs /\ job[r].target \in Outcomes /\ UNCHANGED <<repo, cancelled, stateLock, hubClosed, question>>
  BY <1>1, Serves, KnownRecord DEF LoadQueued, mem
<1>4. Run(r) = r
  BY <1>1, Serves
<1>5. Accepted' = Accepted
  BY SameLog DEF LoadQueued
<1>6. {"select"} \cap Busy = {} /\ {"select"} \subseteq Holding \ {"apply_save"}
  BY DEF Busy, Holding
<1>7. /\ Moved(r)
      /\ \/ pc'[r] \in Resting
         \/ /\ pc'[r] \in {"select"} /\ job'[r].run = Run(r)
            /\ job'[r].snap \in {Snap(r), repo[Run(r)]}
  BY <1>1, <1>2, <1>3, <1>4, Finishes, Loaded DEF Run, Snap
<1> QED
  BY <1>1, <1>3, <1>5, <1>6, <1>7, QuietHolder

LEMMA RejectStrategySafe ==
    ASSUME TInv, TInv', IInv, NEW r \in Runs, RejectStrategy(r)
    PROVE  IInv'
<1>1. r \in Procs /\ pc[r] \in Holding /\ pc[r] \notin Resting /\ {"settle_load"} \subseteq Step
  BY DEF RejectStrategy, Resting, Holding, Procs, Step
<1>2. Settle(r, "failed", FALSE)
  BY DEF RejectStrategy
<1>3. Run(r) \in Runs /\ job[r].target \in Outcomes /\ UNCHANGED <<repo, cancelled, stateLock, hubClosed, question>>
  BY <1>1, Serves, KnownRecord DEF RejectStrategy, mem
<1>4. {"failed", "timed_out", "cancelled"} \subseteq Outcomes
  BY DEF Outcomes, Terminal
<1>5. Accepted' = Accepted
  BY SameLog DEF RejectStrategy
<1>6. {"settle_load"} \cap Busy = {} /\ {"settle_load"} \subseteq Holding \ {"apply_save"}
  BY DEF Busy, Holding
<1>7. /\ Moved(r)
      /\ \/ pc'[r] \in Resting
         \/ /\ pc'[r] \in {"settle_load"} /\ job'[r].run = Run(r)
            /\ job'[r].snap \in {Snap(r), repo[Run(r)]}
  BY <1>1, <1>2, <1>3, <1>4, Settles DEF Run, Snap
<1> QED
  BY <1>1, <1>3, <1>5, <1>6, <1>7, QuietHolder

LEMMA RejectPayloadSafe ==
    ASSUME TInv, TInv', IInv, NEW r \in Runs, RejectPayload(r)
    PROVE  IInv'
<1>1. r \in Procs /\ pc[r] \in Holding /\ pc[r] \notin Resting /\ {"fail_load"} \subseteq Step
  BY DEF RejectPayload, Resting, Holding, Procs, Step
<1>2. Goto(r, "fail_load") /\ UNCHANGED job
  BY DEF RejectPayload
<1>3. Run(r) \in Runs /\ job[r].target \in Outcomes /\ UNCHANGED <<repo, cancelled, stateLock, hubClosed, question>>
  BY <1>1, Serves, KnownRecord DEF RejectPayload, mem
<1>4. {"failed", "timed_out", "cancelled"} \subseteq Outcomes
  BY DEF Outcomes, Terminal
<1>5. Accepted' = Accepted
  BY SameLog DEF RejectPayload
<1>6. {"fail_load"} \cap Busy = {} /\ {"fail_load"} \subseteq Holding \ {"apply_save"}
  BY DEF Busy, Holding
<1>7. /\ Moved(r)
      /\ \/ pc'[r] \in Resting
         \/ /\ pc'[r] \in {"fail_load"} /\ job'[r].run = Run(r)
            /\ job'[r].snap \in {Snap(r), repo[Run(r)]}
  BY <1>1, <1>2, <1>3, <1>4, GoesTo DEF Run, Snap
<1> QED
  BY <1>1, <1>3, <1>5, <1>6, <1>7, QuietHolder

LEMMA GraphRaisesSafe ==
    ASSUME TInv, TInv', IInv, NEW p \in Procs, GraphRaises(p)
    PROVE  IInv'
<1>1. pc[p] \in Holding /\ pc[p] \notin Resting /\ {"settle_load", "fail_load", "apply_lock"} \subseteq Step
  BY DEF GraphRaises, Resting, Holding, Step
<1>2. \/ ApplyRaises(p)
      \/ Settle(p, "failed", FALSE)
  BY DEF GraphRaises
<1>3. Run(p) \in Runs /\ job[p].target \in Outcomes /\ UNCHANGED <<repo, cancelled, stateLock, hubClosed, question>>
  BY <1>1, Serves, KnownRecord DEF GraphRaises, mem
<1>4. {"failed", "timed_out", "cancelled"} \subseteq Outcomes
  BY DEF Outcomes, Terminal
<1>5. Accepted' = Accepted
  BY SameLog DEF GraphRaises
<1>6. {"settle_load", "fail_load", "apply_lock"} \cap Busy = {} /\ {"settle_load", "fail_load", "apply_lock"} \subseteq Holding \ {"apply_save"}
  BY DEF Busy, Holding
<1>7. /\ Moved(p)
      /\ \/ pc'[p] \in Resting
         \/ /\ pc'[p] \in {"settle_load", "fail_load", "apply_lock"} /\ job'[p].run = Run(p)
            /\ job'[p].snap \in {Snap(p), repo[Run(p)]}
  BY <1>1, <1>2, <1>3, <1>4, RaisesToApply, Settles DEF Run, Snap
<1> QED
  BY <1>1, <1>3, <1>5, <1>6, <1>7, QuietHolder

LEMMA RecordStartedSafe ==
    ASSUME TInv, TInv', IInv, NEW r \in Runs, RecordStarted(r)
    PROVE  IInv'
<1>1. /\ r \in Procs /\ pc[r] \in Holding /\ pc[r] \in Busy /\ pc[r] \notin Resting
      /\ {"fail_load", "graph"} \subseteq Step /\ "run_started" \in Event
      /\ {"fail_load", "graph"} \subseteq Holding \ {"apply_save"}
  BY DEF RecordStarted, Procs, Holding, Busy, Resting, Step, Event
<1>2. /\ Emit(r, "run_started") /\ UNCHANGED <<job, repo, mem>>
      /\ Goto(r, "fail_load") \/ Goto(r, "graph")
  BY DEF RecordStarted
<1>3. Run(r) \in Runs
  BY <1>1, Serves
<1>4. Moved(r) /\ pc'[r] \in {"fail_load", "graph"} /\ job'[r] = job[r]
  BY <1>1, <1>2, GoesTo
<1>5. Accepted' = Accepted
  BY <1>1, <1>2, <1>3, EmitAccepted
<1> QED
  BY <1>1, <1>2, <1>4, <1>5, QuietHolder DEF mem, Run, Snap

LEMMA FailLoadSafe ==
    ASSUME TInv, TInv', IInv, NEW r \in Runs, FailLoad(r)
    PROVE  IInv'
<1>1. /\ r \in Procs /\ pc[r] \in Holding /\ pc[r] \notin Resting
      /\ {"apply_lock", "fail_start"} \subseteq Step /\ "failed" \in Outcomes
      /\ {"apply_lock", "fail_start"} \subseteq Holding \ {"apply_save"}
      /\ {"apply_lock", "fail_start"} \cap Busy = {}
  BY DEF FailLoad, Procs, Holding, Busy, Resting, Step, Outcomes, Terminal
<1>2. /\ \/ Finish(r)
         \/ With(r, "apply_lock", [job[r] EXCEPT !.snap = repo[r], !.target = "failed"])
         \/ With(r, "fail_start", [job[r] EXCEPT !.snap = repo[r], !.target = "failed"])
      /\ UNCHANGED <<repo, log, mem>>
  BY DEF FailLoad
<1>3. Run(r) = r
  BY <1>1, Serves
<1>4. /\ Moved(r)
      /\ \/ pc'[r] \in Resting
         \/ /\ pc'[r] \in {"apply_lock", "fail_start"} /\ job'[r].run = Run(r)
            /\ job'[r].snap = repo[Run(r)]
  BY <1>1, <1>2, <1>3, Finishes, Loaded
<1> QED
  BY <1>1, <1>2, <1>4, SameLog, QuietHolder DEF mem

LEMMA RecordSettleStartedSafe ==
    ASSUME TInv, TInv', IInv, NEW r \in Runs, RecordSettleStarted(r)
    PROVE  IInv'
<1>1. /\ r \in Procs /\ pc[r] \in Holding /\ pc[r] \in Busy /\ pc[r] \notin Resting
      /\ {"settle_spend", "apply_lock"} \subseteq Step /\ "run_started" \in Event
      /\ {"settle_load", "settle_spend", "apply_lock"} \subseteq Holding \ {"apply_save"}
  BY DEF RecordSettleStarted, Procs, Holding, Busy, Resting, Step, Event
<1>2. /\ Emit(r, "run_started") /\ UNCHANGED <<repo, mem>>
      /\ \/ SettleRaises(r)
         \/ Goto(r, "settle_spend") /\ UNCHANGED job
         \/ Goto(r, "apply_lock") /\ UNCHANGED job
  BY DEF RecordSettleStarted
<1>3. Run(r) \in Runs
  BY <1>1, Serves
<1>4. /\ Moved(r)
      /\ \/ pc'[r] \in Resting
         \/ /\ pc'[r] \in {"settle_load", "settle_spend", "apply_lock"}
            /\ job'[r].run = Run(r) /\ job'[r].snap = Snap(r)
  BY <1>1, <1>2, GoesTo, SettlesAgain DEF Run, Snap
<1>5. Accepted' = Accepted
  BY <1>1, <1>2, <1>3, EmitAccepted
<1> QED
  BY <1>1, <1>2, <1>4, <1>5, QuietHolder DEF mem

\* The settlement of a Run that was cancelled meanwhile holds it no longer.
LEMMA SettleLoadSafe ==
    ASSUME TInv, TInv', IInv, NEW r \in Runs, SettleLoad(r)
    PROVE  IInv'
<1>1. /\ r \in Procs /\ pc[r] \in Holding /\ pc[r] \notin Resting
      /\ {"settle_charge", "settle_start", "settle_spend", "apply_lock"} \subseteq Step
      /\ {"settle_start", "settle_spend", "apply_lock"} \subseteq Holding \ {"apply_save"}
      /\ {"settle_start", "apply_lock"} \cap Busy = {}
  BY DEF SettleLoad, Procs, Holding, Busy, Resting, Step
<1>2. Run(r) = r /\ job[r].target \in Outcomes /\ UNCHANGED <<repo, log, mem>>
  BY <1>1, Serves, KnownRecord DEF SettleLoad
<1>3. CASE Finish(r)
  BY <1>1, <1>2, <1>3, Finishes, SameLog, QuietEnd DEF mem
<1>4. CASE \E step \in {"settle_start", "apply_lock"} : With(r, step, [job[r] EXCEPT !.snap = repo[r]])
  <2>1. /\ Moved(r) /\ pc'[r] \in {"settle_start", "apply_lock"}
        /\ job'[r].run = Run(r) /\ job'[r].snap = repo[Run(r)]
    <3>1. PICK step \in {"settle_start", "apply_lock"} :
            step \in Step /\ With(r, step, [job[r] EXCEPT !.snap = repo[Run(r)]])
      BY <1>1, <1>2, <1>4
    <3> QED
      BY <1>1, <1>2, <3>1, Loaded
  <2> QED
    BY <1>1, <1>2, <2>1, SameLog, QuietHolder DEF mem
<1>5. CASE With(r, "settle_spend", [job[r] EXCEPT !.snap = repo[r]]) /\ repo[r].status = "running"
  <2>1. /\ Moved(r) /\ pc'[r] = "settle_spend"
        /\ job'[r].run = Run(r) /\ job'[r].snap = repo[Run(r)]
    BY <1>1, <1>2, <1>5, Loaded
  <2>2. ~Ended(Run(r))
    BY <1>2, <1>5, StatusFacts DEF Ended
  <2> QED
    BY <1>1, <1>2, <2>1, <2>2, SameLog, QuietHolder DEF mem
<1>6. CASE With(r, "settle_charge", [job[r] EXCEPT !.snap = repo[r]]) /\ repo[r].status = "cancelled"
  <2>1. /\ Moved(r) /\ pc'[r] = "settle_charge"
        /\ job'[r].run = Run(r) /\ job'[r].snap = repo[Run(r)]
    BY <1>1, <1>2, <1>6, Loaded
  <2>2. Steady /\ UNCHANGED <<stateLock, hubClosed, question>>
    BY <1>2, SameLog DEF Steady, mem
  <2>3. /\ Run(r)' = Run(r) /\ Snap(r)' = repo[Run(r)] /\ Stored(r)' = repo[Run(r)]
        /\ repo[Run(r)].version \in Nat /\ Ended(Run(r))'
    BY <1>1, <1>2, <1>6, <2>1, <2>2, KnownRecord
       DEF Run, Snap, Stored, Steady, Ended, Terminal, Record
  <2>4. Fresh(r)'
    BY <2>3 DEF Fresh
  <2>5. Local(r)'
    BY <2>1, <2>3, <2>4 DEF Local, Locks, Holds, Applies, Knows, Signalled,
                            Holding, Cancelling, Announcing
  <2>6. Keeps(r)
    BY <2>1, <2>2 DEF Keeps, Holding, Busy, Ended, Steady
  <2> QED
    BY <1>1, <2>1, <2>2, <2>5, <2>6, SteadySound, SteadyStep DEF Moved
<1> QED
  BY <1>3, <1>4, <1>5, <1>6 DEF SettleLoad

LEMMA SettleSpendSafe ==
    ASSUME TInv, TInv', IInv, NEW r \in Runs, SettleSpend(r)
    PROVE  IInv'
<1>1. /\ r \in Procs /\ pc[r] \in Holding /\ pc[r] \notin Resting
      /\ "apply_lock" \in Step /\ "timed_out" \in Outcomes
      /\ {"apply_lock", "settle_load"} \subseteq Holding \ {"apply_save"}
      /\ {"apply_lock", "settle_load"} \cap Busy = {}
  BY DEF SettleSpend, Procs, Holding, Busy, Resting, Step, Outcomes, Terminal
<1>2. Run(r) = r /\ UNCHANGED <<log, mem>>
  BY <1>1, Serves DEF SettleSpend
<1>3. CASE IsCurrent(r)
  <2> DEFINE rec == Revised(r, Snap(r).status, TRUE)
  <2>1. PICK t \in Outcomes :
          Save(r, rec) /\ With(r, "apply_lock", [job[r] EXCEPT !.snap = rec, !.target = t])
    BY <1>1, <1>3, KnownRecord DEF SettleSpend
  <2>2. Snap(r) = repo[r] /\ rec \in Record /\ Snap(r).status \in Status \ ({"absent"} \cup Waiting)
    BY <1>1, <1>2, <1>3, CurrentKnown, KnownRecord, RevisedType
       DEF Record, IInv, Local, Holds, Stored
  <2> DEFINE j == [job[r] EXCEPT !.snap = rec, !.target = t]
  <2>3. Save(r, rec) /\ With(r, "apply_lock", j)
    BY <2>1
  <2>4. rec = Revised(r, Snap(r).status, TRUE)
    OBVIOUS
  <2> HIDE DEF rec
  <2>5. j \in Job /\ j.run = r /\ j.snap = rec
    BY <1>1, <1>2, <2>2, KnownRecord DEF Job, Run
  <2> HIDE DEF j
  <2>6. /\ Moved(r) /\ pc'[r] = "apply_lock" /\ job'[r] = j /\ repo'[r] = rec
        /\ \A s \in Runs \ {r} : repo'[s] = repo[s]
    BY <1>1, <1>2, <2>2, <2>3, <2>5, MoveTo, SaveType
  <2>7. Advances(r) /\ repo'[r].status = Snap(r).status
    BY <1>1, <1>2, <1>3, <2>2, <2>4, <2>6, SavedAdvances, SameLog DEF mem
  <2> QED
    BY <1>1, <1>2, <2>2, <2>5, <2>6, <2>7, HolderSaves DEF Moved, mem
<1>4. CASE ~IsCurrent(r)
  <2>1. UNCHANGED repo /\ SettleRaises(r)
    BY <1>4 DEF SettleSpend
  <2> QED
    BY <1>1, <1>2, <2>1, SettlesAgain, SameLog, QuietHolder DEF mem
<1> QED
  BY <1>3, <1>4

LEMMA SettleChargeSafe ==
    ASSUME TInv, TInv', IInv, NEW r \in Runs, SettleCharge(r)
    PROVE  IInv'
<1>1. /\ r \in Procs /\ pc[r] \notin Resting /\ pc[r] = "settle_charge"
      /\ UNCHANGED <<log, mem>> /\ Finish(r)
  BY DEF SettleCharge, Procs, Resting
<1>2. Moved(r) /\ pc'[r] \in Resting /\ Run(r) \in Runs
  BY <1>1, Finishes, Serves
<1>3. CASE IsCurrent(r)
  <2>1. Save(r, Revised(r, Snap(r).status, TRUE))
    BY <1>3 DEF SettleCharge
  <2>2. Snap(r) = repo[Run(r)] /\ repo[Run(r)].status \in Terminal /\ Snap(r).status \in Status
    BY <1>1, <1>3, CurrentKnown, KnownRecord DEF IInv, Local, Knows, Ended, Record
  <2>3. Revised(r, Snap(r).status, TRUE) \in Record
    BY <1>1, <2>2, RevisedType
  <2>4. /\ repo'[Run(r)] = Revised(r, Snap(r).status, TRUE)
        /\ \A s \in Runs \ {Run(r)} : repo'[s] = repo[s]
    BY <1>1, <1>2, <2>1, <2>3, SaveType
  <2>5. Advances(r)
    BY <1>1, <1>3, <2>2, <2>4, StatusFacts, SavedAdvances, SameLog DEF mem
  <2>6. Local(r)' /\ Keeps(r)
    BY <1>1, <1>2, <2>5, AdvancesStable, Phases DEF Local, Keeps
  <2> QED
    BY <1>1, <1>2, <2>2, <2>5, <2>6, SaveStep DEF Moved, mem
<1>4. CASE ~IsCurrent(r)
  BY <1>1, <1>2, <1>4, SameLog, QuietEnd DEF SettleCharge, mem
<1> QED
  BY <1>3, <1>4

LEMMA LoadWaitingSafe ==
    ASSUME TInv, TInv', IInv, NEW c \in Callers, NEW r \in Runs, LoadWaiting(c, r)
    PROVE  IInv'
<1>1. PICK n \in 1 .. asked[r] :
        With(c, "match", [NoJob EXCEPT !.run = r, !.snap = repo[r], !.answer = n])
  BY DEF LoadWaiting
<1>2. /\ c \in Procs /\ "match" \in Step /\ c \notin Runs /\ n \in Nat
      /\ repo[r] \in Record /\ repo[r].status = "waiting_input" /\ UNCHANGED <<repo, log, mem>>
  BY ProcessesDistinct DEF Procs, Step, TInv, TypeOK, LoadWaiting
<1> DEFINE j == [NoJob EXCEPT !.run = r, !.snap = repo[r], !.answer = n]
<1>3. j \in Job /\ j.run = r /\ j.snap = repo[r] /\ With(c, "match", j)
  BY <1>1, <1>2, NoJobType DEF Job, NoJob
<1> HIDE DEF j
<1>4. Moved(c) /\ pc'[c] = "match" /\ job'[c] = j
  BY <1>2, <1>3, MoveTo
<1>5. Steady /\ UNCHANGED <<stateLock, hubClosed, question>>
  BY <1>2, SameLog DEF Steady, mem
<1>6. Snap(c)' = repo[r] /\ Stored(c)' = repo[r]
  BY <1>3, <1>4, <1>5 DEF Run, Snap, Stored, Steady
<1>7. Local(c)'
  BY <1>2, <1>4, <1>6 DEF Local, Fresh, Locks, Holds, Applies, Knows, Signalled, Record,
                          Holding, Cancelling, Announcing
<1>8. Keeps(c)
  BY <1>4, <1>5 DEF Keeps, Ended, Steady, Holding, Busy
<1> QED
  BY <1>2, <1>4, <1>5, <1>7, <1>8, SteadySound, SteadyStep DEF Moved

LEMMA MatchCheckpointSafe ==
    ASSUME TInv, TInv', IInv, NEW c \in Callers, MatchCheckpoint(c)
    PROVE  IInv'
<1>1. /\ c \in Procs /\ pc[c] = "match" /\ pc[c] \notin Resting /\ "resume" \in Step
      /\ UNCHANGED <<repo, log, mem>>
  BY DEF Procs, Step, Resting, MatchCheckpoint
<1>2. Run(c) \in Runs
  BY <1>1, Serves
<1>3. CASE Finish(c)
  BY <1>1, <1>3, Finishes, QuietEnd, SameLog DEF mem
<1>4. CASE question[Run(c)] # 0 /\ Goto(c, "resume") /\ UNCHANGED job
  <2>1. Moved(c) /\ pc'[c] = "resume" /\ job'[c] = job[c]
    BY <1>1, <1>4, GoesTo
  <2>2. Steady /\ UNCHANGED <<stateLock, hubClosed, question>>
    BY <1>1, SameLog DEF Steady, mem
  <2>3. Fresh(c) /\ Knows(c)
    BY <1>1 DEF IInv, Local
  <2>4. Run(c)' = Run(c) /\ Snap(c)' = Snap(c) /\ Stored(c)' = Stored(c)
    BY <2>1, <2>2 DEF Run, Snap, Stored, Steady
  <2>5. Run(c) \in Accepted' => Run(c) \in cancelled'
    BY <1>2, <1>4, <2>2 DEF IInv, Sound, Steady
  <2>6. Local(c)'
    BY <1>1, <2>1, <2>3, <2>4, <2>5
       DEF Local, Fresh, Locks, Holds, Applies, Knows, Signalled, Holding, Cancelling, Announcing
  <2>7. Keeps(c)
    BY <2>1, <2>2 DEF Keeps, Ended, Steady, Holding, Busy
  <2> QED
    BY <1>1, <2>1, <2>2, <2>6, <2>7, SteadySound, SteadyStep DEF Moved
<1> QED
  BY <1>3, <1>4 DEF MatchCheckpoint

\* A waiting Run has no holder, so the one resumption that wins becomes the only one.
LEMMA ResumeRunSafe ==
    ASSUME TInv, TInv', IInv, NEW c \in Callers, ResumeRun(c)
    PROVE  IInv'
<1>1. /\ c \in Procs /\ pc[c] = "resume" /\ pc[c] \notin Resting /\ "resumed" \in Step
      /\ UNCHANGED <<log, mem>> /\ Snap(c).counted \in BOOLEAN
  BY KnownRecord DEF Procs, Step, Resting, ResumeRun, Record
<1>2. Run(c) \in Runs
  BY <1>1, Serves
<1>3. CASE ~Saves(c, "running")
  <2>1. UNCHANGED repo /\ Finish(c)
    BY <1>3 DEF ResumeRun
  <2> QED
    BY <1>1, <2>1, Finishes, QuietEnd, SameLog DEF mem
<1>4. CASE Saves(c, "running")
  <2>1. /\ Save(c, Revised(c, "running", Snap(c).counted))
        /\ With(c, "resumed", [job[c] EXCEPT !.snap = Revised(c, "running", Snap(c).counted)])
    BY <1>4 DEF ResumeRun
  <2>2. Snap(c) = repo[Run(c)] /\ Snap(c).status = "waiting_input" /\ Signalled(c)
    BY <1>1, <1>4, CurrentKnown DEF Saves, IInv, Local, Knows
  <2>3. "running" \in Status \ ({"absent"} \cup Waiting)
    BY DEF Status, Waiting
  <2>4. /\ Moved(c) /\ pc'[c] = "resumed"
        /\ repo'[Run(c)] = Revised(c, "running", Snap(c).counted)
        /\ \A s \in Runs \ {Run(c)} : repo'[s] = repo[s]
        /\ job'[c].run = Run(c) /\ job'[c].snap = Revised(c, "running", Snap(c).counted)
    BY <1>1, <2>1, <2>3, Saved
  <2>5. Advances(c) /\ repo'[Run(c)].status = "running"
    BY <1>1, <1>4, <2>3, <2>4, SavedAdvances, SameLog DEF Saves, mem
  <2>6. /\ Run(c)' = Run(c) /\ Stored(c)' = repo'[Run(c)] /\ Snap(c)' = repo'[Run(c)]
        /\ Accepted' = Accepted /\ cancelled' = cancelled
    BY <1>1, <2>4, SameLog DEF Run, Snap, Stored, mem
  <2>7. Local(c)'
    <3>1. Fresh(c)'
      BY <1>2, <2>6 DEF Fresh, TInv, TypeOK, Record
    <3>2. Holds(c)'
      BY <2>3, <2>5, <2>6 DEF Holds
    <3>3. Signalled(c)'
      BY <1>1, <2>2, <2>4, <2>6 DEF Signalled, Cancelling
    <3> QED
      BY <2>4, <3>1, <3>2, <3>3 DEF Local, Locks, Applies, Knows, Cancelling, Announcing
  <2>8. ASSUME NEW p \in Procs \ {c}, pc[p] \in Holding PROVE Run(p) # Run(c)
    BY <2>2, <2>8, Phases DEF IInv, Local, Holds, Stored, Waiting
  <2>9. Keeps(c)
    BY <1>1, <1>2, <2>4, <2>5, <2>8, AdvancesStable, Phases DEF Keeps
  <2> QED
    BY <1>1, <2>2, <2>4, <2>5, <2>7, <2>9, SaveStep DEF Moved, mem, Waiting
<1> QED
  BY <1>3, <1>4

LEMMA CancelLoadSafe ==
    ASSUME TInv, TInv', IInv, NEW c \in Callers, NEW r \in Runs, CancelLoad(c, r)
    PROVE  IInv'
<1> DEFINE step == IF r \in cancelled THEN "cancel_try" ELSE "cancel_mark"
           j    == [NoJob EXCEPT !.run = r, !.snap = repo[r]]
<1>1. /\ c \in Procs /\ c \notin Runs /\ step \in Step /\ step \in Cancelling \ {"cancel_record"}
      /\ repo[r] \in Record /\ repo[r].status # "absent"
  BY ProcessesDistinct DEF Procs, Step, Cancelling, CancelLoad, TInv, TypeOK
<1>2. j \in Job /\ j.run = r /\ j.snap = repo[r]
  BY <1>1, NoJobType DEF Job, NoJob
<1>3. /\ With(c, step, j) /\ stateLock = None /\ stateLock' = c /\ cancelled' = cancelled \cup {r}
      /\ UNCHANGED <<repo, log, hubClosed, prefix, question, rest>>
  BY DEF CancelLoad, LockFree
<1> HIDE DEF step, j
<1>4. Moved(c) /\ pc'[c] = step /\ job'[c] = j /\ Accepted' = Accepted
  BY <1>1, <1>2, <1>3, MoveTo, SameLog
<1>5. Run(c)' = r /\ Snap(c)' = repo[r] /\ Stored(c)' = repo[r]
  BY <1>2, <1>3, <1>4 DEF Run, Snap, Stored
<1>6. Local(c)'
  BY <1>1, <1>3, <1>4, <1>5
     DEF Local, Fresh, Locks, Holds, Applies, Knows, Signalled, Record,
         Holding, Cancelling, Announcing
<1>7. Keeps(c)
  BY <1>1, <1>3, <1>4, Phases DEF Keeps, Ended
<1>8. ASSUME NEW q \in Procs \ {c}, pc[q] \notin Resting PROVE Calm(q)
  <2>1. stateLock # q
    BY <1>3, ProcessesDistinct DEF Procs
  <2>2. pc[q] # "apply_save"
    BY <1>8, <2>1 DEF IInv, Local, Locks
  <2> QED
    BY <1>3, <1>4, <2>1, <2>2 DEF Calm
<1>9. ASSUME NEW s \in Runs PROVE Sound(s)'
  BY <1>3, <1>4 DEF IInv, Sound, Ended
<1> QED
  BY <1>1, <1>4, <1>6, <1>7, <1>8, <1>9, OneStep DEF Moved

LEMMA RecordCancelRequestSafe ==
    ASSUME TInv, TInv', IInv, NEW c \in Callers, RecordCancelRequest(c)
    PROVE  IInv'
<1>1. /\ c \in Procs /\ pc[c] \notin Resting /\ pc[c] = "cancel_mark" /\ "cancel_try" \in Step
      /\ "run_cancel_requested" \in Event /\ pc[c] \in Cancelling
      /\ UNCHANGED <<repo, cancelled, hubClosed, question>>
  BY DEF Procs, Resting, Step, Event, Cancelling, RecordCancelRequest
<1>2. /\ Emit(c, "run_cancel_requested")
      /\ \/ Goto(c, "cancel_try") /\ UNCHANGED <<job, stateLock>>
         \/ Finish(c) /\ stateLock' = None
  BY DEF RecordCancelRequest
<1>3. Run(c) \in Runs
  BY <1>1, Serves
<1>4. /\ Moved(c)
      /\ \/ pc'[c] \in Resting
         \/ pc'[c] = "cancel_try" /\ job'[c] = job[c] /\ stateLock' = stateLock
  BY <1>1, <1>2, GoesTo, Finishes
<1>5. Accepted' = Accepted \cup {Run(c)}
  BY <1>1, <1>2, <1>3, EmitAccepted
<1>6. /\ Fresh(c) /\ stateLock = c /\ Run(c) \in cancelled /\ repo[Run(c)].status # "absent"
  BY <1>1 DEF IInv, Local, Locks, Signalled, Stored
<1>7. Local(c)'
  <2>1. CASE pc'[c] \in Resting
    BY <2>1 DEF Local
  <2>2. CASE pc'[c] = "cancel_try" /\ job'[c] = job[c] /\ stateLock' = stateLock
    <3>1. Run(c)' = Run(c) /\ Snap(c)' = Snap(c) /\ Stored(c)' = Stored(c) /\ Stored(c) = repo[Run(c)]
      BY <1>1, <2>2 DEF Run, Snap, Stored
    <3> QED
      BY <1>1, <1>6, <2>2, <3>1
         DEF Local, Fresh, Locks, Holds, Applies, Knows, Signalled, Holding, Cancelling, Announcing
  <2> QED
    BY <1>4, <2>1, <2>2
<1>8. Keeps(c)
  BY <1>1, <1>4, Phases DEF Keeps, Ended, Holding, Busy
<1>9. ASSUME NEW q \in Procs \ {c}, pc[q] \notin Resting PROVE Calm(q)
  BY <1>1, <1>5, <1>6 DEF Calm
<1>10. ASSUME NEW s \in Runs PROVE Sound(s)'
  BY <1>1, <1>5, <1>6 DEF IInv, Sound, Ended
<1> QED
  BY <1>1, <1>4, <1>7, <1>8, <1>9, <1>10, OneStep DEF Moved

\* Whoever cancels goes on with what it knows or what it has just read.
LEMMA CancellerStep ==
    ASSUME TInv, TInv', IInv, NEW c \in Procs, Moved(c), Accepted' = Accepted,
           UNCHANGED <<repo, cancelled, stateLock, hubClosed, question>>, pc[c] \in Cancelling,
           pc'[c] \in Cancelling \ {"cancel_record"},
           job'[c].run = Run(c), job'[c].snap \in {Snap(c), repo[Run(c)]}
    PROVE  IInv'
<1>1. pc[c] \notin Resting /\ pc'[c] \notin Resting
  BY Phases
<1>2. Fresh(c) /\ Locks(c) /\ Signalled(c) /\ repo[Run(c)].version \in Nat
  BY <1>1, Serves, KnownRecord DEF IInv, Local, Record
<1>3. Run(c)' = Run(c) /\ Stored(c)' = repo[Run(c)] /\ Stored(c) = repo[Run(c)]
  BY DEF Run, Stored
<1>4. Fresh(c)'
  BY <1>2, <1>3 DEF Fresh, Snap
<1>5. Locks(c)' /\ Signalled(c)'
  BY <1>2, <1>3, Phases DEF Locks, Signalled, Announcing, Cancelling
<1>6. Local(c)'
  BY <1>4, <1>5, Phases DEF Local, Holds, Applies, Knows, Cancelling, Announcing
<1>7. Keeps(c) /\ Steady
  BY Phases DEF Keeps, Ended, Steady
<1> QED
  BY <1>6, <1>7, SteadySound, SteadyStep DEF Moved

LEMMA CancelTrySafe ==
    ASSUME TInv, TInv', IInv, NEW c \in Callers, CancelTry(c)
    PROVE  IInv'
<1>1. /\ c \in Procs /\ pc[c] \notin Resting /\ pc[c] = "cancel_try" /\ pc[c] \in Cancelling
      /\ {"cancel_reload", "cancel_record"} \subseteq Step /\ Snap(c).counted \in BOOLEAN
      /\ UNCHANGED <<log, mem>>
  BY KnownRecord DEF Procs, Resting, Step, Cancelling, Record, CancelTry
<1>2. Run(c) \in Runs /\ (c \in Runs => Run(c) = c)
  BY <1>1, Serves
<1>3. CASE ~Saves(c, "cancelled")
  <2> DEFINE j == [job[c] EXCEPT !.tries = @ + 1]
  <2>1. UNCHANGED repo /\ With(c, "cancel_reload", j)
    BY <1>3 DEF CancelTry
  <2>2. j \in Job /\ j.run = Run(c) /\ j.snap = Snap(c)
    BY <1>1, KnownRecord DEF Job, Run, Snap
  <2> HIDE DEF j
  <2>3. Moved(c) /\ pc'[c] = "cancel_reload" /\ job'[c] = j
    BY <1>1, <1>2, <2>1, <2>2, MoveTo
  <2> QED
    BY <1>1, <2>1, <2>2, <2>3, SameLog, CancellerStep DEF Cancelling, mem
<1>4. CASE Saves(c, "cancelled")
  <2>1. /\ Save(c, Revised(c, "cancelled", Snap(c).counted))
        /\ With(c, "cancel_record", [job[c] EXCEPT !.snap = Revised(c, "cancelled", Snap(c).counted)])
    BY <1>4 DEF CancelTry
  <2>2. stateLock = c /\ Signalled(c)
    BY <1>1 DEF IInv, Local, Locks
  <2>3. "cancelled" \in Status \ ({"absent"} \cup Waiting) /\ "cancelled" \in Terminal
    BY DEF Status, Waiting, Terminal
  <2>4. /\ Moved(c) /\ pc'[c] = "cancel_record"
        /\ repo'[Run(c)] = Revised(c, "cancelled", Snap(c).counted)
        /\ \A s \in Runs \ {Run(c)} : repo'[s] = repo[s]
        /\ job'[c].run = Run(c) /\ job'[c].snap = Revised(c, "cancelled", Snap(c).counted)
    BY <1>1, <2>1, <2>3, Saved
  <2>5. Advances(c) /\ repo'[Run(c)].status = "cancelled"
    BY <1>1, <1>4, <2>3, <2>4, SavedAdvances, SameLog DEF Saves, mem
  <2>6. /\ Run(c)' = Run(c) /\ Stored(c)' = repo'[Run(c)] /\ Snap(c)' = repo'[Run(c)]
        /\ Accepted' = Accepted /\ cancelled' = cancelled /\ stateLock' = stateLock
    BY <1>1, <2>4, SameLog DEF Run, Snap, Stored, mem
  <2>7. Local(c)'
    <3>1. Fresh(c)'
      BY <1>2, <2>6 DEF Fresh, TInv, TypeOK, Record
    <3>2. Knows(c)'
      BY <2>3, <2>4, <2>5, <2>6 DEF Knows, Ended, Announcing
    <3>3. Signalled(c)' /\ Locks(c)'
      BY <1>1, <2>2, <2>3, <2>4, <2>5, <2>6, Phases
         DEF Signalled, Locks, Cancelling, Announcing, Holding
    <3> QED
      BY <2>4, <3>1, <3>2, <3>3 DEF Local, Holds, Applies, Holding
  <2>8. Keeps(c)
    BY <1>1, <1>2, <2>4, <2>5, AdvancesStable DEF Keeps, Holding, Busy
  <2> QED
    BY <1>1, <2>2, <2>3, <2>4, <2>5, <2>6, <2>7, <2>8, SaveStep DEF Moved
<1> QED
  BY <1>3, <1>4

LEMMA CancelReloadSafe ==
    ASSUME TInv, TInv', IInv, NEW c \in Callers, CancelReload(c)
    PROVE  IInv'
<1>1. /\ c \in Procs /\ pc[c] \notin Resting /\ pc[c] \in Cancelling /\ "cancel_try" \in Step
      /\ "cancel_try" \in Cancelling \ {"cancel_record"} /\ job[c].target \in Outcomes
      /\ UNCHANGED <<repo, log, cancelled, hubClosed, question>>
  BY KnownRecord DEF Procs, Resting, Step, Cancelling, CancelReload
<1>2. stateLock = c
  BY <1>1 DEF IInv, Local, Locks
<1>3. CASE Finish(c)
  BY <1>1, <1>2, <1>3, Finishes, SameLog, QuietEnd
<1>4. CASE With(c, "cancel_try", [job[c] EXCEPT !.snap = repo[Run(c)]]) /\ UNCHANGED stateLock
  <2>1. /\ Moved(c) /\ pc'[c] = "cancel_try"
        /\ job'[c].run = Run(c) /\ job'[c].snap = repo[Run(c)]
    BY <1>1, <1>4, Loaded
  <2> QED
    BY <1>1, <1>4, <2>1, SameLog, CancellerStep
<1> QED
  BY <1>3, <1>4 DEF CancelReload

LEMMA RecordCancelledSafe ==
    ASSUME TInv, TInv', IInv, NEW c \in Callers, RecordCancelled(c)
    PROVE  IInv'
<1>1. /\ c \in Procs /\ pc[c] \notin Resting /\ pc[c] = "cancel_record" /\ pc[c] \in Cancelling
      /\ "cancelled" \in Event /\ UNCHANGED <<repo, cancelled, question>>
      /\ Emit(c, "cancelled") /\ Finish(c) /\ hubClosed' = hubClosed \cup {Run(c)}
  BY DEF Procs, Resting, Cancelling, Event, Outcomes, Terminal, RecordCancelled
<1>2. stateLock = c /\ Ended(Run(c)) /\ Run(c) \in Runs
  BY <1>1, Serves DEF IInv, Local, Locks, Knows
<1>3. Moved(c) /\ pc'[c] \in Resting
  BY <1>1, Finishes
<1>4. Steady
  BY <1>1, <1>2, EmitAccepted DEF Steady
<1>5. ASSUME NEW r \in Runs PROVE Sound(r)'
  BY <1>1, <1>2, <1>4 DEF IInv, Sound, Ended, Steady
<1> QED
  BY <1>1, <1>2, <1>3, <1>4, <1>5, RestingStep DEF Moved

LEMMA GraphReturnsSafe ==
    ASSUME TInv, TInv', IInv, NEW p \in Procs, GraphReturns(p)
    PROVE  IInv'
<1>1. /\ pc[p] \in Holding /\ pc[p] \notin Resting /\ "apply_lock" \in Step
      /\ "apply_lock" \in Holding \ {"apply_save"} /\ "apply_lock" \notin Busy
      /\ UNCHANGED <<repo, log, cancelled, stateLock, hubClosed>>
  BY DEF GraphReturns, Holding, Resting, Step, Busy
<1>2. Run(p) \in Runs /\ (p \in Runs => Run(p) = p)
  BY <1>1, Serves
<1>3. PICK o \in Outcomes :
        /\ question' = IF o = "waiting_input" THEN [question EXCEPT ![Run(p)] = @ + 1] ELSE question
        /\ With(p, "apply_lock",
                [job[p] EXCEPT !.target = IF Run(p) \in cancelled THEN "cancelled" ELSE o,
                               !.charged = FALSE])
  BY DEF GraphReturns
<1> DEFINE t == IF Run(p) \in cancelled THEN "cancelled" ELSE o
           j == [job[p] EXCEPT !.target = t, !.charged = FALSE]
<1>4. t \in Outcomes /\ With(p, "apply_lock", j)
  BY <1>3 DEF Outcomes, Terminal
<1> HIDE DEF t
<1>5. j \in Job /\ j.run = Run(p) /\ j.snap = Snap(p)
  BY <1>1, <1>4, KnownRecord DEF Job, Run, Snap
<1> HIDE DEF j
<1>6. Moved(p) /\ pc'[p] = "apply_lock" /\ job'[p] = j
  BY <1>1, <1>2, <1>4, <1>5, MoveTo
<1>7. Steady
  BY <1>1, SameLog DEF Steady
<1>8. ASSUME NEW r \in Runs PROVE Sound(r)'
  <2>1. r # Run(p) => question'[r] = question[r]
    BY <1>3 DEF TInv, TypeOK
  <2>2. Run(p) \in Accepted => Run(p) \in cancelled
    BY <1>1 DEF IInv, Local, Signalled
  <2> QED
    BY <1>1, <1>7, <2>1, <2>2 DEF IInv, Sound, Ended, Steady
<1> QED
  BY <1>1, <1>5, <1>6, <1>7, <1>8, HolderStep DEF Moved

\* Under the lock the last holder of a Run reads it and decides.
LEMMA ApplyLockSafe ==
    ASSUME TInv, TInv', IInv, NEW p \in Procs, ApplyLock(p)
    PROVE  IInv'
<1>1. /\ pc[p] \in Holding /\ pc[p] \notin Resting /\ "apply_save" \in Step /\ stateLock = None
      /\ UNCHANGED <<repo, log, cancelled, hubClosed, question>>
  BY DEF ApplyLock, LockFree, Holding, Resting, Step
<1>2. /\ Run(p) \in Runs /\ repo[Run(p)].version \in Nat
      /\ Decided(p, job[p].target) \in Outcomes
  BY <1>1, Serves, KnownRecord DEF Record, Decided, Outcomes, Terminal
<1>3. Steady
  BY <1>1, SameLog DEF Steady
<1>4. CASE UNCHANGED stateLock /\ Finish(p)
  BY <1>1, <1>4, Finishes, SameLog, QuietEnd
<1>5. CASE /\ ~Ended(Run(p)) /\ stateLock' = p
           /\ With(p, "apply_save", [job[p] EXCEPT !.snap = repo[Run(p)],
                                                   !.target = Decided(p, job[p].target)])
  <2>a. PICK t \in Outcomes : t = Decided(p, job[p].target)
    BY <1>2
  <2>b. With(p, "apply_save", [job[p] EXCEPT !.snap = repo[Run(p)], !.target = t])
    BY <1>5, <2>a
  <2>1. /\ Moved(p) /\ pc'[p] = "apply_save" /\ job'[p].run = Run(p)
        /\ job'[p].snap = repo[Run(p)] /\ job'[p].target = t
    BY <1>1, <2>b, LoadedFor, ZenonT(40)
  <2>2. Run(p)' = Run(p) /\ Snap(p)' = repo[Run(p)] /\ Stored(p)' = repo[Run(p)] /\ Stored(p) = repo[Run(p)]
    BY <2>1, <1>3 DEF Run, Snap, Stored, Steady
  <2>3. Holds(p) /\ Signalled(p)
    BY <1>1 DEF IInv, Local
  <2>4. Fresh(p)' /\ Locks(p)'
    BY <1>2, <1>5, <2>2 DEF Fresh, Locks
  <2>5. Holds(p)' /\ Signalled(p)'
    BY <1>1, <1>3, <2>1, <2>2, <2>3, Phases DEF Holds, Signalled, Steady, Cancelling
  <2>6. Applies(p)'
    BY <1>3, <1>5, <2>a, <2>1, <2>2 DEF Applies, Ended, Decided, Steady
  <2>7. Local(p)'
    BY <2>1, <2>4, <2>5, <2>6, Phases DEF Local, Knows, Announcing
  <2>8. ASSUME NEW q \in Procs \ {p}, pc[q] \in Busy PROVE Run(q) # Run(p)
    BY <1>1, <1>5, <2>8, Phases DEF IInv, Apart
  <2>9. Keeps(p)
    BY <1>1, <1>3, <2>1, <2>8 DEF Keeps, Ended, Steady
  <2> QED
    BY <1>1, <1>3, <2>1, <2>7, <2>9, SteadySound, SteadyStep DEF Moved
<1> QED
  BY <1>4, <1>5 DEF ApplyLock, Ended

LEMMA ApplySaveSafe ==
    ASSUME TInv, TInv', IInv, NEW p \in Procs, ApplySave(p)
    PROVE  IInv'
<1>1. /\ pc[p] \in Holding /\ pc[p] = "apply_save" /\ pc[p] \notin Resting /\ "checkpoint" \in Step
      /\ {"fail_load", "apply_lock"} \subseteq Holding \ {"apply_save"}
      /\ {"fail_load", "apply_lock"} \cap Busy = {}
      /\ UNCHANGED <<log, cancelled, hubClosed, question>>
  BY DEF ApplySave, Holding, Resting, Step, Busy
<1>2. /\ stateLock = p /\ Run(p) \in Runs /\ Counted(p) \in BOOLEAN
      /\ job[p].target \in Status \ {"absent"} /\ job[p].target # "result" /\ Signalled(p)
  BY <1>1, Serves, KnownRecord
     DEF IInv, Local, Locks, Counted, Outcomes, Status, Waiting, Terminal
<1>3. CASE ~Saves(p, job[p].target)
  <2>1. UNCHANGED repo /\ ApplyRaises(p)
    BY <1>3 DEF ApplySave
  <2>2. /\ Moved(p) /\ pc'[p] \in {"fail_load", "apply_lock"}
        /\ job'[p].run = Run(p) /\ job'[p].snap = Snap(p)
    BY <1>1, <2>1, RaisesToApply
  <2>3. Steady
    BY <1>1, <2>1, SameLog DEF Steady
  <2> QED
    BY <1>1, <1>2, <2>2, <2>3, SteadySound, HolderStep DEF Moved
<1>4. CASE Saves(p, job[p].target)
  <2>1. /\ Save(p, Revised(p, job[p].target, Counted(p)))
        /\ With(p, "checkpoint", [job[p] EXCEPT !.snap = Revised(p, job[p].target, Counted(p))])
    BY <1>4 DEF ApplySave
  <2>2. /\ Moved(p) /\ pc'[p] = "checkpoint"
        /\ repo'[Run(p)] = Revised(p, job[p].target, Counted(p))
        /\ \A s \in Runs \ {Run(p)} : repo'[s] = repo[s]
        /\ job'[p].run = Run(p) /\ job'[p].snap = Revised(p, job[p].target, Counted(p))
        /\ job'[p].target = job[p].target
    BY <1>1, <1>2, <2>1, Saved
  <2>3. Advances(p) /\ repo'[Run(p)].status = job[p].target
    BY <1>1, <1>2, <1>4, <2>2, SavedAdvances, SameLog DEF Saves
  <2>4. /\ Run(p)' = Run(p) /\ Stored(p)' = repo'[Run(p)] /\ Snap(p)' = repo'[Run(p)]
        /\ Accepted' = Accepted /\ cancelled' = cancelled
    BY <1>1, <2>2, SameLog DEF Run, Snap, Stored
  <2>5. Local(p)'
    <3>1. Fresh(p)'
      BY <1>2, <2>4 DEF Fresh, TInv, TypeOK, Record
    <3>2. Knows(p)'
      BY <2>2, <2>3, <2>4 DEF Knows, Ended
    <3>3. Signalled(p)'
      BY <1>1, <1>2, <2>2, <2>4 DEF Signalled, Cancelling
    <3> QED
      BY <2>2, <3>1, <3>2, <3>3 DEF Local, Locks, Holds, Applies, Holding, Cancelling
  <2>6. Keeps(p)
    BY <1>2, <2>2, <2>3, AdvancesStable DEF Keeps, Holding, Busy
  <2> QED
    BY <1>1, <1>2, <2>2, <2>3, <2>5, <2>6, SaveStep DEF Moved
<1> QED
  BY <1>3, <1>4

\* After its save a coroutine only announces what it saved.
LEMMA AnnouncerStep ==
    ASSUME TInv, TInv', IInv, NEW p \in Procs, Moved(p), Accepted' = Accepted,
           UNCHANGED <<repo, cancelled, stateLock, hubClosed, question>>,
           pc[p] \in Announcing, pc'[p] \in Announcing, job'[p] = job[p],
           pc'[p] = "result" => job[p].target = "succeeded"
    PROVE  IInv'
<1>1. pc[p] \notin Resting /\ pc'[p] \notin Resting
  BY DEF Announcing, Resting
<1>2. Fresh(p) /\ Knows(p) /\ Signalled(p)
  BY <1>1 DEF IInv, Local
<1>3. Run(p)' = Run(p) /\ Snap(p)' = Snap(p) /\ Stored(p)' = Stored(p)
  BY DEF Run, Snap, Stored
<1>4. Local(p)'
  BY <1>1, <1>2, <1>3, Phases
     DEF Local, Fresh, Locks, Holds, Applies, Knows, Signalled, Ended, Announcing, Cancelling
<1>5. Keeps(p) /\ Steady
  BY Phases DEF Keeps, Ended, Steady
<1> QED
  BY <1>4, <1>5, SteadySound, SteadyStep DEF Moved

\* An error while announcing an ended Run: its coroutine finds it ended.
LEMMA AnnouncerRaises ==
    ASSUME TInv, TInv', IInv, NEW p \in Procs, ApplyRaises(p), Accepted' = Accepted,
           UNCHANGED <<repo, cancelled, stateLock, hubClosed, question>>,
           pc[p] \in Announcing, Ended(Run(p))
    PROVE  IInv'
<1>1. pc[p] \notin Resting
  BY DEF Announcing, Resting
<1>2. Fresh(p) /\ Signalled(p) /\ Run(p) \in Runs
  BY <1>1, Serves DEF IInv, Local
<1>3. /\ Moved(p) /\ pc'[p] \in {"fail_load", "apply_lock"}
      /\ job'[p].run = Run(p) /\ job'[p].snap = Snap(p)
  BY <1>1, RaisesToApply
<1>4. /\ Run(p)' = Run(p) /\ Snap(p)' = Snap(p) /\ Stored(p)' = Stored(p)
      /\ Stored(p) = repo[Run(p)] /\ repo'[Run(p)].status \in Terminal
  BY <1>3 DEF Run, Snap, Stored, Ended
<1>5. Holds(p)'
  BY <1>4, StatusFacts DEF Holds
<1>6. Fresh(p)' /\ Signalled(p)'
  BY <1>2, <1>3, <1>4 DEF Fresh, Signalled, Cancelling
<1>7. Local(p)'
  BY <1>3, <1>5, <1>6 DEF Local, Locks, Applies, Knows, Cancelling, Announcing
<1>8. Keeps(p) /\ Steady
  BY <1>3, <1>4 DEF Keeps, Ended, Steady, Busy
<1> QED
  BY <1>3, <1>7, <1>8, SteadySound, SteadyStep DEF Moved

LEMMA RecordCheckpointSafe ==
    ASSUME TInv, TInv', IInv, NEW p \in Procs, RecordCheckpoint(p)
    PROVE  IInv'
<1>1. /\ pc[p] \in Announcing /\ pc[p] \notin Resting /\ "checkpoint_saved" \in Event
      /\ {"budget", "result", "outcome"} \subseteq Step \cap Announcing
      /\ UNCHANGED <<repo, job, mem>>
  BY DEF RecordCheckpoint, Announcing, Resting, Event, Step
<1>2. Run(p) \in Runs
  BY <1>1, Serves
<1>3. PICK step \in {"budget", "result", "outcome"} :
        Goto(p, step) /\ (step = "result" => job[p].target = "succeeded")
  BY DEF RecordCheckpoint
<1>4. Moved(p) /\ pc'[p] = step /\ job'[p] = job[p]
  BY <1>1, <1>3, GoesTo
<1>5. Accepted' = Accepted
  BY <1>1, <1>2, EmitAccepted DEF RecordCheckpoint
<1> QED
  BY <1>1, <1>3, <1>4, <1>5, AnnouncerStep DEF mem

LEMMA RecordBudgetSafe ==
    ASSUME TInv, TInv', IInv, NEW p \in Procs, RecordBudget(p)
    PROVE  IInv'
<1>1. /\ pc[p] \in Announcing /\ pc[p] \notin Resting /\ "budget_exhausted" \in Event
      /\ "outcome" \in Step \cap Announcing /\ UNCHANGED <<repo, job, mem>>
      /\ Goto(p, "outcome") /\ Emit(p, "budget_exhausted")
  BY DEF RecordBudget, Announcing, Resting, Event, Step
<1>2. Run(p) \in Runs
  BY <1>1, Serves
<1>3. Moved(p) /\ pc'[p] = "outcome" /\ job'[p] = job[p]
  BY <1>1, GoesTo
<1>4. Accepted' = Accepted
  BY <1>1, <1>2, EmitAccepted
<1> QED
  BY <1>1, <1>3, <1>4, AnnouncerStep DEF mem

LEMMA PublishResultSafe ==
    ASSUME TInv, TInv', IInv, NEW p \in Procs, PublishResult(p)
    PROVE  IInv'
<1>1. /\ pc[p] = "result" /\ pc[p] \in Announcing /\ pc[p] \notin Resting
      /\ "outcome" \in Step \cap Announcing /\ UNCHANGED <<log, mem>>
  BY DEF PublishResult, Announcing, Resting, Step
<1>2. /\ Run(p) \in Runs /\ Ended(Run(p)) /\ job[p].target = "succeeded" /\ Signalled(p)
  BY <1>1, Serves DEF IInv, Local, Knows, Terminal
<1>3. CASE UNCHANGED <<repo, job>> /\ Goto(p, "outcome")
  <2>1. Moved(p) /\ pc'[p] = "outcome" /\ job'[p] = job[p]
    BY <1>1, <1>3, GoesTo
  <2> QED
    BY <1>1, <1>3, <2>1, SameLog, AnnouncerStep DEF mem
<1>4. CASE UNCHANGED repo /\ ApplyRaises(p)
  BY <1>1, <1>2, <1>4, SameLog, AnnouncerRaises DEF mem
<1>5. CASE /\ IsCurrent(p) /\ Save(p, Revised(p, Snap(p).status, Snap(p).counted))
           /\ With(p, "outcome", [job[p] EXCEPT !.snap = Revised(p, Snap(p).status, Snap(p).counted)])
  <2>1. Snap(p) = repo[Run(p)] /\ Snap(p).status \in Status \ {"absent"} /\ Snap(p).counted \in BOOLEAN
    BY <1>1, <1>2, <1>5, CurrentKnown, KnownRecord, StatusFacts DEF Record, Ended
  <2>2. /\ Moved(p) /\ pc'[p] = "outcome"
        /\ repo'[Run(p)] = Revised(p, Snap(p).status, Snap(p).counted)
        /\ \A s \in Runs \ {Run(p)} : repo'[s] = repo[s]
        /\ job'[p].run = Run(p) /\ job'[p].snap = Revised(p, Snap(p).status, Snap(p).counted)
    BY <1>1, <1>5, <2>1, Saved
  <2>3. Advances(p) /\ repo'[Run(p)].status = repo[Run(p)].status
    BY <1>1, <1>5, <2>1, <2>2, SavedAdvances, SameLog DEF mem
  <2>4. /\ Run(p)' = Run(p) /\ Stored(p)' = repo'[Run(p)] /\ Snap(p)' = repo'[Run(p)]
        /\ Accepted' = Accepted /\ cancelled' = cancelled
    BY <1>1, <2>2, SameLog DEF Run, Snap, Stored, mem
  <2>5. Local(p)'
    <3>1. Fresh(p)'
      BY <1>2, <2>4 DEF Fresh, TInv, TypeOK, Record
    <3>2. Knows(p)'
      BY <1>2, <2>2, <2>3, <2>4 DEF Knows, Ended
    <3>3. Signalled(p)'
      BY <1>1, <1>2, <2>2, <2>4 DEF Signalled, Cancelling
    <3> QED
      BY <2>2, <3>1, <3>2, <3>3 DEF Local, Locks, Holds, Applies, Holding, Cancelling
  <2>6. Keeps(p)
    BY <1>2, <2>2, <2>3, AdvancesStable DEF Keeps, Holding, Busy
  <2> QED
    BY <1>1, <1>2, <2>2, <2>3, <2>5, <2>6, SaveStep DEF Moved, mem, Ended
<1> QED
  BY <1>3, <1>4, <1>5 DEF PublishResult

LEMMA RecordOutcomeSafe ==
    ASSUME TInv, TInv', IInv, NEW p \in Procs, RecordOutcome(p)
    PROVE  IInv'
<1>1. /\ pc[p] = "outcome" /\ pc[p] \in Announcing /\ pc[p] \notin Resting
      /\ job[p].target \in Event /\ job[p].target # "run_cancel_requested"
      /\ Emit(p, job[p].target) /\ UNCHANGED <<repo, cancelled, stateLock, question>>
  BY KnownRecord DEF RecordOutcome, Announcing, Resting, Event, Outcomes, Terminal
<1>2. Run(p) \in Runs /\ Knows(p)
  BY <1>1, Serves DEF IInv, Local
<1>3. Accepted' = Accepted
  BY <1>1, <1>2, EmitAccepted
<1>4. CASE Run(p) \in hubClosed
  <2>1. UNCHANGED hubClosed /\ ApplyRaises(p) /\ Ended(Run(p))
    BY <1>2, <1>4 DEF RecordOutcome, IInv, Sound
  <2> QED
    BY <1>1, <1>3, <2>1, AnnouncerRaises
<1>5. CASE Run(p) \notin hubClosed
  <2>1. Finish(p) /\ (hubClosed' = hubClosed \/ (job[p].target \in Terminal /\ hubClosed' = hubClosed \cup {Run(p)}))
    BY <1>5 DEF RecordOutcome
  <2>2. Moved(p) /\ pc'[p] \in Resting /\ Steady
    BY <1>1, <1>3, <2>1, Finishes DEF Steady
  <2>3. ASSUME NEW r \in Runs PROVE Sound(r)'
    BY <1>1, <1>2, <1>3, <2>1 DEF IInv, Sound, Ended, Knows, Announcing
  <2> QED
    BY <1>1, <2>2, <2>3, RestingStep DEF Moved
<1> QED
  BY <1>4, <1>5

\* The caller hands its Run to the background task, which is the new holder.
LEMMA SpawnTaskSafe ==
    ASSUME TInv, TInv', IInv, NEW c \in Callers, NEW mode \in {"direct", "prepare"},
           SpawnTask(c, mode)
    PROVE  IInv'
<1>1. /\ c \in Procs /\ c \notin Runs /\ pc[c] \in Holding /\ pc[c] \notin Resting
      /\ UNCHANGED <<repo, log, mem>> /\ "idle" \in Resting
  BY ProcessesDistinct DEF Procs, Holding, Resting, SpawnTask
<1>2. PICK r \in Runs : r = Run(c)
  BY <1>1, Serves
<1> DEFINE step == IF mode = "direct" THEN "load" ELSE "guard"
           new  == [NoJob EXCEPT !.run = r, !.mode = mode]
<1>3. /\ step \in Holding \ (Busy \cup {"apply_save"}) /\ step \notin Resting
      /\ new.run = r /\ new.snap = Absent
  BY DEF NoJob, Holding, Busy, Resting
<1>4. /\ pc' = [pc EXCEPT ![c] = "idle", ![r] = step]
      /\ job' = [job EXCEPT ![c] = NoJob, ![r] = new]
  BY <1>2 DEF SpawnTask
<1>5. r \in Procs /\ r # c
  BY <1>1 DEF Procs
<1> HIDE DEF step, new
<1>6. /\ pc'[c] = "idle" /\ pc'[r] = step /\ job'[r] = new
      /\ \A q \in Procs \ {c, r} : pc'[q] = pc[q] /\ job'[q] = job[q]
  BY <1>1, <1>4, <1>5 DEF TInv, TypeOK
<1>7. Steady /\ UNCHANGED <<stateLock, hubClosed, question>>
  BY <1>1, SameLog DEF Steady, mem
<1>8. ASSUME NEW q \in Procs \ {c, r} PROVE Local(q)'
  BY <1>6, <1>7, OthersLocal DEF Calm, Steady, IInv
<1>9. Local(r)'
  <2>1. Holds(c) /\ Signalled(c)
    BY <1>1 DEF IInv, Local
  <2>2. Run(r)' = r /\ Snap(r)' = Absent /\ Stored(r)' = repo[r] /\ Stored(c) = repo[r]
    BY <1>2, <1>3, <1>5, <1>6, <1>7 DEF Run, Snap, Stored, Steady
  <2>3. Fresh(r)'
    BY <1>2, <2>2 DEF Fresh, IInv, Sound, Absent, TInv, TypeOK, Record
  <2>4. Holds(r)' /\ Signalled(r)'
    BY <1>1, <1>2, <1>3, <1>6, <1>7, <2>1, <2>2, Phases DEF Holds, Signalled, Steady, Cancelling
  <2> QED
    BY <1>3, <1>6, <2>3, <2>4, Phases DEF Local, Locks, Applies, Knows, Cancelling, Announcing
<1>10. ASSUME NEW q \in Procs \ {c, r}, Run(q) = r, pc[q] \in Holding
       PROVE  Ended(r)
  BY <1>1, <1>2, <1>10, Phases DEF IInv, Apart
<1>11. ASSUME NEW q1 \in Procs, NEW q2 \in Procs PROVE Apart(q1, q2)'
  <2>1. SUFFICES ASSUME q1 # q2, pc'[q1] \notin Resting, pc'[q2] \notin Resting,
                        job'[q1].run = job'[q2].run
                 PROVE  /\ pc'[q1] \in Holding /\ pc'[q2] \in Holding => Ended(Run(q1))'
                        /\ ~(pc'[q1] \in Busy /\ pc'[q2] \in Busy)
    BY DEF Apart, Run
  <2>2. q1 # c /\ q2 # c
    BY <1>1, <1>6, <2>1
  <2>3. Ended(r)' = Ended(r) /\ (Run(q1)' = r => Ended(Run(q1))' = Ended(r))
    BY <1>7 DEF Ended, Steady
  <2>4. CASE q1 = r
    <3>1. q2 \in Procs \ {c, r} /\ Run(q2) = r /\ pc'[q2] = pc[q2] /\ Run(q1)' = r
      BY <1>3, <1>6, <2>1, <2>2, <2>4 DEF Run
    <3> QED
      BY <1>3, <1>6, <1>10, <2>3, <2>4, <3>1
  <2>5. CASE q2 = r
    <3>1. q1 \in Procs \ {c, r} /\ Run(q1) = r /\ pc'[q1] = pc[q1] /\ Run(q1)' = r
      BY <1>3, <1>6, <2>1, <2>2, <2>5 DEF Run
    <3> QED
      BY <1>3, <1>6, <1>10, <2>3, <2>5, <3>1
  <2>6. CASE q1 # r /\ q2 # r
    <3>1. Apart(q1, q2) /\ Run(q1)' = Run(q1) /\ Run(q2)' = Run(q2)
      BY <1>6, <2>2, <2>6 DEF IInv, Run
    <3>2. Run(q1) = Run(q2) /\ pc'[q1] = pc[q1] /\ pc'[q2] = pc[q2]
      BY <1>6, <2>1, <2>2, <2>6 DEF Run
    <3>3. Ended(Run(q1))' = Ended(Run(q1))
      BY <1>7, <3>1 DEF Ended, Steady
    <3> QED
      BY <2>1, <3>1, <3>2, <3>3 DEF Apart
  <2> QED
    BY <2>4, <2>5, <2>6
<1>12. ASSUME NEW q \in Procs PROVE Local(q)'
  <2>1. Local(c)'
    BY <1>1, <1>6 DEF Local
  <2> QED
    BY <1>8, <1>9, <2>1
<1> QED
  BY <1>7, <1>11, <1>12, SteadySound DEF IInv

\* A restart leaves no coroutine, no signal and no checkpoint.
LEMMA RestartSafe == TInv /\ IInv /\ Restart => IInv'
<1> SUFFICES ASSUME TInv, IInv, Restart PROVE IInv'
  OBVIOUS
<1>1. \A p \in Procs : pc'[p] \in Resting
  BY DEF Restart, Resting
<1>2. /\ UNCHANGED <<repo, Accepted>> /\ hubClosed' = {}
      /\ \A r \in Runs : question'[r] = 0
  BY SameLog DEF Restart
<1>3. \A r \in Runs : Sound(r)'
  BY <1>2 DEF IInv, Sound, Ended
<1> QED
  BY <1>1, <1>3 DEF IInv, Local, Apart

-----------------------------------------------------------------------------
(* The theorems. *)

LEMMA InitSafe == Init => IInv
<1> SUFFICES ASSUME Init PROVE IInv
  OBVIOUS
<1>1. \A p \in Procs : pc[p] \in Resting
  BY DEF Init, Resting
<1>2. Accepted = {}
  BY DEF Init, Accepted, Positions
<1>3. \A r \in Runs : Sound(r)
  BY <1>2 DEF Init, Sound, Absent
<1> QED
  BY <1>1, <1>3 DEF IInv, Local, Apart

\* The invariant is inductive relative to the types.
THEOREM InvariantPreserved == TInv /\ IInv /\ [Next]_vars => IInv'
<1> SUFFICES ASSUME TInv, IInv, [Next]_vars PROVE IInv'
  OBVIOUS
<1>1. TInv'
  BY TypePreserved
<1>2. ASSUME NEW c \in Callers, Request(c) PROVE IInv'
  BY <1>1, <1>2, LookupRequestSafe, LoadWaitingSafe, CancelLoadSafe DEF Request
<1>3. ASSUME NEW c \in Callers, CallerStep(c) PROVE IInv'
  BY <1>1, <1>3, InsertRunSafe, RecordCreatedSafe, QueueRunSafe, RecordQueuedSafe,
     SpawnTaskSafe, MatchCheckpointSafe, ResumeRunSafe, RecordResumedSafe,
     RecordCancelRequestSafe, CancelTrySafe, CancelReloadSafe, RecordCancelledSafe
     DEF CallerStep
<1>4. ASSUME NEW r \in Runs, TaskStep(r) PROVE IInv'
  BY <1>1, <1>4, PrepareGuardSafe, PrepareReturnsSafe, PrepareFailsSafe, PrepareLoadSafe,
     PrepareSaveSafe, PrepareCheckSafe, LoadQueuedSafe, SelectStrategySafe,
     RejectStrategySafe, RejectPayloadSafe, StartRunSafe, RecordStartedSafe, FailLoadSafe,
     FailStartSafe, SettleLoadSafe, SettleChargeSafe, SettleStartSafe,
     RecordSettleStartedSafe, SettleSpendSafe
     DEF TaskStep
<1>5. ASSUME NEW p \in Procs, GraphStep(p) PROVE IInv'
  BY <1>1, <1>5, GraphReturnsSafe, GraphRaisesSafe, ApplyLockSafe, ApplySaveSafe,
     RecordCheckpointSafe, RecordBudgetSafe, PublishResultSafe, RecordOutcomeSafe
     DEF GraphStep
<1>6. CASE UNCHANGED vars
  BY <1>6 DEF vars, IInv, Local, Fresh, Locks, Holds, Applies, Knows, Signalled, Sound,
              Apart, Ended, Stored, Run, Snap, Accepted, Positions
<1> QED
  BY <1>2, <1>3, <1>4, <1>5, <1>6, RestartSafe DEF Next

\* Every reachable state satisfies the types and the invariant.
THEOREM Invariance == Spec => [](TInv /\ IInv)
<1>1. Init => TInv /\ IInv
  BY TypeInitial, InitSafe
<1>2. TInv /\ IInv /\ [Next]_vars => (TInv /\ IInv)'
  BY TypePreserved, InvariantPreserved
<1> QED
  BY <1>1, <1>2, PTL DEF Spec

\* Never do two coroutines execute one Run or apply results to it at once,
\* whatever duplicate creates and resumes arrive (harness/service.py).
THEOREM ExecutesOnce == Spec => []SingleExecution
<1>1. TInv /\ IInv => SingleExecution
  BY DEF IInv, Apart, SingleExecution, Executing, Busy, Resting
<1> QED
  BY <1>1, Invariance, PTL

\* What _apply_graph_result reads under the lock is still stored when it saves.
THEOREM SnapshotCurrent == Spec => []LockedSnapshotCurrent
<1>1. TInv /\ IInv => LockedSnapshotCurrent
  BY DEF IInv, Local, Applies, Stored, LockedSnapshotCurrent, Resting
<1> QED
  BY <1>1, Invariance, PTL

-----------------------------------------------------------------------------
(***************************************************************************)
(* Part 3.  RunLifecycle implements RunContract: the statuses of the        *)
(* repository follow the status machine, and after a cancellation is on     *)
(* record no result overrides it, whatever the coroutines do and across     *)
(* restarts.                                                                *)
(***************************************************************************)

Abstract == [Contract!Next]_(Contract!cvars)

\* The status the abstract specification sees.
StatusOf == [r \in Runs |-> repo[r].status]

LEMMA Stutters ==
    ASSUME UNCHANGED <<repo, Accepted>>
    PROVE  Abstract
BY DEF Abstract, Contract!cvars

LEMMA EmitStutters ==
    ASSUME TInv, NEW p \in Procs, pc[p] \notin Resting,
           NEW e \in Event \ {"run_cancel_requested"}, Emit(p, e), UNCHANGED repo
    PROVE  Abstract
<1>1. Run(p) \in Runs
  BY Serves
<1> QED
  BY <1>1, EmitAccepted, Stutters

\* A save that keeps the status.
LEMMA SaveStutters ==
    ASSUME TInv, IInv, NEW p \in Procs, pc[p] \notin Resting, IsCurrent(p), NEW b,
           Save(p, Revised(p, Snap(p).status, b)), UNCHANGED log
    PROVE  Abstract
<1>1. Run(p) \in Runs /\ Snap(p) = repo[Run(p)]
  BY Serves, CurrentKnown
<1>2. /\ repo'[Run(p)].status = repo[Run(p)].status
      /\ \A r \in Runs \ {Run(p)} : repo'[r] = repo[r]
  BY <1>1 DEF Save, Revised, TInv, TypeOK
<1>3. UNCHANGED StatusOf
  BY <1>2 DEF StatusOf
<1> QED
  BY <1>3, SameLog DEF Abstract, Contract!cvars, StatusOf

\* A save that moves the status as an accepted cancellation allows.
LEMMA SaveMoves ==
    ASSUME TInv, IInv, NEW r \in Runs, NEW s \in Status, s \in Successors(repo[r].status),
           r \in Accepted => s \in {"queued", "running", "cancelled"},
           repo'[r].status = s, \A q \in Runs \ {r} : repo'[q] = repo[q], UNCHANGED log
    PROVE  Abstract
<1>1. StatusOf' = [StatusOf EXCEPT ![r] = s]
  BY DEF StatusOf
<1>2. Contract!Move(r, s)
  BY <1>1, SameLog DEF Contract!Move, StatusOf, Contract!Successors, Successors, Contract!Terminal, Contract!Waiting, Terminal, Waiting
<1> QED
  BY <1>2 DEF Abstract, Contract!Next, Contract!Status, Status, Contract!Waiting, Contract!Terminal, Waiting, Terminal

\* A successful compare-and-swap to a new status, by a coroutine that knows of
\* every accepted cancellation or only starts, queues or cancels its Run.
LEMMA SavesMove ==
    ASSUME TInv, IInv, NEW p \in Procs, pc[p] \notin Resting, NEW s \in Status, NEW b,
           Saves(p, s), Save(p, Revised(p, s, b)), UNCHANGED log,
           Run(p) \in Accepted => s \in {"queued", "running", "cancelled"}
    PROVE  Abstract
<1>1. Run(p) \in Runs /\ Snap(p) = repo[Run(p)]
  BY Serves, CurrentKnown DEF Saves
<1>2. /\ repo'[Run(p)].status = s
      /\ \A r \in Runs \ {Run(p)} : repo'[r] = repo[r]
  BY <1>1 DEF Save, Revised, TInv, TypeOK
<1> QED
  BY <1>1, <1>2, SaveMoves DEF Saves

LEMMA InsertRunRefines ==
    ASSUME TInv, IInv, NEW c \in Callers, InsertRun(c)
    PROVE  Abstract
<1>1. /\ c \in Procs /\ pc[c] \notin Resting /\ "created" \in Status /\ UNCHANGED log
  BY DEF InsertRun, Procs, Resting, Status
<1>2. Run(c) \in Runs
  BY <1>1, Serves
<1>3. CASE repo[Run(c)].status # "absent"
  BY <1>1, <1>3, SameLog, Stutters DEF InsertRun
<1>4. CASE repo[Run(c)].status = "absent"
  <2>1. repo[Run(c)] = Absent /\ Run(c) \notin Accepted
    BY <1>2, <1>4 DEF IInv, Sound
  <2>2. /\ repo'[Run(c)].status = "created"
        /\ \A q \in Runs \ {Run(c)} : repo'[q] = repo[q]
    BY <1>2, <1>4 DEF InsertRun, Save, Absent, TInv, TypeOK
  <2> QED
    BY <1>1, <1>2, <1>4, <2>1, <2>2, StatusFacts, SaveMoves
<1> QED
  BY <1>3, <1>4

\* An accepted cancellation is on record before the status changes.
LEMMA RecordCancelRequestRefines ==
    ASSUME TInv, IInv, NEW c \in Callers, RecordCancelRequest(c)
    PROVE  Abstract
<1>1. /\ c \in Procs /\ pc[c] \notin Resting /\ pc[c] \in Cancelling
      /\ Emit(c, "run_cancel_requested") /\ "run_cancel_requested" \in Event /\ UNCHANGED repo
  BY DEF RecordCancelRequest, Procs, Resting, Cancelling, Event
<1>2. Run(c) \in Runs /\ repo[Run(c)].status # "absent"
  BY <1>1, Serves DEF IInv, Local, Signalled, Stored
<1>3. Accepted' = Accepted \cup {Run(c)}
  BY <1>1, <1>2, EmitAccepted
<1>4. CASE Run(c) \in Accepted
  BY <1>1, <1>3, <1>4, Stutters
<1>5. CASE Run(c) \notin Accepted
  <2>1. Contract!Accept(Run(c))
    BY <1>1, <1>2, <1>3, <1>5 DEF Contract!Accept
  <2> QED
    BY <1>2, <2>1 DEF Abstract, Contract!Next
<1> QED
  BY <1>4, <1>5

\* Results are saved under the lock: a signal raised before it overrides them.
LEMMA ApplySaveRefines ==
    ASSUME TInv, IInv, NEW p \in Procs, ApplySave(p)
    PROVE  Abstract
<1>1. pc[p] = "apply_save" /\ pc[p] \notin Resting /\ pc[p] \in Holding /\ UNCHANGED log
  BY DEF ApplySave, Resting, Holding
<1>2. job[p].target \in Status /\ Applies(p) /\ Signalled(p)
  BY <1>1, KnownRecord DEF IInv, Local, Outcomes, Status, Waiting
<1>3. CASE ~Saves(p, job[p].target)
  BY <1>1, <1>3, SameLog, Stutters DEF ApplySave
<1>4. CASE Saves(p, job[p].target)
  <2>1. Save(p, Revised(p, job[p].target, Counted(p)))
    BY <1>4 DEF ApplySave
  <2>2. Run(p) \in Accepted => job[p].target = "cancelled"
    BY <1>1, <1>2 DEF Applies, Signalled
  <2> QED
    BY <1>1, <1>2, <1>4, <2>1, <2>2, SavesMove
<1> QED
  BY <1>3, <1>4

LEMMA QueueRunRefines ==
    ASSUME TInv, IInv, NEW c \in Callers, QueueRun(c)
    PROVE  Abstract
<1>1. c \in Procs /\ pc[c] \notin Resting /\ "queued" \in Status /\ UNCHANGED log
  BY DEF QueueRun, Procs, Resting, Status, Terminal
<1>2. CASE Saves(c, "queued")
  <2>1. Save(c, Revised(c, "queued", Snap(c).counted))
    BY <1>2 DEF QueueRun
  <2> QED
    BY <1>1, <1>2, <2>1, SavesMove
<1>3. CASE ~Saves(c, "queued")
  BY <1>1, <1>3, SameLog, Stutters DEF QueueRun
<1> QED
  BY <1>2, <1>3

LEMMA ResumeRunRefines ==
    ASSUME TInv, IInv, NEW c \in Callers, ResumeRun(c)
    PROVE  Abstract
<1>1. c \in Procs /\ pc[c] \notin Resting /\ "running" \in Status /\ UNCHANGED log
  BY DEF ResumeRun, Procs, Resting, Status, Terminal
<1>2. CASE Saves(c, "running")
  <2>1. Save(c, Revised(c, "running", Snap(c).counted))
    BY <1>2 DEF ResumeRun
  <2> QED
    BY <1>1, <1>2, <2>1, SavesMove
<1>3. CASE ~Saves(c, "running")
  BY <1>1, <1>3, SameLog, Stutters DEF ResumeRun
<1> QED
  BY <1>2, <1>3

LEMMA CancelTryRefines ==
    ASSUME TInv, IInv, NEW c \in Callers, CancelTry(c)
    PROVE  Abstract
<1>1. c \in Procs /\ pc[c] \notin Resting /\ "cancelled" \in Status /\ UNCHANGED log
  BY DEF CancelTry, Procs, Resting, Status, Terminal
<1>2. CASE Saves(c, "cancelled")
  <2>1. Save(c, Revised(c, "cancelled", Snap(c).counted))
    BY <1>2 DEF CancelTry
  <2> QED
    BY <1>1, <1>2, <2>1, SavesMove
<1>3. CASE ~Saves(c, "cancelled")
  BY <1>1, <1>3, SameLog, Stutters DEF CancelTry
<1> QED
  BY <1>2, <1>3

LEMMA StartRunRefines ==
    ASSUME TInv, IInv, NEW r \in Runs, StartRun(r)
    PROVE  Abstract
<1>1. r \in Procs /\ pc[r] \notin Resting /\ "running" \in Status /\ UNCHANGED log
  BY DEF StartRun, Procs, Resting, Status, Terminal
<1>2. CASE Saves(r, "running")
  <2>1. Save(r, Revised(r, "running", Snap(r).counted))
    BY <1>2 DEF StartRun
  <2> QED
    BY <1>1, <1>2, <2>1, SavesMove
<1>3. CASE ~Saves(r, "running")
  BY <1>1, <1>3, SameLog, Stutters DEF StartRun
<1> QED
  BY <1>2, <1>3

LEMMA FailStartRefines ==
    ASSUME TInv, IInv, NEW r \in Runs, FailStart(r)
    PROVE  Abstract
<1>1. r \in Procs /\ pc[r] \notin Resting /\ "running" \in Status /\ UNCHANGED log
  BY DEF FailStart, Procs, Resting, Status, Terminal
<1>2. CASE Saves(r, "running")
  <2>1. Save(r, Revised(r, "running", Snap(r).counted))
    BY <1>2 DEF FailStart
  <2> QED
    BY <1>1, <1>2, <2>1, SavesMove
<1>3. CASE ~Saves(r, "running")
  BY <1>1, <1>3, SameLog, Stutters DEF FailStart
<1> QED
  BY <1>2, <1>3

LEMMA SettleStartRefines ==
    ASSUME TInv, IInv, NEW r \in Runs, SettleStart(r)
    PROVE  Abstract
<1>1. r \in Procs /\ pc[r] \notin Resting /\ "running" \in Status /\ UNCHANGED log
  BY DEF SettleStart, Procs, Resting, Status, Terminal
<1>2. CASE Saves(r, "running")
  <2>1. Save(r, Revised(r, "running", Snap(r).counted))
    BY <1>2 DEF SettleStart
  <2> QED
    BY <1>1, <1>2, <2>1, SavesMove
<1>3. CASE ~Saves(r, "running")
  BY <1>1, <1>3, SameLog, Stutters DEF SettleStart
<1> QED
  BY <1>2, <1>3

LEMMA PrepareSaveRefines ==
    ASSUME TInv, IInv, NEW r \in Runs, PrepareSave(r)
    PROVE  Abstract
<1>1. r \in Procs /\ pc[r] \notin Resting /\ UNCHANGED log
  BY DEF PrepareSave, Procs, Resting
<1>2. \/ UNCHANGED repo
      \/ IsCurrent(r) /\ Save(r, Revised(r, Snap(r).status, TRUE))
  BY DEF PrepareSave
<1> QED
  BY <1>1, <1>2, SameLog, Stutters, SaveStutters

LEMMA SettleChargeRefines ==
    ASSUME TInv, IInv, NEW r \in Runs, SettleCharge(r)
    PROVE  Abstract
<1>1. r \in Procs /\ pc[r] \notin Resting /\ UNCHANGED log
  BY DEF SettleCharge, Procs, Resting
<1>2. \/ UNCHANGED repo
      \/ IsCurrent(r) /\ Save(r, Revised(r, Snap(r).status, TRUE))
  BY DEF SettleCharge
<1> QED
  BY <1>1, <1>2, SameLog, Stutters, SaveStutters

LEMMA SettleSpendRefines ==
    ASSUME TInv, IInv, NEW r \in Runs, SettleSpend(r)
    PROVE  Abstract
<1>1. r \in Procs /\ pc[r] \notin Resting /\ UNCHANGED log
  BY DEF SettleSpend, Procs, Resting
<1>2. \/ UNCHANGED repo
      \/ IsCurrent(r) /\ Save(r, Revised(r, Snap(r).status, TRUE))
  BY DEF SettleSpend
<1> QED
  BY <1>1, <1>2, SameLog, Stutters, SaveStutters

LEMMA PublishResultRefines ==
    ASSUME TInv, IInv, NEW p \in Procs, PublishResult(p)
    PROVE  Abstract
<1>1. pc[p] \notin Resting /\ UNCHANGED log
  BY DEF PublishResult, Procs, Resting
<1>2. \/ UNCHANGED repo
      \/ IsCurrent(p) /\ Save(p, Revised(p, Snap(p).status, Snap(p).counted))
  BY DEF PublishResult
<1> QED
  BY <1>1, <1>2, SameLog, Stutters, SaveStutters

LEMMA CallerRefines ==
    ASSUME TInv, IInv, NEW c \in Callers, CallerStep(c)
    PROVE  Abstract
<1>0. c \in Procs
  BY DEF Procs
<1>1. CASE InsertRun(c)
  BY <1>1, InsertRunRefines
<1>2. CASE RecordCreated(c)
  BY <1>0, <1>2, EmitStutters DEF RecordCreated, Event, Outcomes, Terminal, Resting
<1>3. CASE QueueRun(c)
  BY <1>3, QueueRunRefines
<1>4. CASE RecordQueued(c)
  BY <1>0, <1>4, EmitStutters DEF RecordQueued, Event, Outcomes, Terminal, Resting
<1>5. CASE \E mode \in {"direct", "prepare"} : SpawnTask(c, mode)
  BY <1>5, SameLog, Stutters DEF SpawnTask
<1>6. CASE MatchCheckpoint(c)
  BY <1>6, SameLog, Stutters DEF MatchCheckpoint, mem
<1>7. CASE ResumeRun(c)
  BY <1>7, ResumeRunRefines
<1>8. CASE RecordResumed(c)
  BY <1>0, <1>8, EmitStutters DEF RecordResumed, Event, Outcomes, Terminal, Resting
<1>9. CASE RecordCancelRequest(c)
  BY <1>9, RecordCancelRequestRefines
<1>10. CASE CancelTry(c)
  BY <1>10, CancelTryRefines
<1>11. CASE CancelReload(c)
  BY <1>11, SameLog, Stutters DEF CancelReload, mem
<1>12. CASE RecordCancelled(c)
  BY <1>0, <1>12, EmitStutters DEF RecordCancelled, Event, Outcomes, Terminal, Resting
<1> QED
  BY <1>1, <1>2, <1>3, <1>4, <1>5, <1>6, <1>7, <1>8, <1>9, <1>10, <1>11, <1>12 DEF CallerStep

LEMMA TaskRefines ==
    ASSUME TInv, IInv, NEW r \in Runs, TaskStep(r)
    PROVE  Abstract
<1>0. r \in Procs
  BY DEF Procs
<1>1. CASE PrepareGuard(r)
  BY <1>1, SameLog, Stutters DEF PrepareGuard, mem
<1>2. CASE PrepareReturns(r)
  BY <1>2, SameLog, Stutters DEF PrepareReturns, mem
<1>3. CASE PrepareFails(r)
  BY <1>3, SameLog, Stutters DEF PrepareFails, mem
<1>4. CASE PrepareLoad(r)
  BY <1>4, SameLog, Stutters DEF PrepareLoad, mem
<1>5. CASE PrepareSave(r)
  BY <1>5, PrepareSaveRefines
<1>6. CASE PrepareCheck(r)
  BY <1>6, SameLog, Stutters DEF PrepareCheck, mem
<1>7. CASE LoadQueued(r)
  BY <1>7, SameLog, Stutters DEF LoadQueued, mem
<1>8. CASE SelectStrategy(r)
  BY <1>0, <1>8, EmitStutters DEF SelectStrategy, Event, Outcomes, Terminal, Resting
<1>9. CASE RejectStrategy(r)
  BY <1>9, SameLog, Stutters DEF RejectStrategy, mem
<1>10. CASE RejectPayload(r)
  BY <1>10, SameLog, Stutters DEF RejectPayload, mem
<1>11. CASE StartRun(r)
  BY <1>11, StartRunRefines
<1>12. CASE RecordStarted(r)
  BY <1>0, <1>12, EmitStutters DEF RecordStarted, Event, Outcomes, Terminal, Resting
<1>13. CASE FailLoad(r)
  BY <1>13, SameLog, Stutters DEF FailLoad, mem
<1>14. CASE FailStart(r)
  BY <1>14, FailStartRefines
<1>15. CASE SettleLoad(r)
  BY <1>15, SameLog, Stutters DEF SettleLoad, mem
<1>16. CASE SettleCharge(r)
  BY <1>16, SettleChargeRefines
<1>17. CASE SettleStart(r)
  BY <1>17, SettleStartRefines
<1>18. CASE RecordSettleStarted(r)
  BY <1>0, <1>18, EmitStutters DEF RecordSettleStarted, Event, Outcomes, Terminal, Resting
<1>19. CASE SettleSpend(r)
  BY <1>19, SettleSpendRefines
<1> QED
  BY <1>1, <1>2, <1>3, <1>4, <1>5, <1>6, <1>7, <1>8, <1>9, <1>10, <1>11, <1>12, <1>13, <1>14, <1>15, <1>16, <1>17, <1>18, <1>19 DEF TaskStep

LEMMA GraphRefines ==
    ASSUME TInv, IInv, NEW p \in Procs, GraphStep(p)
    PROVE  Abstract
<1>1. CASE GraphReturns(p)
  BY <1>1, SameLog, Stutters DEF GraphReturns, mem
<1>2. CASE GraphRaises(p)
  BY <1>2, SameLog, Stutters DEF GraphRaises, mem
<1>3. CASE ApplyLock(p)
  BY <1>3, SameLog, Stutters DEF ApplyLock, mem
<1>4. CASE ApplySave(p)
  BY <1>4, ApplySaveRefines
<1>5. CASE RecordCheckpoint(p)
  BY <1>5, EmitStutters DEF RecordCheckpoint, Event, Outcomes, Terminal, Resting
<1>6. CASE RecordBudget(p)
  BY <1>6, EmitStutters DEF RecordBudget, Event, Outcomes, Terminal, Resting
<1>7. CASE PublishResult(p)
  BY <1>7, PublishResultRefines
<1>8. CASE RecordOutcome(p)
  <2>1. job[p].target \in Event \ {"run_cancel_requested"} /\ pc[p] \notin Resting
    BY <1>8, KnownRecord DEF RecordOutcome, Event, Outcomes, Terminal, Resting
  <2> QED
    BY <1>8, <2>1, EmitStutters DEF RecordOutcome
<1> QED
  BY <1>1, <1>2, <1>3, <1>4, <1>5, <1>6, <1>7, <1>8 DEF GraphStep

LEMMA NextRefines == TInv /\ IInv /\ [Next]_vars => Abstract
<1> SUFFICES ASSUME TInv, IInv, [Next]_vars PROVE Abstract
  OBVIOUS
<1>1. ASSUME NEW c \in Callers, Request(c) PROVE Abstract
  <2>1. UNCHANGED <<repo, log>>
    BY <1>1 DEF Request, LookupRequest, LoadWaiting, CancelLoad
  <2> QED
    BY <2>1, SameLog, Stutters
<1>2. CASE Restart
  BY <1>2, SameLog, Stutters DEF Restart
<1>3. CASE UNCHANGED vars
  BY <1>3, SameLog, Stutters DEF vars
<1> QED
  BY <1>1, <1>2, <1>3, CallerRefines, TaskRefines, GraphRefines DEF Next

\* The Harness keeps its contract: every status follows RUN_STATUS_TRANSITIONS and,
\* once a cancellation is accepted, the Run is only started or cancelled.
THEOREM ContractKept == Spec => KeepsContract
<1>1. Init => Contract!Init
  <2> SUFFICES ASSUME Init PROVE Contract!Init
    OBVIOUS
  <2>1. Accepted = {}
    BY DEF Init, Accepted, Positions
  <2>2. [r \in Runs |-> repo[r].status] = [r \in Runs |-> "absent"]
    BY DEF Init, Absent
  <2> QED
    BY <2>1, <2>2 DEF Contract!Init
<1>2. TInv /\ IInv /\ [Next]_vars => [Contract!Next]_(Contract!cvars)
  BY NextRefines DEF Abstract
<1> QED
  BY <1>1, <1>2, Invariance, PTL DEF Spec, KeepsContract, Contract!Spec

(***************************************************************************)
(* Part 4.  The invariant Course of RunHistory is inductive, relative to IInv:*)
(* the usage of the preparation is reported, a wait is resumed once.       *)
(*                                                                         *)
(* First where each action leads, in flat terms; then that the coroutine that*)
(* moves fits its new step; then that Course is kept, where Frame says what*)
(* the others may rely on.                                                 *)
(***************************************************************************)

(* Where an action leads, in flat terms. *)

\* p goes to step s with its Run, this record, target and charge.
Goes(p, s, rec, t, b) ==
    /\ Moved(p) /\ pc'[p] = s /\ job'[p].run = Run(p)
    /\ job'[p].snap = rec /\ job'[p].target = t /\ job'[p].charged = b

Onward(p, s)   == Goes(p, s, Snap(p), job[p].target, job[p].charged)
Ends(p)        == Moved(p) /\ pc'[p] \in Resting
GivesUp(p)     == Ends(p) \/ Goes(p, "settle_load", Snap(p), "failed", FALSE)
Raises(p)      ==
    \E s \in {"fail_load", "apply_lock"}, b \in BOOLEAN : Goes(p, s, Snap(p), "failed", b)

\* p saves the next version of its Run, which it knows.
Writes(p, s, b) ==
    /\ Snap(p) = repo[Run(p)] /\ repo'[Run(p)] = Revised(p, s, b)
    /\ \A r \in Runs \ {Run(p)} : repo'[r] = repo[r]

\* p only moves, and perhaps adds to the log, or takes or frees the lock.
Aside == UNCHANGED <<repo, question, asked, reported, prefix>>

LEMMA GoesOn ==
    ASSUME TInv, NEW p \in Procs, pc[p] \notin Resting, NEW s \in Step,
           Goto(p, s), UNCHANGED job
    PROVE  Onward(p, s)
BY GoesTo DEF Onward, Goes, Run, Snap

LEMMA SettlesFor ==
    ASSUME TInv, NEW p \in Procs, pc[p] \notin Resting,
           NEW t \in Outcomes, NEW b \in BOOLEAN, Settle(p, t, b)
    PROVE  Goes(p, "settle_load", Snap(p), t, b)
BY Settles DEF Goes

LEMMA SettlesOrEnds ==
    ASSUME TInv, NEW p \in Procs, pc[p] \notin Resting, SettleRaises(p)
    PROVE  GivesUp(p)
BY SettlesAgain DEF GivesUp, Ends, Goes

LEMMA RaisesTo ==
    ASSUME TInv, NEW p \in Procs, pc[p] \notin Resting, ApplyRaises(p)
    PROVE  Raises(p)
<1>1. job[p].charged \in BOOLEAN /\ FALSE \in BOOLEAN
  BY KnownRecord
<1>2. /\ Moved(p) /\ pc'[p] \in {"fail_load", "apply_lock"}
      /\ job'[p].run = Run(p) /\ job'[p].snap = Snap(p) /\ job'[p].target = "failed"
      /\ job'[p].charged = FALSE \/ job'[p].charged = job[p].charged
  BY RaisesToApply
<1>3. PICK s \in {"fail_load", "apply_lock"} : pc'[p] = s
  BY <1>2
<1>4. Goes(p, s, Snap(p), "failed", FALSE) \/ Goes(p, s, Snap(p), "failed", job[p].charged)
  BY <1>2, <1>3, Zenon DEF Goes
<1> QED
  BY <1>1, <1>3, <1>4, Zenon DEF Raises

LEMMA LoadsAnd ==
    ASSUME TInv, NEW p \in Procs, pc[p] \notin Resting, NEW s \in Step,
           NEW t \in Outcomes,
           \/ With(p, s, [job[p] EXCEPT !.snap = repo[Run(p)]]) /\ t = job[p].target
           \/ With(p, s, [job[p] EXCEPT !.snap = repo[Run(p)], !.target = t])
    PROVE  Goes(p, s, repo[Run(p)], t, job[p].charged)
<1> DEFINE j1 == [job[p] EXCEPT !.snap = repo[Run(p)]]
           j2 == [job[p] EXCEPT !.snap = repo[Run(p)], !.target = t]
<1>1. Run(p) \in Runs /\ (p \in Runs => Run(p) = p) /\ repo[Run(p)] \in Record
  BY Serves, KnownRecord
<1>2. /\ j1 \in Job /\ j1.run = Run(p) /\ j1.snap = repo[Run(p)] /\ j1.target = job[p].target
      /\ j2 \in Job /\ j2.run = Run(p) /\ j2.snap = repo[Run(p)] /\ j2.target = t
      /\ j1.charged = job[p].charged /\ j2.charged = job[p].charged
  BY <1>1, KnownRecord DEF Job, Run
<1>3. \/ With(p, s, j1) /\ t = job[p].target
      \/ With(p, s, j2)
  OBVIOUS
<1> HIDE DEF j1, j2
<1> QED
  BY <1>1, <1>2, <1>3, MoveTo DEF Goes

LEMMA Revises ==
    ASSUME TInv, IInv, NEW p \in Procs, pc[p] \notin Resting, IsCurrent(p), NEW s \in Step,
           NEW st \in Status, NEW b \in BOOLEAN, Save(p, Revised(p, st, b)),
           With(p, s, [job[p] EXCEPT !.snap = Revised(p, st, b)])
    PROVE  Writes(p, st, b) /\ Goes(p, s, Revised(p, st, b), job[p].target, job[p].charged)
BY CurrentKnown, Saved DEF Writes, Goes

\* Which statuses a move may come from.
LEMMA Follows ==
    \A s \in Status :
        /\ "queued" \in Successors(s) => s = "created"
        /\ "running" \in Successors(s) => s \in Waiting \cup {"queued"}
        /\ "cancelled" \in Successors(s) <=> s \notin Terminal \cup {"absent"}
        /\ s = "running" => Outcomes \subseteq Successors(s)
BY DEF Status, Waiting, Terminal, Outcomes, Successors

LEMMA RecordCreatedMoves ==
    ASSUME TInv, NEW c \in Callers, RecordCreated(c)
    PROVE  pc[c] = "created" /\ Onward(c, "queue") /\ Emit(c, "run_created") /\ Aside
<1>1. /\ c \in Procs /\ pc[c] \notin Resting
      /\ {"queue"} \subseteq Step
  BY DEF Procs, Resting, RecordCreated, Step
<1>2. Run(c) \in Runs
  BY <1>1, Serves
<1>3. Goto(c, "queue") /\ UNCHANGED job
  BY DEF RecordCreated
<1> QED
  BY <1>1, <1>2, <1>3, GoesOn DEF RecordCreated, Aside, mem, rest

LEMMA RecordQueuedMoves ==
    ASSUME TInv, NEW c \in Callers, RecordQueued(c)
    PROVE  pc[c] = "queued" /\ Onward(c, "spawn") /\ Emit(c, "run_queued") /\ Aside
<1>1. /\ c \in Procs /\ pc[c] \notin Resting
      /\ {"spawn"} \subseteq Step
  BY DEF Procs, Resting, RecordQueued, Step
<1>2. Run(c) \in Runs
  BY <1>1, Serves
<1>3. Goto(c, "spawn") /\ UNCHANGED job
  BY DEF RecordQueued
<1> QED
  BY <1>1, <1>2, <1>3, GoesOn DEF RecordQueued, Aside, mem, rest

LEMMA RecordResumedMoves ==
    ASSUME TInv, NEW c \in Callers, RecordResumed(c)
    PROVE  pc[c] = "resumed" /\ Onward(c, "graph") /\ Emit(c, "run_resumed") /\ Aside
<1>1. /\ c \in Procs /\ pc[c] \notin Resting
      /\ {"graph"} \subseteq Step
  BY DEF Procs, Resting, RecordResumed, Step
<1>2. Run(c) \in Runs
  BY <1>1, Serves
<1>3. Goto(c, "graph") /\ UNCHANGED job
  BY DEF RecordResumed
<1> QED
  BY <1>1, <1>2, <1>3, GoesOn DEF RecordResumed, Aside, mem, rest

LEMMA MatchCheckpointMoves ==
    ASSUME TInv, NEW c \in Callers, MatchCheckpoint(c)
    PROVE  /\ pc[c] = "match" /\ Aside /\ UNCHANGED log
           /\ Ends(c) \/ (Onward(c, "resume") /\ question[Run(c)] # 0)
<1>1. /\ c \in Procs /\ pc[c] \notin Resting
      /\ {"resume"} \subseteq Step
  BY DEF Procs, Resting, MatchCheckpoint, Step
<1>2. Run(c) \in Runs
  BY <1>1, Serves
<1>3. \/ Finish(c)
      \/ Goto(c, "resume") /\ UNCHANGED job /\ question[Run(c)] # 0
  BY DEF MatchCheckpoint
<1> QED
  BY <1>1, <1>2, <1>3, GoesOn, Finishes DEF MatchCheckpoint, Aside, mem, rest, Ends

LEMMA QueueRunMoves ==
    ASSUME TInv, IInv, NEW c \in Callers, QueueRun(c)
    PROVE  /\ pc[c] = "queue" /\ UNCHANGED <<log, question, asked, reported, prefix>>
           /\ \/ UNCHANGED repo /\ Ends(c)
              \/ /\ Writes(c, "queued", Snap(c).counted) /\ repo[Run(c)].status = "created"
                 /\ Goes(c, "queued", Revised(c, "queued", Snap(c).counted),
                         job[c].target, job[c].charged)
<1>1. /\ c \in Procs /\ pc[c] \notin Resting
      /\ {"queued"} \subseteq Step
  BY DEF Procs, Resting, QueueRun, Step
<1>2. Run(c) \in Runs
  BY <1>1, Serves
<1>3. Snap(c).counted \in BOOLEAN /\ Snap(c).status \in Status /\ "queued" \in Status
  BY <1>1, KnownRecord DEF Record, Status, Waiting
<1>4. CASE Saves(c, "queued")
  <2>1. /\ IsCurrent(c) /\ Save(c, Revised(c, "queued", Snap(c).counted))
        /\ With(c, "queued", [job[c] EXCEPT !.snap = Revised(c, "queued", Snap(c).counted)])
    BY <1>4 DEF QueueRun, Saves
  <2>2. /\ Writes(c, "queued", Snap(c).counted)
        /\ Goes(c, "queued", Revised(c, "queued", Snap(c).counted), job[c].target, job[c].charged)
    BY <1>1, <1>3, <2>1, Revises
  <2>3. repo[Run(c)].status = "created"
    BY <1>1, <1>3, <1>4, <2>1, CurrentKnown, Follows DEF Saves
  <2> QED
    BY <2>2, <2>3 DEF QueueRun, mem, rest
<1>5. CASE ~Saves(c, "queued")
  <2>1. UNCHANGED repo /\ Finish(c)
    BY <1>5 DEF QueueRun
  <2>2. Ends(c)
    BY <1>1, <2>1, Finishes DEF Ends
  <2> QED
    BY <1>5, <2>1, <2>2 DEF QueueRun, mem, rest
<1> QED
  BY <1>4, <1>5

LEMMA ResumeRunMoves ==
    ASSUME TInv, IInv, NEW c \in Callers, ResumeRun(c)
    PROVE  /\ pc[c] = "resume" /\ UNCHANGED <<log, question, asked, reported, prefix>>
           /\ \/ UNCHANGED repo /\ Ends(c)
              \/ /\ Writes(c, "running", Snap(c).counted) /\ repo[Run(c)].status = "waiting_input"
                 /\ Goes(c, "resumed", Revised(c, "running", Snap(c).counted),
                         job[c].target, job[c].charged)
<1>1. /\ c \in Procs /\ pc[c] \notin Resting
      /\ {"resumed"} \subseteq Step
  BY DEF Procs, Resting, ResumeRun, Step
<1>2. Run(c) \in Runs
  BY <1>1, Serves
<1>3. Snap(c).counted \in BOOLEAN /\ Snap(c).status \in Status /\ "running" \in Status
  BY <1>1, KnownRecord DEF Record, Status, Waiting
<1>4. CASE Saves(c, "running")
  <2>1. /\ IsCurrent(c) /\ Save(c, Revised(c, "running", Snap(c).counted))
        /\ With(c, "resumed", [job[c] EXCEPT !.snap = Revised(c, "running", Snap(c).counted)])
    BY <1>4 DEF ResumeRun, Saves
  <2>2. /\ Writes(c, "running", Snap(c).counted)
        /\ Goes(c, "resumed", Revised(c, "running", Snap(c).counted), job[c].target, job[c].charged)
    BY <1>1, <1>3, <2>1, Revises
  <2>3. repo[Run(c)].status = "waiting_input"
    BY <1>1, <1>3, <1>4, <2>1, CurrentKnown, Follows DEF Saves, IInv, Local, Knows, ResumeRun
  <2> QED
    BY <2>2, <2>3 DEF ResumeRun, mem, rest
<1>5. CASE ~Saves(c, "running")
  <2>1. UNCHANGED repo /\ Finish(c)
    BY <1>5 DEF ResumeRun
  <2>2. Ends(c)
    BY <1>1, <2>1, Finishes DEF Ends
  <2> QED
    BY <1>5, <2>1, <2>2 DEF ResumeRun, mem, rest
<1> QED
  BY <1>4, <1>5

LEMMA StartRunMoves ==
    ASSUME TInv, IInv, NEW r \in Runs, StartRun(r)
    PROVE  /\ pc[r] = "start" /\ UNCHANGED <<log, question, asked, reported, prefix>>
           /\ \/ UNCHANGED repo /\ Onward(r, "fail_load")
              \/ /\ Writes(r, "running", Snap(r).counted) /\ repo[Run(r)].status = "queued"
                 /\ Goes(r, "started", Revised(r, "running", Snap(r).counted),
                         job[r].target, job[r].charged)
<1>1. /\ r \in Procs /\ pc[r] \notin Resting
      /\ {"started", "fail_load"} \subseteq Step
  BY DEF Procs, Resting, StartRun, Step
<1>2. Run(r) \in Runs /\ Run(r) = r
  BY <1>1, Serves
<1>3. Snap(r).counted \in BOOLEAN /\ Snap(r).status \in Status /\ "running" \in Status
  BY <1>1, KnownRecord DEF Record, Status, Waiting
<1>4. CASE Saves(r, "running")
  <2>1. /\ IsCurrent(r) /\ Save(r, Revised(r, "running", Snap(r).counted))
        /\ With(r, "started", [job[r] EXCEPT !.snap = Revised(r, "running", Snap(r).counted)])
    BY <1>4 DEF StartRun, Saves
  <2>2. /\ Writes(r, "running", Snap(r).counted)
        /\ Goes(r, "started", Revised(r, "running", Snap(r).counted), job[r].target, job[r].charged)
    BY <1>1, <1>3, <2>1, Revises
  <2>3. repo[Run(r)].status = "queued"
    BY <1>1, <1>3, <1>4, <2>1, CurrentKnown, Follows DEF Saves, IInv, Local, Holds, Stored, Holding, StartRun
  <2> QED
    BY <2>2, <2>3 DEF StartRun, mem, rest
<1>5. CASE ~Saves(r, "running")
  <2>1. UNCHANGED repo /\ Goto(r, "fail_load") /\ UNCHANGED job
    BY <1>5 DEF StartRun
  <2>2. Onward(r, "fail_load")
    BY <1>1, <2>1, GoesOn DEF Ends
  <2> QED
    BY <1>5, <2>1, <2>2 DEF StartRun, mem, rest
<1> QED
  BY <1>4, <1>5

LEMMA FailStartMoves ==
    ASSUME TInv, IInv, NEW r \in Runs, FailStart(r)
    PROVE  /\ pc[r] = "fail_start" /\ UNCHANGED <<log, question, asked, reported, prefix>>
           /\ \/ UNCHANGED repo /\ Goes(r, "settle_load", Snap(r), "failed", FALSE)
              \/ /\ Writes(r, "running", Snap(r).counted) /\ repo[Run(r)].status = "queued"
                 /\ Goes(r, "apply_lock", Revised(r, "running", Snap(r).counted),
                         job[r].target, job[r].charged)
<1>1. /\ r \in Procs /\ pc[r] \notin Resting
      /\ {"apply_lock"} \subseteq Step
      /\ {"failed"} \subseteq Outcomes
  BY DEF Procs, Resting, FailStart, Step, Outcomes, Terminal
<1>2. Run(r) \in Runs /\ Run(r) = r
  BY <1>1, Serves
<1>3. Snap(r).counted \in BOOLEAN /\ Snap(r).status \in Status /\ "running" \in Status
  BY <1>1, KnownRecord DEF Record, Status, Waiting
<1>4. CASE Saves(r, "running")
  <2>1. /\ IsCurrent(r) /\ Save(r, Revised(r, "running", Snap(r).counted))
        /\ With(r, "apply_lock", [job[r] EXCEPT !.snap = Revised(r, "running", Snap(r).counted)])
    BY <1>4 DEF FailStart, Saves
  <2>2. /\ Writes(r, "running", Snap(r).counted)
        /\ Goes(r, "apply_lock", Revised(r, "running", Snap(r).counted), job[r].target, job[r].charged)
    BY <1>1, <1>3, <2>1, Revises
  <2>3. repo[Run(r)].status = "queued"
    BY <1>1, <1>3, <1>4, <2>1, CurrentKnown, Follows DEF Saves, IInv, Local, Holds, Stored, Holding, FailStart
  <2> QED
    BY <2>2, <2>3 DEF FailStart, mem, rest
<1>5. CASE ~Saves(r, "running")
  <2>1. UNCHANGED repo /\ Settle(r, "failed", FALSE)
    BY <1>5 DEF FailStart
  <2>2. Goes(r, "settle_load", Snap(r), "failed", FALSE)
    BY <1>1, <2>1, SettlesFor DEF Ends
  <2> QED
    BY <1>5, <2>1, <2>2 DEF FailStart, mem, rest
<1> QED
  BY <1>4, <1>5

LEMMA SettleStartMoves ==
    ASSUME TInv, IInv, NEW r \in Runs, SettleStart(r)
    PROVE  /\ pc[r] = "settle_start" /\ UNCHANGED <<log, question, asked, reported, prefix>>
           /\ \/ UNCHANGED repo /\ GivesUp(r) /\ ~Saves(r, "running")
              \/ /\ Writes(r, "running", Snap(r).counted) /\ repo[Run(r)].status = "queued"
                 /\ Goes(r, "settle_started", Revised(r, "running", Snap(r).counted),
                         job[r].target, job[r].charged)
<1>1. /\ r \in Procs /\ pc[r] \notin Resting
      /\ {"settle_started"} \subseteq Step
  BY DEF Procs, Resting, SettleStart, Step
<1>2. Run(r) \in Runs /\ Run(r) = r
  BY <1>1, Serves
<1>3. Snap(r).counted \in BOOLEAN /\ Snap(r).status \in Status /\ "running" \in Status
  BY <1>1, KnownRecord DEF Record, Status, Waiting
<1>4. CASE Saves(r, "running")
  <2>1. /\ IsCurrent(r) /\ Save(r, Revised(r, "running", Snap(r).counted))
        /\ With(r, "settle_started", [job[r] EXCEPT !.snap = Revised(r, "running", Snap(r).counted)])
    BY <1>4 DEF SettleStart, Saves
  <2>2. /\ Writes(r, "running", Snap(r).counted)
        /\ Goes(r, "settle_started", Revised(r, "running", Snap(r).counted), job[r].target, job[r].charged)
    BY <1>1, <1>3, <2>1, Revises
  <2>3. repo[Run(r)].status = "queued"
    BY <1>1, <1>3, <1>4, <2>1, CurrentKnown, Follows DEF Saves, IInv, Local, Holds, Stored, Holding, SettleStart
  <2> QED
    BY <2>2, <2>3 DEF SettleStart, mem, rest
<1>5. CASE ~Saves(r, "running")
  <2>1. UNCHANGED repo /\ SettleRaises(r)
    BY <1>5 DEF SettleStart
  <2>2. GivesUp(r)
    BY <1>1, <2>1, SettlesOrEnds DEF Ends
  <2> QED
    BY <1>5, <2>1, <2>2 DEF SettleStart, mem, rest
<1> QED
  BY <1>4, <1>5

LEMMA InsertRunMoves ==
    ASSUME TInv, NEW c \in Callers, InsertRun(c)
    PROVE  /\ pc[c] = "insert" /\ UNCHANGED <<log, question, asked, reported, prefix>>
           /\ \/ Ends(c) /\ UNCHANGED repo
              \/ /\ repo[Run(c)].status = "absent"
                 /\ repo'[Run(c)] = [Absent EXCEPT !.status = "created", !.version = 1]
                 /\ \A r \in Runs \ {Run(c)} : repo'[r] = repo[r]
                 /\ Moved(c) /\ pc'[c] = "created" /\ job'[c].run = Run(c)
<1>1. /\ c \in Procs /\ pc[c] \notin Resting
      /\ {"created"} \subseteq Step
  BY DEF Procs, Resting, InsertRun, Step
<1>2. Run(c) \in Runs
  BY <1>1, Serves
<1>3. CASE repo[Run(c)].status = "absent"
  <2> DEFINE new == [Absent EXCEPT !.status = "created", !.version = 1]
  <2>1. Save(c, new) /\ With(c, "created", [job[c] EXCEPT !.snap = new])
    BY <1>3 DEF InsertRun
  <2>2. new \in Record
    BY DEF Absent, Record, Status
  <2> HIDE DEF new
  <2> DEFINE j == [job[c] EXCEPT !.snap = new]
  <2>3. j \in Job /\ j.run = Run(c)
    BY <1>1, <2>2, KnownRecord DEF Job, Run
  <2>4. With(c, "created", j)
    BY <2>1
  <2> HIDE DEF j
  <2>5. Moved(c) /\ pc'[c] = "created" /\ job'[c] = j
    BY <1>1, <1>2, <2>3, <2>4, Serves, MoveTo
  <2>6. repo'[Run(c)] = new /\ \A r \in Runs \ {Run(c)} : repo'[r] = repo[r]
    BY <1>1, <1>2, <2>1, <2>2, SaveType
  <2> QED
    BY <1>3, <2>3, <2>5, <2>6 DEF InsertRun, mem, rest, new
<1>4. CASE repo[Run(c)].status # "absent"
  BY <1>1, <1>4, Finishes DEF InsertRun, Ends, mem, rest
<1> QED
  BY <1>3, <1>4

LEMMA RecordCancelRequestMoves ==
    ASSUME TInv, NEW c \in Callers, RecordCancelRequest(c)
    PROVE  /\ pc[c] = "cancel_mark" /\ Aside /\ Emit(c, "run_cancel_requested")
           /\ UNCHANGED cancelled
           /\ Ends(c) \/ (Onward(c, "cancel_try") /\ UNCHANGED <<job, stateLock>>)
<1>1. /\ c \in Procs /\ pc[c] \notin Resting
      /\ {"cancel_try"} \subseteq Step
  BY DEF Procs, Resting, RecordCancelRequest, Step
<1>2. Run(c) \in Runs
  BY <1>1, Serves
<1>3. \/ Finish(c)
      \/ Goto(c, "cancel_try") /\ UNCHANGED <<job, stateLock>>
  BY DEF RecordCancelRequest
<1> QED
  BY <1>1, <1>2, <1>3, GoesOn, Finishes DEF RecordCancelRequest, Aside, mem, rest, Ends

LEMMA CancelTryMoves ==
    ASSUME TInv, IInv, NEW c \in Callers, CancelTry(c)
    PROVE  /\ pc[c] = "cancel_try" /\ UNCHANGED <<log, question, asked, reported, prefix, cancelled, stateLock>>
           /\ \/ /\ Writes(c, "cancelled", Snap(c).counted) /\ ~Ended(Run(c))
                 /\ Goes(c, "cancel_record", Revised(c, "cancelled", Snap(c).counted),
                         job[c].target, job[c].charged)
              \/ /\ ~Saves(c, "cancelled") /\ UNCHANGED repo
                 /\ Moved(c) /\ pc'[c] = "cancel_reload" /\ job'[c].run = Run(c)
                 /\ job'[c].snap = Snap(c) /\ job'[c].tries = job[c].tries + 1
<1>1. /\ c \in Procs /\ pc[c] \notin Resting
      /\ {"cancel_record", "cancel_reload"} \subseteq Step
  BY DEF Procs, Resting, CancelTry, Step
<1>2. Run(c) \in Runs
  BY <1>1, Serves
<1>3. Snap(c).counted \in BOOLEAN /\ "cancelled" \in Status
  BY <1>1, KnownRecord DEF Record, Status, Terminal
<1>4. CASE Saves(c, "cancelled")
  <2>1. /\ IsCurrent(c) /\ Save(c, Revised(c, "cancelled", Snap(c).counted))
        /\ With(c, "cancel_record", [job[c] EXCEPT !.snap = Revised(c, "cancelled", Snap(c).counted)])
    BY <1>4 DEF CancelTry, Saves
  <2>2. ~Ended(Run(c))
    BY <1>1, <1>2, <1>4, CurrentKnown, KnownRecord, Follows DEF Saves, Record, Ended
  <2> QED
    BY <1>1, <1>3, <2>1, <2>2, Revises DEF CancelTry, mem, rest
<1>5. CASE ~Saves(c, "cancelled")
  <2> DEFINE j == [job[c] EXCEPT !.tries = @ + 1]
  <2>1. UNCHANGED repo /\ With(c, "cancel_reload", j)
    BY <1>5 DEF CancelTry
  <2>2. j \in Job /\ j.run = Run(c) /\ j.snap = Snap(c) /\ j.tries = job[c].tries + 1
    BY <1>1, KnownRecord DEF Job, Run, Snap
  <2> HIDE DEF j
  <2>3. Moved(c) /\ pc'[c] = "cancel_reload" /\ job'[c] = j
    BY <1>1, <1>2, <2>1, <2>2, Serves, MoveTo
  <2> QED
    BY <1>5, <2>1, <2>2, <2>3 DEF CancelTry, mem, rest
<1> QED
  BY <1>4, <1>5

LEMMA CancelReloadMoves ==
    ASSUME TInv, NEW c \in Callers, CancelReload(c)
    PROVE  /\ pc[c] = "cancel_reload" /\ Aside /\ UNCHANGED <<log, cancelled>>
           /\ \/ Ends(c)
              \/ /\ Moved(c) /\ pc'[c] = "cancel_try" /\ job'[c].run = Run(c) /\ ~Ended(Run(c))
                 /\ job'[c].snap = repo[Run(c)] /\ job'[c].tries = job[c].tries /\ UNCHANGED stateLock
<1>1. /\ c \in Procs /\ pc[c] \notin Resting
      /\ {"cancel_try"} \subseteq Step
  BY DEF Procs, Resting, CancelReload, Step
<1>2. Run(c) \in Runs
  BY <1>1, Serves
<1> DEFINE j == [job[c] EXCEPT !.snap = repo[Run(c)]]
<1>3. \/ Finish(c)
      \/ With(c, "cancel_try", j) /\ ~Ended(Run(c)) /\ UNCHANGED stateLock
  BY DEF CancelReload, Ended
<1>4. j \in Job /\ j.run = Run(c) /\ j.snap = repo[Run(c)] /\ j.tries = job[c].tries
  BY <1>1, <1>2, KnownRecord DEF Job, Run
<1> HIDE DEF j
<1>5. \/ Ends(c)
      \/ /\ Moved(c) /\ pc'[c] = "cancel_try" /\ job'[c] = j /\ ~Ended(Run(c)) /\ UNCHANGED stateLock
  BY <1>1, <1>2, <1>3, <1>4, Serves, Finishes, MoveTo DEF Ends
<1> QED
  BY <1>4, <1>5 DEF CancelReload, Aside, rest

LEMMA RecordCancelledMoves ==
    ASSUME TInv, NEW c \in Callers, RecordCancelled(c)
    PROVE  /\ pc[c] = "cancel_record" /\ Ends(c) /\ Emit(c, "cancelled")
           /\ UNCHANGED <<repo, question, asked, reported>> /\ prefix' = prefix \ {Run(c)}
<1>1. c \in Procs /\ pc[c] \notin Resting
  BY DEF Procs, Resting, RecordCancelled
<1>2. Run(c) \in Runs
  BY <1>1, Serves
<1>3. Finish(c)
  BY DEF RecordCancelled
<1> QED
  BY <1>1, <1>2, <1>3, Finishes DEF RecordCancelled, Aside, mem, rest, Ends

LEMMA PrepareGuardMoves ==
    ASSUME TInv, NEW r \in Runs, PrepareGuard(r)
    PROVE  /\ pc[r] = "guard" /\ Aside /\ UNCHANGED log
           /\ \/ \E t \in {"timed_out", "cancelled"} : Goes(r, "settle_load", Snap(r), t, FALSE)
              \/ Onward(r, "prepare") /\ r \notin cancelled
<1>1. /\ r \in Procs /\ pc[r] \notin Resting
      /\ {"prepare"} \subseteq Step
      /\ {"timed_out", "cancelled"} \subseteq Outcomes
  BY DEF Procs, Resting, PrepareGuard, Step, Outcomes, Terminal
<1>2. Run(r) \in Runs /\ Run(r) = r
  BY <1>1, Serves
<1>3. \/ \E t \in {"timed_out", "cancelled"} : Settle(r, t, FALSE)
      \/ r \notin cancelled /\ Goto(r, "prepare") /\ UNCHANGED job
  BY DEF PrepareGuard
<1> QED
  BY <1>1, <1>2, <1>3, GoesOn, SettlesFor DEF PrepareGuard, Aside, mem, rest

LEMMA PrepareReturnsMoves ==
    ASSUME TInv, NEW r \in Runs, PrepareReturns(r)
    PROVE  /\ pc[r] = "prepare" /\ Onward(r, "prep_load") /\ reported' = reported \cup {r}
           /\ UNCHANGED <<repo, log, question, asked, prefix>>
<1>1. /\ r \in Procs /\ pc[r] \notin Resting
      /\ {"prep_load"} \subseteq Step
  BY DEF Procs, Resting, PrepareReturns, Step
<1>2. Run(r) \in Runs /\ Run(r) = r
  BY <1>1, Serves
<1>3. Goto(r, "prep_load") /\ UNCHANGED job
  BY DEF PrepareReturns
<1> QED
  BY <1>1, <1>2, <1>3, GoesOn DEF PrepareReturns, Aside, mem, rest

LEMMA PrepareFailsMoves ==
    ASSUME TInv, NEW r \in Runs, PrepareFails(r)
    PROVE  /\ pc[r] = "prepare" /\ UNCHANGED <<repo, log, question, asked, prefix>>
           /\ \E t \in Outcomes \ {"waiting_input"}, b \in BOOLEAN :
                 /\ Goes(r, "settle_load", Snap(r), t, b)
                 /\ reported' = IF b THEN reported \cup {r} ELSE reported
<1>1. /\ r \in Procs /\ pc[r] \notin Resting
      /\ {"failed", "timed_out", "cancelled"} \subseteq Outcomes
  BY DEF Procs, Resting, PrepareFails, Outcomes, Terminal
<1>2. Run(r) \in Runs /\ Run(r) = r
  BY <1>1, Serves
<1>3. \E t \in {"failed", "timed_out", "cancelled"}, b \in BOOLEAN :
         /\ reported' = IF b THEN reported \cup {r} ELSE reported
         /\ Settle(r, t, b)
  BY DEF PrepareFails
<1> QED
  BY <1>1, <1>2, <1>3, SettlesFor DEF PrepareFails, Aside, mem, rest

LEMMA PrepareLoadMoves ==
    ASSUME TInv, NEW r \in Runs, PrepareLoad(r)
    PROVE  /\ pc[r] = "prep_load" /\ Aside /\ UNCHANGED log
           /\ \/ Goes(r, "prep_save", repo[Run(r)], job[r].target, job[r].charged)
              \/ Goes(r, "settle_load", Snap(r), "timed_out", TRUE)
<1>1. /\ r \in Procs /\ pc[r] \notin Resting
      /\ {"prep_save"} \subseteq Step
      /\ {"timed_out"} \subseteq Outcomes
  BY DEF Procs, Resting, PrepareLoad, Step, Outcomes, Terminal
<1>2. Run(r) \in Runs /\ Run(r) = r
  BY <1>1, Serves
<1>3. \/ With(r, "prep_save", [job[r] EXCEPT !.snap = repo[Run(r)]])
      \/ Settle(r, "timed_out", TRUE)
  BY <1>2 DEF PrepareLoad
<1> QED
  BY <1>1, <1>3, KnownRecord, LoadsAnd, SettlesFor DEF PrepareLoad, Aside, mem, rest

LEMMA PrepareSaveMoves ==
    ASSUME TInv, IInv, NEW r \in Runs, PrepareSave(r)
    PROVE  /\ pc[r] = "prep_save" /\ UNCHANGED <<log, question, asked, reported>>
           /\ \/ /\ ~IsCurrent(r) /\ UNCHANGED <<repo, prefix>>
                 /\ Goes(r, "settle_load", Snap(r), "failed", FALSE)
              \/ /\ Writes(r, Snap(r).status, TRUE) /\ prefix' = prefix \cup {r}
                 /\ Goes(r, "prep_check", Revised(r, Snap(r).status, TRUE),
                         job[r].target, job[r].charged)
<1>1. /\ r \in Procs /\ pc[r] \notin Resting
      /\ {"prep_check"} \subseteq Step
      /\ {"failed"} \subseteq Outcomes
  BY DEF Procs, Resting, PrepareSave, Step, Outcomes, Terminal
<1>2. Run(r) \in Runs /\ Run(r) = r
  BY <1>1, Serves
<1>3. Snap(r).status \in Status /\ TRUE \in BOOLEAN /\ FALSE \in BOOLEAN
  BY <1>1, KnownRecord DEF Record
<1>4. CASE IsCurrent(r)
  BY <1>1, <1>3, <1>4, Revises DEF PrepareSave, rest
<1>5. CASE ~IsCurrent(r)
  BY <1>1, <1>3, <1>5, SettlesFor DEF PrepareSave, rest
<1> QED
  BY <1>4, <1>5

LEMMA PrepareCheckMoves ==
    ASSUME TInv, NEW r \in Runs, PrepareCheck(r)
    PROVE  /\ pc[r] = "prep_check" /\ UNCHANGED <<repo, log, question, asked, reported>>
           /\ \/ /\ Ends(r) /\ prefix' = prefix \ {r}
                 /\ Snap(r).status = "cancelled" \/ r \in cancelled
              \/ Onward(r, "load") /\ UNCHANGED prefix /\ r \notin cancelled
<1>1. /\ r \in Procs /\ pc[r] \notin Resting
      /\ {"load"} \subseteq Step
  BY DEF Procs, Resting, PrepareCheck, Step
<1>2. Run(r) \in Runs /\ Run(r) = r
  BY <1>1, Serves
<1> DEFINE j == [job[r] EXCEPT !.mode = "execute"]
<1>3. \/ /\ Finish(r) /\ prefix' = prefix \ {r}
         /\ Snap(r).status = "cancelled" \/ r \in cancelled
      \/ With(r, "load", j) /\ UNCHANGED prefix /\ r \notin cancelled
  BY DEF PrepareCheck
<1>4. /\ j \in Job /\ j.run = Run(r) /\ j.snap = Snap(r)
      /\ j.target = job[r].target /\ j.charged = job[r].charged
  BY <1>1, KnownRecord DEF Job, Run, Snap
<1> HIDE DEF j
<1>5. /\ Finish(r) => Ends(r)
      /\ With(r, "load", j) => Moved(r) /\ pc'[r] = "load" /\ job'[r] = j
  BY <1>1, <1>2, <1>4, Finishes, MoveTo DEF Ends
<1> QED
  BY <1>3, <1>4, <1>5 DEF PrepareCheck, Onward, Goes, rest

LEMMA LoadQueuedMoves ==
    ASSUME TInv, NEW r \in Runs, LoadQueued(r)
    PROVE  /\ pc[r] = "load" /\ Aside /\ UNCHANGED log
           /\ Ends(r) \/ Goes(r, "select", repo[Run(r)], job[r].target, job[r].charged)
<1>1. /\ r \in Procs /\ pc[r] \notin Resting
      /\ {"select"} \subseteq Step
  BY DEF Procs, Resting, LoadQueued, Step
<1>2. Run(r) \in Runs /\ Run(r) = r
  BY <1>1, Serves
<1>3. \/ Finish(r)
      \/ With(r, "select", [job[r] EXCEPT !.snap = repo[Run(r)]])
  BY <1>2 DEF LoadQueued
<1> QED
  BY <1>1, <1>3, KnownRecord, LoadsAnd, Finishes DEF LoadQueued, Aside, Ends, mem, rest

LEMMA SelectStrategyMoves ==
    ASSUME TInv, NEW r \in Runs, SelectStrategy(r)
    PROVE  pc[r] = "select" /\ Onward(r, "start") /\ Emit(r, "strategy_selected") /\ Aside
<1>1. /\ r \in Procs /\ pc[r] \notin Resting
      /\ {"start"} \subseteq Step
  BY DEF Procs, Resting, SelectStrategy, Step
<1>2. Run(r) \in Runs /\ Run(r) = r
  BY <1>1, Serves
<1>3. Goto(r, "start") /\ UNCHANGED job
  BY DEF SelectStrategy
<1> QED
  BY <1>1, <1>2, <1>3, GoesOn DEF SelectStrategy, Aside, mem, rest

LEMMA RejectStrategyMoves ==
    ASSUME TInv, NEW r \in Runs, RejectStrategy(r)
    PROVE  /\ pc[r] = "select" /\ Aside /\ UNCHANGED log
           /\ Goes(r, "settle_load", Snap(r), "failed", FALSE)
<1>1. /\ r \in Procs /\ pc[r] \notin Resting
      /\ {"failed"} \subseteq Outcomes
  BY DEF Procs, Resting, RejectStrategy, Outcomes, Terminal
<1>2. Run(r) \in Runs /\ Run(r) = r
  BY <1>1, Serves
<1>3. Settle(r, "failed", FALSE)
  BY DEF RejectStrategy
<1> QED
  BY <1>1, <1>2, <1>3, SettlesFor DEF RejectStrategy, Aside, mem, rest

LEMMA RejectPayloadMoves ==
    ASSUME TInv, NEW r \in Runs, RejectPayload(r)
    PROVE  pc[r] = "start" /\ Onward(r, "fail_load") /\ UNCHANGED log /\ Aside
<1>1. /\ r \in Procs /\ pc[r] \notin Resting
      /\ {"fail_load"} \subseteq Step
  BY DEF Procs, Resting, RejectPayload, Step
<1>2. Run(r) \in Runs /\ Run(r) = r
  BY <1>1, Serves
<1>3. Goto(r, "fail_load") /\ UNCHANGED job
  BY DEF RejectPayload
<1> QED
  BY <1>1, <1>2, <1>3, GoesOn DEF RejectPayload, Aside, mem, rest

LEMMA RecordStartedMoves ==
    ASSUME TInv, NEW r \in Runs, RecordStarted(r)
    PROVE  /\ pc[r] = "started" /\ Aside /\ Emit(r, "run_started")
           /\ (Onward(r, "fail_load") /\ r \in hubClosed) \/ Onward(r, "graph")
<1>1. /\ r \in Procs /\ pc[r] \notin Resting
      /\ {"fail_load", "graph"} \subseteq Step
  BY DEF Procs, Resting, RecordStarted, Step
<1>2. Run(r) \in Runs /\ Run(r) = r
  BY <1>1, Serves
<1>3. \/ Goto(r, "fail_load") /\ UNCHANGED job /\ r \in hubClosed
      \/ Goto(r, "graph") /\ UNCHANGED job
  BY DEF RecordStarted
<1> QED
  BY <1>1, <1>2, <1>3, GoesOn DEF RecordStarted, Aside, mem, rest

LEMMA FailLoadMoves ==
    ASSUME TInv, NEW r \in Runs, FailLoad(r)
    PROVE  /\ pc[r] = "fail_load" /\ Aside /\ UNCHANGED log
           /\ \/ Ends(r) /\ Ended(Run(r))
              \/ /\ repo[Run(r)].status = "running"
                 /\ Goes(r, "apply_lock", repo[Run(r)], "failed", job[r].charged)
              \/ /\ repo[Run(r)].status \notin Terminal \cup {"running"}
                 /\ Goes(r, "fail_start", repo[Run(r)], "failed", job[r].charged)
<1>1. /\ r \in Procs /\ pc[r] \notin Resting
      /\ {"apply_lock", "fail_start"} \subseteq Step
      /\ {"failed"} \subseteq Outcomes
  BY DEF Procs, Resting, FailLoad, Step, Outcomes, Terminal
<1>2. Run(r) \in Runs /\ Run(r) = r
  BY <1>1, Serves
<1>3. \/ Finish(r) /\ Ended(Run(r))
      \/ /\ With(r, "apply_lock", [job[r] EXCEPT !.snap = repo[Run(r)], !.target = "failed"])
         /\ repo[Run(r)].status = "running"
      \/ /\ With(r, "fail_start", [job[r] EXCEPT !.snap = repo[Run(r)], !.target = "failed"])
         /\ repo[Run(r)].status \notin Terminal \cup {"running"}
  BY <1>2 DEF FailLoad, Ended
<1> QED
  BY <1>1, <1>3, LoadsAnd, Finishes DEF FailLoad, Aside, Ends, mem, rest

LEMMA SettleLoadMoves ==
    ASSUME TInv, NEW r \in Runs, SettleLoad(r)
    PROVE  /\ pc[r] = "settle_load" /\ Aside /\ UNCHANGED log
           /\ \/ Ends(r) /\ Ended(Run(r))
              \/ /\ Ended(Run(r))
                 /\ Goes(r, "settle_charge", repo[Run(r)], job[r].target, job[r].charged)
              \/ /\ repo[Run(r)].status \notin Terminal \cup {"running"}
                 /\ Goes(r, "settle_start", repo[Run(r)], job[r].target, job[r].charged)
              \/ /\ repo[Run(r)].status = "running" /\ job[r].charged
                 /\ Goes(r, "settle_spend", repo[Run(r)], job[r].target, job[r].charged)
              \/ /\ repo[Run(r)].status = "running"
                 /\ Goes(r, "apply_lock", repo[Run(r)], job[r].target, job[r].charged)
<1>1. /\ r \in Procs /\ pc[r] \notin Resting
      /\ {"settle_charge", "settle_start", "settle_spend", "apply_lock"} \subseteq Step
  BY DEF Procs, Resting, SettleLoad, Step
<1>2. Run(r) \in Runs /\ Run(r) = r
  BY <1>1, Serves
<1> DEFINE To(s) == With(r, s, [job[r] EXCEPT !.snap = repo[Run(r)]])
<1>3. \/ Finish(r) /\ Ended(Run(r))
      \/ Ended(Run(r)) /\ To("settle_charge")
      \/ repo[Run(r)].status \notin Terminal \cup {"running"} /\ To("settle_start")
      \/ repo[Run(r)].status = "running" /\ job[r].charged /\ To("settle_spend")
      \/ repo[Run(r)].status = "running" /\ To("apply_lock")
  BY <1>2 DEF SettleLoad, Ended, Terminal
<1> QED
  BY <1>1, <1>3, KnownRecord, LoadsAnd, Finishes DEF SettleLoad, Aside, Ends, mem, rest

LEMMA SettleChargeMoves ==
    ASSUME TInv, IInv, NEW r \in Runs, SettleCharge(r)
    PROVE  /\ pc[r] = "settle_charge" /\ Ends(r) /\ UNCHANGED <<log, question, asked, reported, prefix>>
           /\ UNCHANGED repo \/ Writes(r, Snap(r).status, TRUE)
<1>1. r \in Procs /\ pc[r] \notin Resting
  BY DEF Procs, Resting, SettleCharge
<1>2. Run(r) \in Runs /\ Run(r) = r
  BY <1>1, Serves
<1>3. Finish(r) /\ (UNCHANGED repo \/ (IsCurrent(r) /\ Save(r, Revised(r, Snap(r).status, TRUE))))
  BY DEF SettleCharge
<1>4. Revised(r, Snap(r).status, TRUE) \in Record
  BY <1>1, KnownRecord, RevisedType DEF Record
<1>5. UNCHANGED repo \/ Writes(r, Snap(r).status, TRUE)
  BY <1>1, <1>2, <1>3, <1>4, CurrentKnown, SaveType DEF Writes
<1> QED
  BY <1>1, <1>3, <1>5, Finishes DEF SettleCharge, Ends, mem, rest

LEMMA RecordSettleStartedMoves ==
    ASSUME TInv, NEW r \in Runs, RecordSettleStarted(r)
    PROVE  /\ pc[r] = "settle_started" /\ Aside /\ Emit(r, "run_started")
           /\ \/ GivesUp(r) /\ r \in hubClosed
              \/ Onward(r, "settle_spend") /\ job[r].charged
              \/ Onward(r, "apply_lock")
<1>1. /\ r \in Procs /\ pc[r] \notin Resting
      /\ {"settle_spend", "apply_lock"} \subseteq Step
  BY DEF Procs, Resting, RecordSettleStarted, Step
<1>2. Run(r) \in Runs /\ Run(r) = r
  BY <1>1, Serves
<1>3. \/ SettleRaises(r) /\ r \in hubClosed
      \/ Goto(r, "settle_spend") /\ UNCHANGED job /\ job[r].charged
      \/ Goto(r, "apply_lock") /\ UNCHANGED job
  BY DEF RecordSettleStarted
<1> QED
  BY <1>1, <1>2, <1>3, GoesOn, SettlesOrEnds DEF RecordSettleStarted, Aside, mem, rest

LEMMA SettleSpendMoves ==
    ASSUME TInv, IInv, NEW r \in Runs, SettleSpend(r)
    PROVE  /\ pc[r] = "settle_spend" /\ UNCHANGED <<log, question, asked, reported, prefix>>
           /\ \/ ~IsCurrent(r) /\ UNCHANGED repo /\ GivesUp(r)
              \/ /\ Writes(r, Snap(r).status, TRUE)
                 /\ \E t \in {job[r].target, "timed_out"} :
                       Goes(r, "apply_lock", Revised(r, Snap(r).status, TRUE), t, job[r].charged)
<1>1. /\ r \in Procs /\ pc[r] \notin Resting
      /\ {"apply_lock"} \subseteq Step
      /\ {"timed_out"} \subseteq Outcomes
  BY DEF Procs, Resting, SettleSpend, Step, Outcomes, Terminal
<1>2. Run(r) \in Runs /\ Run(r) = r
  BY <1>1, Serves
<1>3. Snap(r).status \in Status /\ job[r].target \in Outcomes
  BY <1>1, KnownRecord DEF Record
<1>4. CASE IsCurrent(r)
  <2> DEFINE rec == Revised(r, Snap(r).status, TRUE)
  <2>1. PICK t \in {job[r].target, "timed_out"} :
           Save(r, rec) /\ With(r, "apply_lock", [job[r] EXCEPT !.snap = rec, !.target = t])
    BY <1>4 DEF SettleSpend
  <2> DEFINE j == [job[r] EXCEPT !.snap = rec, !.target = t]
  <2>2. rec \in Record
    BY <1>1, <1>3, RevisedType
  <2> HIDE DEF rec
  <2>3. t \in Outcomes /\ With(r, "apply_lock", j)
    BY <1>1, <1>3, <2>1
  <2>4. j \in Job /\ j.run = Run(r) /\ j.snap = rec /\ j.target = t /\ j.charged = job[r].charged
    BY <1>1, <2>2, <2>3, KnownRecord DEF Job, Run
  <2> HIDE DEF j
  <2>5. Moved(r) /\ pc'[r] = "apply_lock" /\ job'[r] = j
    BY <1>1, <1>2, <2>3, <2>4, MoveTo
  <2>6. Goes(r, "apply_lock", rec, t, job[r].charged)
    BY <2>4, <2>5 DEF Goes
  <2>7. Snap(r) = repo[Run(r)] /\ repo'[Run(r)] = rec /\ \A s \in Runs \ {Run(r)} : repo'[s] = repo[s]
    BY <1>1, <1>2, <1>4, <2>1, <2>2, CurrentKnown, SaveType
  <2> QED
    BY <2>6, <2>7 DEF SettleSpend, Writes, mem, rest, rec
<1>5. CASE ~IsCurrent(r)
  BY <1>1, <1>5, SettlesOrEnds DEF SettleSpend, mem, rest
<1> QED
  BY <1>4, <1>5

LEMMA GraphReturnsMoves ==
    ASSUME TInv, NEW p \in Procs, GraphReturns(p)
    PROVE  /\ pc[p] = "graph" /\ UNCHANGED <<repo, log, asked, reported, prefix>>
           /\ \A r \in Runs \ {Run(p)} : question'[r] = question[r]
           /\ question'[Run(p)] \in {question[Run(p)], question[Run(p)] + 1}
           /\ \E t \in Outcomes :
                 /\ t = "waiting_input" => question'[Run(p)] = question[Run(p)] + 1
                 /\ Goes(p, "apply_lock", Snap(p), t, FALSE)
<1>1. /\ p \in Procs /\ pc[p] \notin Resting
      /\ {"apply_lock"} \subseteq Step
      /\ {"cancelled"} \subseteq Outcomes
  BY DEF Procs, Resting, GraphReturns, Step, Outcomes, Terminal
<1>2. Run(p) \in Runs
  BY <1>1, Serves
<1>3. PICK o \in Outcomes :
         /\ question' = IF o = "waiting_input" THEN [question EXCEPT ![Run(p)] = @ + 1] ELSE question
         /\ With(p, "apply_lock",
                 [job[p] EXCEPT !.target = IF Run(p) \in cancelled THEN "cancelled" ELSE o,
                                !.charged = FALSE])
  BY DEF GraphReturns
<1> DEFINE t == IF Run(p) \in cancelled THEN "cancelled" ELSE o
           j == [job[p] EXCEPT !.target = t, !.charged = FALSE]
<1>4. t \in Outcomes /\ (t = "waiting_input" => o = "waiting_input")
  BY <1>1
<1>5. With(p, "apply_lock", j)
  BY <1>3
<1> HIDE DEF t
<1>6. j \in Job /\ j.run = Run(p) /\ j.snap = Snap(p) /\ j.target = t /\ j.charged = FALSE
  BY <1>1, <1>4, KnownRecord DEF Job, Run, Snap
<1> HIDE DEF j
<1>7. Moved(p) /\ pc'[p] = "apply_lock" /\ job'[p] = j
  BY <1>1, <1>2, <1>5, <1>6, Serves, MoveTo
<1>8. Goes(p, "apply_lock", Snap(p), t, FALSE)
  BY <1>6, <1>7, Zenon DEF Goes
<1>9. /\ \A r \in Runs \ {Run(p)} : question'[r] = question[r]
      /\ question'[Run(p)] \in {question[Run(p)], question[Run(p)] + 1}
      /\ t = "waiting_input" => question'[Run(p)] = question[Run(p)] + 1
  BY <1>2, <1>3, <1>4 DEF TInv, TypeOK
<1> QED
  BY <1>4, <1>8, <1>9 DEF GraphReturns, rest

LEMMA GraphRaisesMoves ==
    ASSUME TInv, NEW p \in Procs, GraphRaises(p)
    PROVE  /\ pc[p] = "graph" /\ Aside /\ UNCHANGED log
           /\ Raises(p) \/ Goes(p, "settle_load", Snap(p), "failed", FALSE)
<1>1. /\ p \in Procs /\ pc[p] \notin Resting
      /\ {"failed"} \subseteq Outcomes
  BY DEF Procs, Resting, GraphRaises, Outcomes, Terminal
<1>2. Run(p) \in Runs
  BY <1>1, Serves
<1>3. ApplyRaises(p) \/ Settle(p, "failed", FALSE)
  BY DEF GraphRaises
<1> QED
  BY <1>1, <1>2, <1>3, RaisesTo, SettlesFor DEF GraphRaises, Aside, mem, rest

LEMMA ApplyLockMoves ==
    ASSUME TInv, NEW p \in Procs, ApplyLock(p)
    PROVE  /\ pc[p] = "apply_lock" /\ Aside /\ UNCHANGED log
           /\ \/ Ends(p) /\ Ended(Run(p))
              \/ /\ stateLock = None /\ ~Ended(Run(p))
                 /\ Goes(p, "apply_save", repo[Run(p)], Decided(p, job[p].target), job[p].charged)
<1>1. /\ p \in Procs /\ pc[p] \notin Resting
      /\ {"apply_save"} \subseteq Step
      /\ {"cancelled"} \subseteq Outcomes
  BY DEF Procs, Resting, ApplyLock, Step, Outcomes, Terminal
<1>2. Run(p) \in Runs
  BY <1>1, Serves
<1>3. Decided(p, job[p].target) \in Outcomes
  BY <1>1, KnownRecord DEF Decided
<1>4. \/ Finish(p) /\ Ended(Run(p))
      \/ /\ stateLock = None /\ ~Ended(Run(p))
         /\ With(p, "apply_save", [job[p] EXCEPT !.snap = repo[Run(p)],
                                                 !.target = Decided(p, job[p].target)])
  BY <1>1, KnownRecord DEF ApplyLock, LockFree, Ended, Job
<1> QED
  BY <1>1, <1>3, <1>4, LoadsAnd, Finishes DEF ApplyLock, Aside, Ends, rest

LEMMA ApplySaveMoves ==
    ASSUME TInv, IInv, NEW p \in Procs, ApplySave(p)
    PROVE  /\ pc[p] = "apply_save" /\ UNCHANGED <<log, question, reported, prefix>>
           /\ \/ UNCHANGED <<repo, asked>> /\ Raises(p) /\ ~Saves(p, job[p].target)
              \/ /\ Writes(p, job[p].target, Counted(p))
                 /\ Goes(p, "checkpoint", Revised(p, job[p].target, Counted(p)),
                         job[p].target, job[p].charged)
                 /\ job[p].target \in Successors(Snap(p).status)
                 /\ asked' = IF job[p].target = "waiting_input"
                               THEN [asked EXCEPT ![Run(p)] = question[Run(p)]] ELSE asked
<1>1. /\ p \in Procs /\ pc[p] \notin Resting
      /\ {"checkpoint"} \subseteq Step
  BY DEF Procs, Resting, ApplySave, Step
<1>2. Run(p) \in Runs
  BY <1>1, Serves
<1>3. /\ Counted(p) \in BOOLEAN /\ job[p].target \in Status
  BY <1>1, KnownRecord DEF Counted, Outcomes, Status, Waiting
<1>4. CASE Saves(p, job[p].target)
  BY <1>1, <1>3, <1>4, Revises DEF ApplySave, Saves
<1>5. CASE ~Saves(p, job[p].target)
  BY <1>1, <1>5, RaisesTo DEF ApplySave
<1> QED
  BY <1>4, <1>5

LEMMA RecordCheckpointMoves ==
    ASSUME TInv, NEW p \in Procs, RecordCheckpoint(p)
    PROVE  /\ pc[p] = "checkpoint" /\ Aside /\ Emit(p, "checkpoint_saved")
           /\ \E s \in {"budget", "result", "outcome"} : Onward(p, s)
<1>1. /\ p \in Procs /\ pc[p] \notin Resting
      /\ {"budget", "result", "outcome"} \subseteq Step
  BY DEF Procs, Resting, RecordCheckpoint, Step
<1>2. Run(p) \in Runs
  BY <1>1, Serves
<1>3. \E s \in {"budget", "result", "outcome"} : Goto(p, s) /\ UNCHANGED job
  BY DEF RecordCheckpoint
<1> QED
  BY <1>1, <1>2, <1>3, GoesOn DEF RecordCheckpoint, Aside, mem, rest

LEMMA RecordBudgetMoves ==
    ASSUME TInv, NEW p \in Procs, RecordBudget(p)
    PROVE  pc[p] = "budget" /\ Onward(p, "outcome") /\ Emit(p, "budget_exhausted") /\ Aside
<1>1. /\ p \in Procs /\ pc[p] \notin Resting
      /\ {"outcome"} \subseteq Step
  BY DEF Procs, Resting, RecordBudget, Step
<1>2. Run(p) \in Runs
  BY <1>1, Serves
<1>3. Goto(p, "outcome") /\ UNCHANGED job
  BY DEF RecordBudget
<1> QED
  BY <1>1, <1>2, <1>3, GoesOn DEF RecordBudget, Aside, mem, rest

LEMMA PublishResultMoves ==
    ASSUME TInv, IInv, NEW p \in Procs, PublishResult(p)
    PROVE  /\ pc[p] = "result" /\ UNCHANGED <<log, question, asked, reported, prefix>>
           /\ \/ UNCHANGED repo /\ (Onward(p, "outcome") \/ Raises(p))
              \/ /\ Writes(p, Snap(p).status, Snap(p).counted)
                 /\ Goes(p, "outcome", Revised(p, Snap(p).status, Snap(p).counted),
                         job[p].target, job[p].charged)
<1>1. /\ p \in Procs /\ pc[p] \notin Resting
      /\ {"outcome"} \subseteq Step
  BY DEF Procs, Resting, PublishResult, Step
<1>2. Run(p) \in Runs
  BY <1>1, Serves
<1>3. Snap(p).status \in Status /\ Snap(p).counted \in BOOLEAN
  BY <1>1, KnownRecord DEF Record
<1>4. \/ UNCHANGED <<repo, job>> /\ Goto(p, "outcome")
      \/ UNCHANGED repo /\ ApplyRaises(p)
      \/ /\ IsCurrent(p) /\ Save(p, Revised(p, Snap(p).status, Snap(p).counted))
         /\ With(p, "outcome", [job[p] EXCEPT !.snap = Revised(p, Snap(p).status, Snap(p).counted)])
  BY DEF PublishResult
<1> QED
  BY <1>1, <1>3, <1>4, GoesOn, RaisesTo, Revises DEF PublishResult, mem, rest

LEMMA RecordOutcomeMoves ==
    ASSUME TInv, NEW p \in Procs, RecordOutcome(p)
    PROVE  /\ pc[p] = "outcome" /\ Emit(p, job[p].target) /\ UNCHANGED <<repo, question, asked, reported>>
           /\ \/ /\ Ends(p) /\ Run(p) \notin hubClosed
                 /\ prefix' = IF job[p].target \in Terminal THEN prefix \ {Run(p)} ELSE prefix
                 /\ hubClosed' = IF job[p].target \in Terminal THEN hubClosed \cup {Run(p)} ELSE hubClosed
              \/ Raises(p) /\ Run(p) \in hubClosed /\ UNCHANGED <<prefix, hubClosed>>
<1>1. p \in Procs /\ pc[p] \notin Resting
  BY DEF Procs, Resting, RecordOutcome
<1>2. Run(p) \in Runs
  BY <1>1, Serves
<1> QED
  BY <1>1, RaisesTo, Finishes DEF RecordOutcome, Ends, rest

(* What the others may rely on when p takes a step for the Run r. *)
Frame(p, r) ==
    /\ Alone(p)
    /\ \A s \in Runs \ {r} :
          /\ repo'[s] = repo[s] /\ question'[s] = question[s] /\ asked'[s] = asked[s]
          /\ s \in prefix' <=> s \in prefix
          /\ s \in reported' <=> s \in reported
    /\ Ended(r) => repo'[r].status = repo[r].status
    /\ question[r] # 0 => question'[r] # 0
    /\ pc[p] \notin Holding =>
          /\ \/ repo'[r] = repo[r]
             \/ repo[r].status \in Waiting \cup {"absent"} \cup Terminal
             \/ repo'[r].status = "cancelled"
          /\ question'[r] = question[r] /\ asked'[r] = asked[r]
          /\ r \in reported' <=> r \in reported
          /\ Ended(r) \/ (r \in prefix' <=> r \in prefix)

LEMMA Steps ==
    /\ Before \cup Queued \cup Active \cup Unpaid \cup Withheld \cup Carried \cup Failing
         \cup {"settle_load", "apply_lock", "apply_save", "fail_load"} \subseteq Holding
    /\ {"prep_save", "settle_start", "settle_started", "settle_spend", "started", "resumed", "graph"}
         \subseteq Holding
    /\ "resume" \notin Holding
BY DEF Before, Queued, Active, Unpaid, Withheld, Carried, Failing, Holding

\* What Fits asks of those who hold no Run.
LEMMA NoHolderFits ==
    ASSUME NEW q \in Procs, pc[q] \notin Holding,
           pc[q] = "resume" => question[Run(q)] # 0
    PROVE  Fits(q)
BY Steps DEF Fits, Phase, Usage, Informed, Questions

LEMMA OthersFit ==
    ASSUME TInv, IInv, NEW p \in Procs, NEW r \in Runs, Frame(p, r),
           pc[p] \notin Resting => Run(p) = r,
           NEW q \in Procs \ {p}, pc[q] \notin Resting, Fits(q)
    PROVE  Fits(q)'
<1>1. /\ pc'[q] = pc[q] /\ job'[q] = job[q] /\ Run(q)' = Run(q) /\ Snap(q)' = Snap(q)
      /\ Run(q) \in Runs
  BY Serves DEF Frame, Alone, Run, Snap
<1>2. CASE pc[q] \notin Holding
  <2>1. pc[q] = "resume" => question'[Run(q)] # 0
    BY <1>1 DEF Fits, Questions, Frame, TInv, TypeOK
  <2> QED
    BY <1>1, <1>2, <2>1, Steps DEF Fits, Phase, Usage, Informed, Questions
<1>3. CASE pc[q] \in Holding
  <2>1. repo[Run(q)].status \notin Waiting \cup {"absent"}
    BY <1>3 DEF IInv, Local, Holds, Stored
  <2>2. CASE Run(q) # r
    BY <1>1, <2>2 DEF Fits, Phase, Usage, Informed, Questions, Frame, Stored, Ended, Counted
  <2>3. CASE Run(q) = r /\ Ended(r)
    <3>1. repo'[r].status = repo[r].status /\ Ended(r)'
      BY <2>3 DEF Frame, Ended
    <3> QED
      BY <1>1, <1>3, <2>3, <3>1, Steps DEF Fits, Phase, Usage, Informed, Questions, Stored
  <2>4. CASE Run(q) = r /\ ~Ended(r)
    <3>1. pc[p] \notin Holding
      BY <1>3, <2>4, Phases DEF IInv, Apart
    <3>2. \/ repo'[r] = repo[r]
          \/ repo'[r].status = "cancelled"
      BY <2>1, <2>4, <3>1 DEF Frame, Ended
    <3>3. /\ question'[r] = question[r] /\ asked'[r] = asked[r]
          /\ r \in reported' <=> r \in reported
          /\ r \in prefix' <=> r \in prefix
      BY <2>4, <3>1 DEF Frame
    <3>4. CASE repo'[r] = repo[r]
      BY <1>1, <2>4, <3>3, <3>4 DEF Fits, Phase, Usage, Informed, Questions, Stored, Ended, Counted
    <3>5. CASE repo'[r].status = "cancelled"
      <4>1. Ended(r)' /\ "cancelled" \in Terminal
        BY <3>5 DEF Ended, Terminal
      <4> QED
        BY <1>1, <1>3, <2>4, <3>5, <4>1, Steps DEF Fits, Phase, Usage, Informed, Questions, Stored
    <3> QED
      BY <3>2, <3>4, <3>5
  <2> QED
    BY <2>2, <2>3, <2>4
<1> QED
  BY <1>2, <1>3

(* Counting resumptions. *)

LEMMA PositionsFinite ==
    ASSUME TInv, NEW r \in Runs, NEW E
    PROVE  IsFiniteSet(Positions(r, E)) /\ Cardinality(Positions(r, E)) \in Nat
<1>1. log[r] \in Seq(Event) /\ Positions(r, E) \subseteq 1 .. Len(log[r]) /\ Len(log[r]) \in Nat
  BY DEF TInv, TypeOK, Positions
<1>2. IsFiniteSet(1 .. Len(log[r]))
  BY <1>1, FS_Interval
<1> QED
  BY <1>1, <1>2, FS_Subset, FS_CardinalityType

LEMMA ResumedNat ==
    ASSUME TInv, NEW r \in Runs
    PROVE  Resumed(r) \in Nat
BY PositionsFinite DEF Resumed

LEMMA EmitPositions ==
    ASSUME TInv, NEW p \in Procs, Run(p) \in Runs, NEW e \in Event, Emit(p, e),
           NEW r \in Runs, NEW E
    PROVE  Positions(r, E)' = IF r = Run(p) /\ e \in E
                                THEN Positions(r, E) \cup {Len(log[r]) + 1}
                                ELSE Positions(r, E)
<1>1. /\ log[r] \in Seq(Event) /\ Len(log[r]) \in Nat
      /\ log'[r] = IF r = Run(p) THEN Append(log[r], e) ELSE log[r]
  BY DEF TInv, TypeOK, Emit
<1>2. Positions(r, E)' = {i \in DOMAIN log'[r] : log'[r][i] \in E}
  BY DEF Positions
<1>3. CASE r # Run(p)
  BY <1>1, <1>2, <1>3 DEF Positions
<1>4. CASE r = Run(p)
  <2> DEFINE s == log[r]
  <2>1. /\ DOMAIN s = 1 .. Len(s) /\ Len(s) \in Nat
        /\ DOMAIN Append(s, e) = 1 .. Len(s) + 1
        /\ \A i \in 1 .. Len(s) : Append(s, e)[i] = s[i]
        /\ Append(s, e)[Len(s) + 1] = e
    BY <1>1
  <2>2. /\ Positions(r, E)' = {i \in DOMAIN Append(s, e) : Append(s, e)[i] \in E}
        /\ Positions(r, E) = {i \in DOMAIN s : s[i] \in E}
    BY <1>1, <1>2, <1>4 DEF Positions
  <2> HIDE DEF s
  <2> QED
    BY <1>4, <2>1, <2>2 DEF s
<1> QED
  BY <1>3, <1>4

LEMMA SamePositions ==
    ASSUME UNCHANGED log, NEW r \in Runs, NEW E
    PROVE  Positions(r, E)' = Positions(r, E)
BY DEF Positions

\* No resumption begins or is recorded.
LEMMA ResumedSame ==
    ASSUME NEW p \in Procs, Alone(p), NEW r \in Runs,
           Positions(r, {"run_resumed"})' = Positions(r, {"run_resumed"}),
           pc[p] = "resumed" /\ Run(p) = r <=> pc'[p] = "resumed" /\ job'[p].run = r
    PROVE  Resumed(r)' = Resumed(r)
<1>1. Resuming(r)' <=> Resuming(r)
  BY DEF Resuming, Alone, Run
<1> QED
  BY <1>1, Zenon DEF Resumed

(* Each action: the coroutine that moves fits its new step, or has ended. *)

\* It settles its Run, which waits in the queue or runs.
LEMMA SettlingFits ==
    ASSUME NEW p \in Procs, NEW t \in Outcomes \ {"waiting_input"}, NEW b \in BOOLEAN,
           Goes(p, "settle_load", Snap(p), t, b),
           repo'[Run(p)].status \in {"queued", "running", "cancelled"},
           Run(p) \in reported' /\ repo'[Run(p)].status \notin Terminal => Run(p) \in prefix' \/ b
    PROVE  Fits(p)'
<1>1. /\ Run(p)' = Run(p) /\ pc'[p] = "settle_load" /\ job'[p].target = t
      /\ Stored(p)' = repo'[Run(p)] /\ Ended(Run(p))' = (repo'[Run(p)].status \in Terminal)
      /\ Counted(p)' <=> Run(p) \in prefix' \/ job'[p].charged
  BY DEF Goes, Run, Stored, Ended, Counted
<1>2. b => job'[p].charged
  BY Zenon DEF Goes
<1>3. Run(p)' \in reported' /\ ~Ended(Run(p))' => Counted(p)'
  BY <1>1, <1>2, Zenon DEF Ended
<1> QED
  BY <1>1, <1>3 DEF Fits, Phase, Usage, Informed, Questions, Before, Queued, Active, Unpaid,
     Withheld, Carried, Failing

\* It goes on with the record it has just written.
LEMMA WritingFits ==
    ASSUME NEW p \in Procs, NEW s, NEW b, NEW to, NEW t, NEW c,
           Writes(p, s, b), Goes(p, to, Revised(p, s, b), t, c)
    PROVE  /\ Run(p)' = Run(p) /\ pc'[p] = to /\ job'[p].target = t /\ job'[p].charged = c
           /\ Snap(p)' = Stored(p)' /\ Stored(p)'.status = s /\ repo'[Run(p)].status = s
           /\ Ended(Run(p))' = (s \in Terminal)
           /\ Stored(p) = repo[Run(p)] /\ Snap(p) = repo[Run(p)]
BY DEF Writes, Goes, Revised, Run, Snap, Stored, Ended

\* A raised error of a Run that has ended.
LEMMA RaisingFits ==
    ASSUME NEW p \in Procs, Raises(p), Ended(Run(p)), repo'[Run(p)] = repo[Run(p)]
    PROVE  Fits(p)'
<1>1. /\ Run(p)' = Run(p) /\ pc'[p] \in {"fail_load", "apply_lock"} /\ Ended(Run(p))'
      /\ Stored(p)' = repo[Run(p)]
  BY DEF Raises, Goes, Run, Stored, Ended
<1> QED
  BY <1>1 DEF Fits, Phase, Usage, Informed, Questions, Before, Queued, Active, Ended, Carried, Failing

LEMMA RecordCreatedFits ==
    ASSUME TInv, IInv, NEW c \in Callers, Fits(c), Counts(Run(c)), RecordCreated(c)
    PROVE  pc'[c] \in Resting \/ Fits(c)'
<1>1. c \in Procs /\ pc[c] \notin Resting /\ Run(c) \in Runs
  BY Serves DEF Procs, Resting, RecordCreated
<1> QED
  BY <1>1, RecordCreatedMoves, SMTT(30) DEF Fits, Phase, Usage, Informed, Questions, Goes, Run, Snap, Stored, Ended, Counted, Before, Queued, Active, Unpaid, Withheld, Carried, Failing, Terminal, Aside, Onward, Ends

LEMMA RecordQueuedFits ==
    ASSUME TInv, IInv, NEW c \in Callers, Fits(c), Counts(Run(c)), RecordQueued(c)
    PROVE  pc'[c] \in Resting \/ Fits(c)'
<1>1. c \in Procs /\ pc[c] \notin Resting /\ Run(c) \in Runs
  BY Serves DEF Procs, Resting, RecordQueued
<1> QED
  BY <1>1, RecordQueuedMoves, SMTT(30) DEF Fits, Phase, Usage, Informed, Questions, Goes, Run, Snap, Stored, Ended, Counted, Before, Queued, Active, Unpaid, Withheld, Carried, Failing, Terminal, Aside, Onward, Ends

LEMMA RecordResumedFits ==
    ASSUME TInv, IInv, NEW c \in Callers, Fits(c), Counts(Run(c)), RecordResumed(c)
    PROVE  pc'[c] \in Resting \/ Fits(c)'
<1>1. c \in Procs /\ pc[c] \notin Resting /\ Run(c) \in Runs
  BY Serves DEF Procs, Resting, RecordResumed
<1> QED
  BY <1>1, RecordResumedMoves, SMTT(30) DEF Fits, Phase, Usage, Informed, Questions, Goes, Run, Snap, Stored, Ended, Counted, Before, Queued, Active, Unpaid, Withheld, Carried, Failing, Terminal, Aside, Onward, Ends

LEMMA MatchCheckpointFits ==
    ASSUME TInv, IInv, NEW c \in Callers, Fits(c), Counts(Run(c)), MatchCheckpoint(c)
    PROVE  pc'[c] \in Resting \/ Fits(c)'
<1>1. c \in Procs /\ pc[c] \notin Resting /\ Run(c) \in Runs
  BY Serves DEF Procs, Resting, MatchCheckpoint
<1> QED
  BY <1>1, MatchCheckpointMoves DEF Fits, Phase, Usage, Informed, Questions, Goes, Run, Snap, Stored, Ended, Counted, Before, Queued, Active, Unpaid, Withheld, Carried, Failing, Terminal, Aside, Onward, Ends

LEMMA RecordCancelRequestFits ==
    ASSUME TInv, IInv, NEW c \in Callers, Fits(c), Counts(Run(c)), RecordCancelRequest(c)
    PROVE  pc'[c] \in Resting \/ Fits(c)'
<1>1. c \in Procs /\ pc[c] \notin Resting /\ Run(c) \in Runs
  BY Serves DEF Procs, Resting, RecordCancelRequest
<1> QED
  BY <1>1, RecordCancelRequestMoves DEF Fits, Phase, Usage, Informed, Questions, Goes, Run, Snap, Stored, Ended, Counted, Before, Queued, Active, Unpaid, Withheld, Carried, Failing, Terminal, Aside, Onward, Ends

LEMMA CancelReloadFits ==
    ASSUME TInv, IInv, NEW c \in Callers, Fits(c), Counts(Run(c)), CancelReload(c)
    PROVE  pc'[c] \in Resting \/ Fits(c)'
<1>1. c \in Procs /\ pc[c] \notin Resting /\ Run(c) \in Runs
  BY Serves DEF Procs, Resting, CancelReload
<1> QED
  BY <1>1, CancelReloadMoves DEF Fits, Phase, Usage, Informed, Questions, Goes, Run, Snap, Stored, Ended, Counted, Before, Queued, Active, Unpaid, Withheld, Carried, Failing, Terminal, Aside, Onward, Ends

LEMMA InsertRunFits ==
    ASSUME TInv, IInv, NEW c \in Callers, Counts(Run(c)), InsertRun(c)
    PROVE  pc'[c] \in Resting \/ Fits(c)'
<1>1. CASE pc'[c] = "created"
  <2>1. /\ Run(c)' = Run(c) /\ Stored(c)' = repo'[Run(c)]
        /\ repo'[Run(c)] = [Absent EXCEPT !.status = "created", !.version = 1]
        /\ Run(c) \notin reported /\ UNCHANGED reported
    BY <1>1, InsertRunMoves DEF Run, Stored, Ends, Resting, Counts
  <2>2. Stored(c)'.status = "created"
    BY <2>1 DEF Absent
  <2> QED
    BY <1>1, <2>1, <2>2 DEF Fits, Phase, Usage, Informed, Questions, Before, Queued, Active, Carried, Failing
<1> QED
  BY <1>1, InsertRunMoves DEF Ends

LEMMA QueueRunFits ==
    ASSUME TInv, IInv, NEW c \in Callers, Fits(c), Counts(Run(c)), QueueRun(c)
    PROVE  pc'[c] \in Resting \/ Fits(c)'
<1>1. c \in Procs /\ pc[c] \notin Resting /\ Run(c) \in Runs
  BY Serves DEF Procs, Resting, QueueRun
<1> DEFINE W == /\ Writes(c, "queued", Snap(c).counted) /\ repo[Run(c)].status = "created"
                /\ Goes(c, "queued", Revised(c, "queued", Snap(c).counted), job[c].target, job[c].charged)
<1>2. CASE W
  <2>1. /\ Run(c)' = Run(c) /\ pc'[c] = "queued" /\ job'[c].target = job[c].target
        /\ job'[c].charged = job[c].charged /\ Snap(c)' = Stored(c)' /\ Stored(c)'.status = "queued"
        /\ Ended(Run(c))' = ("queued" \in Terminal)
    BY <1>1, <1>2, WritingFits
  <2>2. UNCHANGED <<question, asked, reported, prefix>> /\ pc[c] = "queue"
        /\ Stored(c).status = "created"
    BY <1>2, QueueRunMoves DEF Stored
  <2> QED
    BY <1>1, <2>1, <2>2 DEF Fits, Phase, Usage, Informed, Questions, Counted, Stored, Ended,
       Counts, TInv, TypeOK, Before, Queued, Active, Unpaid, Withheld, Carried, Failing, Terminal
<1>3. CASE Ends(c)
  BY <1>3 DEF Ends
<1> QED
  BY <1>2, <1>3, QueueRunMoves

LEMMA StartRunFits ==
    ASSUME TInv, IInv, NEW r \in Runs, Fits(r), Counts(Run(r)), StartRun(r)
    PROVE  pc'[r] \in Resting \/ Fits(r)'
<1>1. r \in Procs /\ pc[r] \notin Resting /\ Run(r) \in Runs /\ Run(r) = r
  BY Serves DEF Procs, Resting, StartRun
<1> DEFINE W == /\ Writes(r, "running", Snap(r).counted) /\ repo[Run(r)].status = "queued"
                /\ Goes(r, "started", Revised(r, "running", Snap(r).counted), job[r].target, job[r].charged)
<1>2. CASE W
  <2>1. /\ Run(r)' = Run(r) /\ pc'[r] = "started" /\ job'[r].target = job[r].target
        /\ job'[r].charged = job[r].charged /\ Snap(r)' = Stored(r)' /\ Stored(r)'.status = "running"
        /\ Ended(Run(r))' = ("running" \in Terminal)
    BY <1>1, <1>2, WritingFits
  <2>2. UNCHANGED <<question, asked, reported, prefix>> /\ pc[r] = "start"
        /\ Stored(r).status = "queued"
    BY <1>2, StartRunMoves DEF Stored
  <2> QED
    BY <1>1, <2>1, <2>2 DEF Fits, Phase, Usage, Informed, Questions, Counted, Stored, Ended,
       Counts, TInv, TypeOK, Before, Queued, Active, Unpaid, Withheld, Carried, Failing, Terminal
<1>3. CASE UNCHANGED repo /\ Onward(r, "fail_load")
  BY <1>1, <1>3, StartRunMoves DEF Onward, Fits, Phase, Usage, Informed, Questions, Goes, Run, Snap, Stored, Ended, Counted, Before, Queued, Active, Unpaid, Withheld, Carried, Failing, Terminal
<1> QED
  BY <1>2, <1>3, StartRunMoves

LEMMA FailStartFits ==
    ASSUME TInv, IInv, NEW r \in Runs, Fits(r), Counts(Run(r)), FailStart(r)
    PROVE  pc'[r] \in Resting \/ Fits(r)'
<1>1. r \in Procs /\ pc[r] \notin Resting /\ Run(r) \in Runs /\ Run(r) = r
  BY Serves DEF Procs, Resting, FailStart
<1> DEFINE W == /\ Writes(r, "running", Snap(r).counted) /\ repo[Run(r)].status = "queued"
                /\ Goes(r, "apply_lock", Revised(r, "running", Snap(r).counted), job[r].target, job[r].charged)
<1>2. CASE W
  <2>1. /\ Run(r)' = Run(r) /\ pc'[r] = "apply_lock" /\ job'[r].target = job[r].target
        /\ job'[r].charged = job[r].charged /\ Snap(r)' = Stored(r)' /\ Stored(r)'.status = "running"
        /\ Ended(Run(r))' = ("running" \in Terminal)
    BY <1>1, <1>2, WritingFits
  <2>2. UNCHANGED <<question, asked, reported, prefix>> /\ pc[r] = "fail_start"
        /\ Stored(r).status = "queued"
    BY <1>2, FailStartMoves DEF Stored
  <2> QED
    BY <1>1, <2>1, <2>2 DEF Fits, Phase, Usage, Informed, Questions, Counted, Stored, Ended,
       Counts, TInv, TypeOK, Before, Queued, Active, Unpaid, Withheld, Carried, Failing, Terminal
<1>3. CASE UNCHANGED repo /\ Goes(r, "settle_load", Snap(r), "failed", FALSE)
  <2>1. /\ repo'[Run(r)].status \in {"queued", "running", "cancelled"} /\ pc[r] = "fail_start"
        /\ "failed" \in Outcomes \ {"waiting_input"} /\ FALSE \in BOOLEAN
        /\ Run(r) \in reported' /\ repo'[Run(r)].status \notin Terminal => Run(r) \in prefix'
    BY <1>1, <1>3, FailStartMoves DEF Outcomes, Fits, Phase, Usage, Queued, Withheld, Stored, Ended, Terminal
  <2> QED
    BY <1>1, <1>3, <2>1, SettlingFits
<1> QED
  BY <1>2, <1>3, FailStartMoves

LEMMA SettleStartFits ==
    ASSUME TInv, IInv, NEW r \in Runs, Fits(r), Counts(Run(r)), SettleStart(r)
    PROVE  pc'[r] \in Resting \/ Fits(r)'
<1>1. r \in Procs /\ pc[r] \notin Resting /\ Run(r) \in Runs /\ Run(r) = r
  BY Serves DEF Procs, Resting, SettleStart
<1> DEFINE W == /\ Writes(r, "running", Snap(r).counted) /\ repo[Run(r)].status = "queued"
                /\ Goes(r, "settle_started", Revised(r, "running", Snap(r).counted), job[r].target, job[r].charged)
<1>2. CASE W
  <2>1. /\ Run(r)' = Run(r) /\ pc'[r] = "settle_started" /\ job'[r].target = job[r].target
        /\ job'[r].charged = job[r].charged /\ Snap(r)' = Stored(r)' /\ Stored(r)'.status = "running"
        /\ Ended(Run(r))' = ("running" \in Terminal)
    BY <1>1, <1>2, WritingFits
  <2>2. UNCHANGED <<question, asked, reported, prefix>> /\ pc[r] = "settle_start"
        /\ Stored(r).status = "queued"
    BY <1>2, SettleStartMoves DEF Stored
  <2> QED
    BY <1>1, <2>1, <2>2 DEF Fits, Phase, Usage, Informed, Questions, Counted, Stored, Ended,
       Counts, TInv, TypeOK, Before, Queued, Active, Unpaid, Withheld, Carried, Failing, Terminal
<1>3. CASE UNCHANGED repo /\ GivesUp(r) /\ ~Saves(r, "running")
  <2>1. /\ repo'[Run(r)].status \in {"queued", "cancelled"} /\ pc[r] = "settle_start"
        /\ "failed" \in Outcomes \ {"waiting_input"} /\ FALSE \in BOOLEAN
    BY <1>1, <1>3, SettleStartMoves DEF Outcomes, Fits, Phase, Queued, Stored, Terminal
  <2>2. Ended(Run(r))
    BY <1>3, <2>1 DEF Fits, Informed, Saves, IsCurrent, Successors, Ended, Terminal, Stored, Waiting
  <2>3. repo'[Run(r)].status \in Terminal
    BY <1>1, <1>3, <2>2 DEF Ended
  <2> QED
    BY <1>1, <1>3, <2>1, <2>3, SettlingFits DEF GivesUp, Ends
<1> QED
  BY <1>2, <1>3, SettleStartMoves

LEMMA RecordSettleStartedFits ==
    ASSUME TInv, IInv, NEW r \in Runs, Fits(r), Counts(Run(r)), RecordSettleStarted(r)
    PROVE  pc'[r] \in Resting \/ Fits(r)'
<1>1. r \in Procs /\ pc[r] \notin Resting /\ Run(r) \in Runs /\ Run(r) = r
  BY Serves DEF Procs, Resting, RecordSettleStarted
<1>2. CASE Onward(r, "settle_spend") \/ Onward(r, "apply_lock")
  BY <1>1, <1>2, RecordSettleStartedMoves, SMTT(30) DEF Aside, Onward, Fits, Phase, Usage, Informed, Questions, Goes, Run, Snap, Stored, Ended, Counted, Before, Queued, Active, Unpaid, Withheld, Carried, Failing, Terminal
<1>3. CASE GivesUp(r) /\ r \in hubClosed
  <2>1. /\ repo'[Run(r)].status \in {"running", "cancelled"} /\ repo'[Run(r)].status \in Terminal
        /\ "failed" \in Outcomes \ {"waiting_input"} /\ FALSE \in BOOLEAN
    BY <1>1, <1>3, RecordSettleStartedMoves DEF Outcomes, Fits, Phase, Informed, Active, Stored, Terminal, Ended, IsCurrent, Aside, IInv, Sound
  <2> QED
    BY <1>1, <1>3, <2>1, SettlingFits DEF GivesUp, Ends
<1> QED
  BY <1>2, <1>3, RecordSettleStartedMoves

LEMMA SettleSpendFits ==
    ASSUME TInv, IInv, NEW r \in Runs, Fits(r), Counts(Run(r)), SettleSpend(r)
    PROVE  pc'[r] \in Resting \/ Fits(r)'
<1>1. r \in Procs /\ pc[r] \notin Resting /\ Run(r) \in Runs /\ Run(r) = r
  BY Serves DEF Procs, Resting, SettleSpend
<1>2. CASE Writes(r, Snap(r).status, TRUE)
  <2>1. PICK t \in {job[r].target, "timed_out"} :
           Goes(r, "apply_lock", Revised(r, Snap(r).status, TRUE), t, job[r].charged)
    BY <1>1, <1>2, SettleSpendMoves, CurrentKnown DEF Writes, IsCurrent
  <2>2. /\ Run(r)' = Run(r) /\ pc'[r] = "apply_lock" /\ job'[r].target = t
        /\ job'[r].charged = job[r].charged /\ Stored(r)'.status = Stored(r).status
        /\ Ended(Run(r))' = Ended(Run(r))
    BY <1>1, <1>2, <2>1 DEF Writes, Goes, Revised, Run, Snap, Stored, Ended
  <2>3. UNCHANGED <<question, asked, reported, prefix>> /\ pc[r] = "settle_spend"
    BY SettleSpendMoves
  <2> QED
    BY <1>1, <2>2, <2>3 DEF Fits, Phase, Usage, Informed, Questions, Counted, Stored, Ended,
       Before, Queued, Active, Unpaid, Withheld, Carried, Failing, Terminal
<1>3. CASE ~IsCurrent(r) /\ UNCHANGED repo /\ GivesUp(r)
  <2>1. /\ repo'[Run(r)].status \in {"running", "cancelled"} /\ repo'[Run(r)].status \in Terminal
        /\ "failed" \in Outcomes \ {"waiting_input"} /\ FALSE \in BOOLEAN
    BY <1>1, <1>3, SettleSpendMoves DEF Outcomes, Fits, Phase, Informed, Active, Stored, Terminal, Ended, IsCurrent
  <2> QED
    BY <1>1, <1>3, <2>1, SettlingFits DEF GivesUp, Ends
<1> QED
  BY <1>2, <1>3, SettleSpendMoves

LEMMA PrepareGuardFits ==
    ASSUME TInv, IInv, NEW r \in Runs, Fits(r), Counts(Run(r)), PrepareGuard(r)
    PROVE  pc'[r] \in Resting \/ Fits(r)'
<1>1. r \in Procs /\ pc[r] \notin Resting /\ Run(r) \in Runs /\ Run(r) = r
  BY Serves DEF Procs, Resting, PrepareGuard
<1>2. CASE \E t \in {"timed_out", "cancelled"} : Goes(r, "settle_load", Snap(r), t, FALSE)
  <2>1. PICK t \in {"timed_out", "cancelled"} : Goes(r, "settle_load", Snap(r), t, FALSE)
    BY <1>2
  <2>2. /\ repo'[Run(r)].status \in {"queued", "running", "cancelled"} /\ pc[r] = "guard"
        /\ t \in Outcomes \ {"waiting_input"} /\ FALSE \in BOOLEAN
    BY <1>1, <2>1, PrepareGuardMoves DEF Outcomes, Terminal, Fits, Phase, Queued, Stored, Aside
  <2>3. Run(r) \in reported' /\ repo'[Run(r)].status \notin Terminal => Run(r) \in prefix'
    BY <1>1, <2>1, <2>2, PrepareGuardMoves DEF Fits, Usage, Unpaid, Withheld, Ended, Stored, Aside
  <2> QED
    BY <1>1, <2>1, <2>2, <2>3, SettlingFits
<1>3. CASE Onward(r, "prepare")
  <2>1. pc[r] = "guard" /\ Aside
    BY PrepareGuardMoves
  <2> QED
    BY <1>1, <1>3, <2>1 DEF Aside, Onward, Fits, Phase, Usage, Informed, Questions, Goes, Run, Snap, Stored, Ended, Counted, Before, Queued, Active, Unpaid, Withheld, Carried, Failing, Terminal
<1> QED
  BY <1>2, <1>3, PrepareGuardMoves

LEMMA PrepareFailsFits ==
    ASSUME TInv, IInv, NEW r \in Runs, Fits(r), Counts(Run(r)), PrepareFails(r)
    PROVE  pc'[r] \in Resting \/ Fits(r)'
<1>1. r \in Procs /\ pc[r] \notin Resting /\ Run(r) \in Runs /\ Run(r) = r
  BY Serves DEF Procs, Resting, PrepareFails
<1>2. PICK t \in Outcomes \ {"waiting_input"}, b \in BOOLEAN :
         /\ Goes(r, "settle_load", Snap(r), t, b)
         /\ reported' = IF b THEN reported \cup {r} ELSE reported
  BY PrepareFailsMoves
<1>3. /\ repo'[Run(r)].status \in {"queued", "running", "cancelled"} /\ pc[r] = "prepare"
      /\ repo'[Run(r)] = repo[Run(r)]
  BY <1>1, PrepareFailsMoves DEF Fits, Phase, Queued, Stored
<1>4. Run(r) \in reported' /\ repo'[Run(r)].status \notin Terminal => b
  BY <1>1, <1>2, <1>3 DEF Fits, Usage, Unpaid, Ended
<1> QED
  BY <1>1, <1>2, <1>3, <1>4, SettlingFits

LEMMA PrepareSaveFits ==
    ASSUME TInv, IInv, NEW r \in Runs, Fits(r), Counts(Run(r)), PrepareSave(r)
    PROVE  pc'[r] \in Resting \/ Fits(r)'
<1>1. r \in Procs /\ pc[r] \notin Resting /\ Run(r) \in Runs /\ Run(r) = r
  BY Serves DEF Procs, Resting, PrepareSave
<1>2. CASE Goes(r, "settle_load", Snap(r), "failed", FALSE) /\ ~IsCurrent(r) /\ UNCHANGED repo
  <2>1. /\ repo'[Run(r)].status \in {"queued", "running", "cancelled"} /\ repo'[Run(r)].status \in Terminal
        /\ "failed" \in Outcomes \ {"waiting_input"} /\ FALSE \in BOOLEAN
    BY <1>1, <1>2, PrepareSaveMoves DEF Outcomes, Terminal, Fits, Phase, Informed, Queued, Stored, Ended, IsCurrent
  <2> QED
    BY <1>1, <1>2, <2>1, SettlingFits
<1>3. CASE /\ Writes(r, Snap(r).status, TRUE)
           /\ Goes(r, "prep_check", Revised(r, Snap(r).status, TRUE), job[r].target, job[r].charged)
           /\ prefix' = prefix \cup {r}
  <2>1. /\ Run(r)' = Run(r) /\ pc'[r] = "prep_check" /\ Stored(r)'.status = Stored(r).status
    BY <1>1, <1>3 DEF Writes, Goes, Revised, Run, Snap, Stored
  <2>2. pc[r] = "prep_save"
    BY PrepareSaveMoves
  <2> QED
    BY <1>1, <1>3, <2>1, <2>2 DEF Fits, Phase, Usage, Informed, Questions, Counted, Stored, Ended,
       Before, Queued, Active, Unpaid, Withheld, Carried, Failing
<1> QED
  BY <1>2, <1>3, PrepareSaveMoves

LEMMA RejectStrategyFits ==
    ASSUME TInv, IInv, NEW r \in Runs, Fits(r), Counts(Run(r)), RejectStrategy(r)
    PROVE  pc'[r] \in Resting \/ Fits(r)'
<1>1. r \in Procs /\ pc[r] \notin Resting /\ Run(r) \in Runs /\ Run(r) = r
  BY Serves DEF Procs, Resting, RejectStrategy
<1>2. CASE \E t \in {"failed"} : Goes(r, "settle_load", Snap(r), t, FALSE)
  <2>1. PICK t \in {"failed"} : Goes(r, "settle_load", Snap(r), t, FALSE)
    BY <1>2
  <2>2. /\ repo'[Run(r)].status \in {"queued", "running", "cancelled"} /\ pc[r] = "select"
        /\ t \in Outcomes \ {"waiting_input"} /\ FALSE \in BOOLEAN
    BY <1>1, <2>1, RejectStrategyMoves DEF Outcomes, Terminal, Fits, Phase, Queued, Stored, Aside
  <2>3. Run(r) \in reported' /\ repo'[Run(r)].status \notin Terminal => Run(r) \in prefix'
    BY <1>1, <2>1, <2>2, RejectStrategyMoves DEF Fits, Usage, Unpaid, Withheld, Ended, Stored, Aside
  <2> QED
    BY <1>1, <2>1, <2>2, <2>3, SettlingFits
<1> QED
  BY <1>2, RejectStrategyMoves

LEMMA GraphReturnsFits ==
    ASSUME TInv, IInv, NEW p \in Procs, Fits(p), Counts(Run(p)), GraphReturns(p)
    PROVE  pc'[p] \in Resting \/ Fits(p)'
<1>1. p \in Procs /\ pc[p] \notin Resting /\ Run(p) \in Runs
  BY Serves DEF Procs, Resting, GraphReturns
<1>2. PICK t \in Outcomes :
         /\ t = "waiting_input" => question'[Run(p)] = question[Run(p)] + 1
         /\ Goes(p, "apply_lock", Snap(p), t, FALSE)
  BY GraphReturnsMoves
<1>3. /\ UNCHANGED <<repo, asked, reported, prefix>> /\ pc[p] = "graph"
      /\ Run(p)' = Run(p) /\ pc'[p] = "apply_lock" /\ job'[p].target = t /\ Stored(p)' = Stored(p)
      /\ question[Run(p)] \in Nat /\ asked[Run(p)] \in Nat
  BY <1>1, <1>2, GraphReturnsMoves DEF Goes, Run, Stored, TInv, TypeOK
<1>4. t = "waiting_input" /\ ~Ended(Run(p)) => asked[Run(p)] < question'[Run(p)]
  BY <1>2, <1>3 DEF Fits, Questions
<1> QED
  BY <1>1, <1>3, <1>4 DEF Fits, Phase, Usage, Informed, Questions, Stored, Ended, Counted,
     Before, Queued, Active, Unpaid, Withheld, Carried, Failing, Terminal

LEMMA GraphRaisesFits ==
    ASSUME TInv, IInv, NEW p \in Procs, Fits(p), Counts(Run(p)), GraphRaises(p)
    PROVE  pc'[p] \in Resting \/ Fits(p)'
<1>1. p \in Procs /\ pc[p] \notin Resting /\ Run(p) \in Runs
  BY Serves DEF Procs, Resting, GraphRaises
<1>2. /\ UNCHANGED <<repo, asked, reported, prefix, question>> /\ pc[p] = "graph"
      /\ repo[Run(p)].status \in {"running", "cancelled"}
      /\ Run(p) \in reported /\ ~Ended(Run(p)) => Run(p) \in prefix
  BY <1>1, GraphRaisesMoves DEF Aside, Fits, Phase, Usage, Active, Withheld, Stored
<1>3. CASE Raises(p)
  <2>1. /\ Run(p)' = Run(p) /\ pc'[p] \in {"fail_load", "apply_lock"} /\ job'[p].target = "failed"
        /\ Stored(p)' = Stored(p)
    BY <1>2, <1>3 DEF Raises, Goes, Run, Stored
  <2> QED
    BY <1>2, <2>1 DEF Fits, Phase, Usage, Informed, Questions, Stored, Ended, Counted,
       Before, Queued, Active, Unpaid, Withheld, Carried, Failing, Terminal
<1>4. CASE Goes(p, "settle_load", Snap(p), "failed", FALSE)
  <2>1. "failed" \in Outcomes \ {"waiting_input"} /\ FALSE \in BOOLEAN
    BY DEF Outcomes, Terminal
  <2> QED
    BY <1>1, <1>2, <1>4, <2>1, SettlingFits DEF Ended
<1> QED
  BY <1>3, <1>4, GraphRaisesMoves

LEMMA ApplySaveFits ==
    ASSUME TInv, IInv, NEW p \in Procs, Fits(p), Counts(Run(p)), ApplySave(p)
    PROVE  pc'[p] \in Resting \/ Fits(p)'
<1>1. p \in Procs /\ pc[p] \notin Resting /\ Run(p) \in Runs
  BY Serves DEF Procs, Resting, ApplySave
<1>2. /\ Snap(p) = repo[Run(p)] /\ ~Ended(Run(p)) /\ repo[Run(p)].status = "running"
      /\ job[p].target \in Outcomes
  BY <1>1, ApplySaveMoves, KnownRecord DEF IInv, Local, Applies, Stored, Fits, Phase, Ended
<1>3. Saves(p, job[p].target)
  BY <1>1, <1>2, Follows, KnownRecord DEF Saves, IsCurrent, Record
<1>4. pc'[p] = "checkpoint"
  BY <1>3, ApplySaveMoves DEF Goes
<1> QED
  BY <1>4 DEF Fits, Phase, Usage, Informed, Questions, Before, Queued, Active, Unpaid, Withheld, Carried, Failing

LEMMA CancelTryFits ==
    ASSUME TInv, IInv, NEW c \in Callers, Fits(c), Counts(Run(c)), CancelTry(c)
    PROVE  pc'[c] \in Resting \/ Fits(c)'
<1>1. c \in Procs /\ pc[c] \notin Resting /\ Run(c) \in Runs
  BY Serves DEF Procs, Resting, CancelTry
<1> QED
  BY <1>1, CancelTryMoves DEF Fits, Phase, Usage, Informed, Questions, Goes, Run, Snap, Stored, Ended, Counted, Before, Queued, Active, Unpaid, Withheld, Carried, Failing, Terminal, Ends, Writes, Revised

LEMMA PrepareReturnsFits ==
    ASSUME TInv, IInv, NEW r \in Runs, Fits(r), Counts(Run(r)), PrepareReturns(r)
    PROVE  pc'[r] \in Resting \/ Fits(r)'
<1>1. r \in Procs /\ pc[r] \notin Resting /\ Run(r) \in Runs /\ Run(r) = r
  BY Serves DEF Procs, Resting, PrepareReturns
<1> QED
  BY <1>1, PrepareReturnsMoves DEF Fits, Phase, Usage, Informed, Questions, Goes, Run, Snap, Stored, Ended, Counted, Before, Queued, Active, Unpaid, Withheld, Carried, Failing, Terminal, Aside, Onward, Ends

LEMMA PrepareLoadFits ==
    ASSUME TInv, IInv, NEW r \in Runs, Fits(r), Counts(Run(r)), PrepareLoad(r)
    PROVE  pc'[r] \in Resting \/ Fits(r)'
<1>1. r \in Procs /\ pc[r] \notin Resting /\ Run(r) \in Runs /\ Run(r) = r
  BY Serves DEF Procs, Resting, PrepareLoad
<1> QED
  BY <1>1, PrepareLoadMoves, ZenonT(40) DEF Fits, Phase, Usage, Informed, Questions, Goes, Run, Snap, Stored, Ended, Counted, Before, Queued, Active, Unpaid, Withheld, Carried, Failing, Terminal, Aside, Onward, Ends

LEMMA PrepareCheckFits ==
    ASSUME TInv, IInv, NEW r \in Runs, Fits(r), Counts(Run(r)), PrepareCheck(r)
    PROVE  pc'[r] \in Resting \/ Fits(r)'
<1>1. r \in Procs /\ pc[r] \notin Resting /\ Run(r) \in Runs /\ Run(r) = r
  BY Serves DEF Procs, Resting, PrepareCheck
<1> QED
  BY <1>1, PrepareCheckMoves, SMTT(30) DEF Fits, Phase, Usage, Informed, Questions, Goes, Run, Snap, Stored, Ended, Counted, Before, Queued, Active, Unpaid, Withheld, Carried, Failing, Terminal, Aside, Onward, Ends

LEMMA LoadQueuedFits ==
    ASSUME TInv, IInv, NEW r \in Runs, Fits(r), Counts(Run(r)), LoadQueued(r)
    PROVE  pc'[r] \in Resting \/ Fits(r)'
<1>1. r \in Procs /\ pc[r] \notin Resting /\ Run(r) \in Runs /\ Run(r) = r
  BY Serves DEF Procs, Resting, LoadQueued
<1> QED
  BY <1>1, LoadQueuedMoves, SMTT(30) DEF Fits, Phase, Usage, Informed, Questions, Goes, Run, Snap, Stored, Ended, Counted, Before, Queued, Active, Unpaid, Withheld, Carried, Failing, Terminal, Aside, Onward, Ends

LEMMA SelectStrategyFits ==
    ASSUME TInv, IInv, NEW r \in Runs, Fits(r), Counts(Run(r)), SelectStrategy(r)
    PROVE  pc'[r] \in Resting \/ Fits(r)'
<1>1. r \in Procs /\ pc[r] \notin Resting /\ Run(r) \in Runs /\ Run(r) = r
  BY Serves DEF Procs, Resting, SelectStrategy
<1> QED
  BY <1>1, SelectStrategyMoves, SMTT(30) DEF Fits, Phase, Usage, Informed, Questions, Goes, Run, Snap, Stored, Ended, Counted, Before, Queued, Active, Unpaid, Withheld, Carried, Failing, Terminal, Aside, Onward, Ends

LEMMA RejectPayloadFits ==
    ASSUME TInv, IInv, NEW r \in Runs, Fits(r), Counts(Run(r)), RejectPayload(r)
    PROVE  pc'[r] \in Resting \/ Fits(r)'
<1>1. r \in Procs /\ pc[r] \notin Resting /\ Run(r) \in Runs /\ Run(r) = r
  BY Serves DEF Procs, Resting, RejectPayload
<1> QED
  BY <1>1, RejectPayloadMoves, SMTT(30) DEF Fits, Phase, Usage, Informed, Questions, Goes, Run, Snap, Stored, Ended, Counted, Before, Queued, Active, Unpaid, Withheld, Carried, Failing, Terminal, Aside, Onward, Ends

LEMMA RecordStartedFits ==
    ASSUME TInv, IInv, NEW r \in Runs, Fits(r), Counts(Run(r)), RecordStarted(r)
    PROVE  pc'[r] \in Resting \/ Fits(r)'
<1>1. r \in Procs /\ pc[r] \notin Resting /\ Run(r) \in Runs /\ Run(r) = r
  BY Serves DEF Procs, Resting, RecordStarted
<1> QED
  BY <1>1, RecordStartedMoves, SMTT(30) DEF Fits, Phase, Usage, Informed, Questions, Goes, Run, Snap, Stored, Ended, Counted, Before, Queued, Active, Unpaid, Withheld, Carried, Failing, Terminal, Aside, Onward, Ends

LEMMA FailLoadFits ==
    ASSUME TInv, IInv, NEW r \in Runs, Fits(r), Counts(Run(r)), FailLoad(r)
    PROVE  pc'[r] \in Resting \/ Fits(r)'
<1>1. r \in Procs /\ pc[r] \notin Resting /\ Run(r) \in Runs /\ Run(r) = r
  BY Serves DEF Procs, Resting, FailLoad
<1> QED
  BY <1>1, FailLoadMoves, SMTT(30) DEF Fits, Phase, Usage, Informed, Questions, Goes, Run, Snap, Stored, Ended, Counted, Before, Queued, Active, Unpaid, Withheld, Carried, Failing, Terminal, Aside, Onward, Ends

LEMMA SettleLoadFits ==
    ASSUME TInv, IInv, NEW r \in Runs, Fits(r), Counts(Run(r)), SettleLoad(r)
    PROVE  pc'[r] \in Resting \/ Fits(r)'
<1>1. r \in Procs /\ pc[r] \notin Resting /\ Run(r) \in Runs /\ Run(r) = r
  BY Serves DEF Procs, Resting, SettleLoad
<1> QED
  BY <1>1, SettleLoadMoves, SMTT(30) DEF Fits, Phase, Usage, Informed, Questions, Goes, Run, Snap, Stored, Ended, Counted, Before, Queued, Active, Unpaid, Withheld, Carried, Failing, Terminal, Aside, Onward, Ends

LEMMA ApplyLockFits ==
    ASSUME TInv, IInv, NEW p \in Procs, Fits(p), Counts(Run(p)), ApplyLock(p)
    PROVE  pc'[p] \in Resting \/ Fits(p)'
<1>1. p \in Procs /\ pc[p] \notin Resting /\ Run(p) \in Runs
  BY Serves DEF Procs, Resting, ApplyLock
<1> QED
  BY <1>1, ApplyLockMoves, SMTT(30) DEF Fits, Phase, Usage, Informed, Questions, Goes, Run, Snap, Stored, Ended, Counted, Before, Queued, Active, Unpaid, Withheld, Carried, Failing, Terminal, Aside, Onward, Ends, Decided

LEMMA RecordCheckpointFits ==
    ASSUME TInv, IInv, NEW p \in Procs, Fits(p), Counts(Run(p)), RecordCheckpoint(p)
    PROVE  pc'[p] \in Resting \/ Fits(p)'
<1>1. p \in Procs /\ pc[p] \notin Resting /\ Run(p) \in Runs
  BY Serves DEF Procs, Resting, RecordCheckpoint
<1> QED
  BY <1>1, RecordCheckpointMoves DEF Fits, Phase, Usage, Informed, Questions, Goes, Run, Snap, Stored, Ended, Counted, Before, Queued, Active, Unpaid, Withheld, Carried, Failing, Terminal, Aside, Onward, Ends, Decided

LEMMA RecordBudgetFits ==
    ASSUME TInv, IInv, NEW p \in Procs, Fits(p), Counts(Run(p)), RecordBudget(p)
    PROVE  pc'[p] \in Resting \/ Fits(p)'
<1>1. p \in Procs /\ pc[p] \notin Resting /\ Run(p) \in Runs
  BY Serves DEF Procs, Resting, RecordBudget
<1> QED
  BY <1>1, RecordBudgetMoves DEF Fits, Phase, Usage, Informed, Questions, Goes, Run, Snap, Stored, Ended, Counted, Before, Queued, Active, Unpaid, Withheld, Carried, Failing, Terminal, Aside, Onward, Ends, Decided

LEMMA PublishResultFits ==
    ASSUME TInv, IInv, NEW p \in Procs, Fits(p), Counts(Run(p)), PublishResult(p)
    PROVE  pc'[p] \in Resting \/ Fits(p)'
<1>1. p \in Procs /\ pc[p] \notin Resting /\ Run(p) \in Runs
  BY Serves DEF Procs, Resting, PublishResult
<1> QED
  BY <1>1, PublishResultMoves, ZenonT(40) DEF Fits, Phase, Usage, Informed, Questions, Goes, Run, Snap, Stored, Ended, Counted, Before, Queued, Active, Unpaid, Withheld, Carried, Failing, Terminal, Aside, Onward, Ends, Raises, IInv, Local, Knows, Announcing, Writes, Revised

LEMMA RecordOutcomeFits ==
    ASSUME TInv, IInv, NEW p \in Procs, Fits(p), Counts(Run(p)), RecordOutcome(p)
    PROVE  pc'[p] \in Resting \/ Fits(p)'
<1>1. p \in Procs /\ pc[p] \notin Resting /\ Run(p) \in Runs
  BY Serves DEF Procs, Resting, RecordOutcome
<1> QED
  BY <1>1, RecordOutcomeMoves DEF Fits, Phase, Usage, Informed, Questions, Goes, Run, Snap, Stored, Ended, Counted, Before, Queued, Active, Unpaid, Withheld, Carried, Failing, Terminal, Ends, Raises, IInv, Sound

(* From the coroutine that moves to all of Course. *)

\* The step adds at most one event, and it is no resumption.
Notes(p) == UNCHANGED log \/ \E e \in Event \ {"run_resumed"} : Emit(p, e)
Away(p)  == pc[p] # "resumed" /\ pc'[p] # "resumed"

LEMMA OthersResumed ==
    ASSUME NEW p \in Procs, NEW r \in Runs, Alone(p), pc[p] \notin Resting => Run(p) = r,
           pc'[p] = "resumed" => job'[p].run = r,
           \A s \in Runs \ {r} : log'[s] = log[s]
    PROVE  \A s \in Runs \ {r} : Resumed(s)' = Resumed(s)
<1>1. SUFFICES ASSUME NEW s \in Runs \ {r} PROVE Resumed(s)' = Resumed(s)
  OBVIOUS
<1>2. Positions(s, {"run_resumed"})' = Positions(s, {"run_resumed"})
  BY DEF Positions
<1>3. pc[p] = "resumed" /\ Run(p) = s <=> pc'[p] = "resumed" /\ job'[p].run = s
  BY DEF Resting
<1> QED
  BY <1>2, <1>3, ResumedSame

LEMMA ResumedStays ==
    ASSUME TInv, NEW p \in Procs, pc[p] \notin Resting, Alone(p), Away(p), Notes(p), NEW r \in Runs
    PROVE  Resumed(r)' = Resumed(r)
<1>1. Positions(r, {"run_resumed"})' = Positions(r, {"run_resumed"})
  <2>1. CASE UNCHANGED log
    BY <2>1, SamePositions
  <2>2. CASE \E e \in Event \ {"run_resumed"} : Emit(p, e)
    <3>1. PICK e \in Event \ {"run_resumed"} : Emit(p, e)
      BY <2>2
    <3> QED
      BY <3>1, EmitPositions, Serves
  <2> QED
    BY <2>1, <2>2 DEF Notes
<1> QED
  BY <1>1, ResumedSame DEF Away

LEMMA CountsStays ==
    ASSUME NEW r \in Runs, Counts(r), Resumed(r) \in Nat, Resumed(r)' \in Nat,
           Resumed(r)' <= Resumed(r), asked[r] \in Nat,
           repo'[r] = repo[r], asked'[r] = asked[r], r \in reported' <=> r \in reported,
           \/ question'[r] = 0
           \/ question'[r] = question[r] /\ (r \in prefix => r \in prefix' \/ Ended(r))
    PROVE  Counts(r)'
BY DEF Counts, Ended

LEMMA CourseStep ==
    ASSUME TInv, IInv, Course, NEW p \in Procs, NEW r \in Runs, Frame(p, r),
           pc[p] \notin Resting => Run(p) = r, pc'[p] \in Resting \/ Fits(p)',
           Counts(r)', \A s \in Runs \ {r} : Resumed(s)' = Resumed(s)
    PROVE  Course'
<1>1. ASSUME NEW q \in Procs, pc'[q] \notin Resting
      PROVE  Fits(q)'
  <2>1. CASE q = p
    BY <1>1, <2>1
  <2>2. CASE q # p
    <3>1. pc[q] \notin Resting /\ q \in Procs \ {p}
      BY <1>1, <2>2 DEF Frame, Alone
    <3>2. Fits(q)
      BY <3>1 DEF Course
    <3> QED
      BY <3>1, <3>2, OthersFit
  <2> QED
    BY <2>1, <2>2
<1>2. ASSUME NEW s \in Runs
      PROVE  Counts(s)'
  <2>1. CASE s = r
    BY <2>1
  <2>2. CASE s # r
    <3>1. /\ Resumed(s) \in Nat /\ Resumed(s)' \in Nat /\ Resumed(s)' <= Resumed(s)
          /\ asked[s] \in Nat /\ Counts(s)
      BY <2>2, ResumedNat DEF Course, TInv, TypeOK
    <3>2. /\ repo'[s] = repo[s] /\ asked'[s] = asked[s] /\ question'[s] = question[s]
          /\ (s \in reported' <=> s \in reported) /\ (s \in prefix => s \in prefix')
      BY <2>2 DEF Frame
    <3> QED
      BY <3>1, <3>2, CountsStays
  <2> QED
    BY <2>1, <2>2
<1> QED
  BY <1>1, <1>2 DEF Course

\* The step of a coroutine under way that neither starts nor records a resumption.
LEMMA ChangeCourse ==
    ASSUME TInv, IInv, Course, NEW p \in Procs, NEW r \in Runs, pc[p] \notin Resting, Run(p) = r,
           Frame(p, r), Away(p), Notes(p), pc'[p] \in Resting \/ Fits(p)',
           Resumed(r)' = Resumed(r) => Counts(r)'
    PROVE  Course'
<1>1. \A s \in Runs : Resumed(s)' = Resumed(s)
  BY ResumedStays DEF Frame
<1> QED
  BY <1>1, CourseStep

LEMMA AsideCourse ==
    ASSUME TInv, IInv, Course, NEW p \in Procs, pc[p] \notin Resting, Alone(p), Away(p), Notes(p),
           Aside, pc'[p] \in Resting \/ Fits(p)'
    PROVE  Course'
<1>1. PICK r \in Runs : Run(p) = r
  BY Serves
<1>2. Frame(p, r)
  BY DEF Frame, Aside
<1>3. Resumed(r)' = Resumed(r) => Counts(r)'
  <2>1. Counts(r) /\ Resumed(r) \in Nat /\ asked[r] \in Nat
    BY ResumedNat DEF Course, TInv, TypeOK
  <2>2. /\ repo'[r] = repo[r] /\ asked'[r] = asked[r] /\ question'[r] = question[r]
        /\ reported' = reported /\ prefix' = prefix
    BY DEF Aside
  <2> QED
    BY <2>1, <2>2, CountsStays
<1> QED
  BY <1>1, <1>2, <1>3, ChangeCourse

\* The step writes the record of r.
LEMMA WriteCounts ==
    ASSUME TInv, NEW r \in Runs, Counts(r), Resumed(r)' = Resumed(r),
           UNCHANGED <<question, asked, reported>>, r \in prefix => r \in prefix',
           repo'[r].status # "absent",
           repo'[r].status = "waiting_input" => repo[r].status = "waiting_input",
           repo'[r].status \in {"created", "queued"} =>
               repo[r].status \in {"absent", "created", "queued"},
           Ended(r) => repo'[r].status \in Terminal,
           r \in reported /\ repo'[r].status \in Terminal \ {"cancelled"} => repo'[r].counted
    PROVE  Counts(r)'
<1>1. Ended(r)' = (repo'[r].status \in Terminal)
  BY DEF Ended
<1> QED
  BY <1>1 DEF Counts

LEMMA WriteFrame ==
    ASSUME NEW p \in Procs, NEW r \in Runs, Alone(p),
           \A s \in Runs \ {r} : repo'[s] = repo[s],
           UNCHANGED <<question, asked, reported>>, prefix' \in {prefix, prefix \cup {r}},
           prefix' # prefix => pc[p] \in Holding,
           Ended(r) => repo'[r].status = repo[r].status,
           \/ pc[p] \in Holding
           \/ repo'[r] = repo[r]
           \/ repo[r].status \in Waiting \cup {"absent"} \cup Terminal
           \/ repo'[r].status = "cancelled"
    PROVE  Frame(p, r)
BY DEF Frame

LEMMA WriteCourse ==
    ASSUME TInv, IInv, Course, NEW p \in Procs, NEW r \in Runs, pc[p] \notin Resting, Run(p) = r,
           Alone(p), Away(p), Notes(p), pc'[p] \in Resting \/ Fits(p)',
           \A s \in Runs \ {r} : repo'[s] = repo[s],
           UNCHANGED <<question, asked, reported>>, prefix' \in {prefix, prefix \cup {r}},
           prefix' # prefix => pc[p] \in Holding,
           Ended(r) => repo'[r].status = repo[r].status,
           \/ pc[p] \in Holding
           \/ repo'[r] = repo[r]
           \/ repo[r].status \in Waiting \cup {"absent"} \cup Terminal
           \/ repo'[r].status = "cancelled",
           repo'[r].status # "absent",
           repo'[r].status = "waiting_input" => repo[r].status = "waiting_input",
           repo'[r].status \in {"created", "queued"} =>
               repo[r].status \in {"absent", "created", "queued"},
           r \in reported /\ repo'[r].status \in Terminal \ {"cancelled"} => repo'[r].counted
    PROVE  Course'
<1>1. Frame(p, r)
  BY WriteFrame
<1>2. Counts(r) /\ (Ended(r) => repo'[r].status \in Terminal) /\ (r \in prefix => r \in prefix')
  BY DEF Course, Ended
<1>3. Resumed(r)' = Resumed(r) => Counts(r)'
  BY <1>2, WriteCounts
<1> QED
  BY <1>1, <1>3, ChangeCourse

-----------------------------------------------------------------------------
(* Each action: Course and the action give Course'. *)

LEMMA RecordCreatedCourse ==
    ASSUME TInv, IInv, Course, NEW c \in Callers, RecordCreated(c)
    PROVE  Course'
<1>1. PICK x \in Runs : /\ Run(c) = x /\ c \in Procs /\ pc[c] \notin Resting
                        /\ c \in Runs => c = x
  BY Serves DEF Procs, Resting, RecordCreated
<1>2. /\ Fits(c) /\ Counts(x) /\ Holds(c) /\ Knows(c) /\ Signalled(c) /\ repo[x] \in Record /\ Snap(c) \in Record
      /\ job[c].target \in Outcomes /\ question[x] \in Nat /\ asked[x] \in Nat
  BY <1>1, KnownRecord DEF Course, IInv, Local, TInv, TypeOK
<1>3. pc'[c] \in Resting \/ Fits(c)'
  BY <1>1, <1>2, RecordCreatedFits
<1>4. Alone(c) /\ Away(c) /\ Aside /\ Emit(c, "run_created")
  BY RecordCreatedMoves DEF Away, Onward, Goes, Moved, Ends, GivesUp, Raises, Resting
<1> QED
  BY <1>1, <1>3, <1>4, AsideCourse DEF Notes, Event

LEMMA RecordQueuedCourse ==
    ASSUME TInv, IInv, Course, NEW c \in Callers, RecordQueued(c)
    PROVE  Course'
<1>1. PICK x \in Runs : /\ Run(c) = x /\ c \in Procs /\ pc[c] \notin Resting
                        /\ c \in Runs => c = x
  BY Serves DEF Procs, Resting, RecordQueued
<1>2. /\ Fits(c) /\ Counts(x) /\ Holds(c) /\ Knows(c) /\ Signalled(c) /\ repo[x] \in Record /\ Snap(c) \in Record
      /\ job[c].target \in Outcomes /\ question[x] \in Nat /\ asked[x] \in Nat
  BY <1>1, KnownRecord DEF Course, IInv, Local, TInv, TypeOK
<1>3. pc'[c] \in Resting \/ Fits(c)'
  BY <1>1, <1>2, RecordQueuedFits
<1>4. Alone(c) /\ Away(c) /\ Aside /\ Emit(c, "run_queued")
  BY RecordQueuedMoves DEF Away, Onward, Goes, Moved, Ends, GivesUp, Raises, Resting
<1> QED
  BY <1>1, <1>3, <1>4, AsideCourse DEF Notes, Event

LEMMA MatchCheckpointCourse ==
    ASSUME TInv, IInv, Course, NEW c \in Callers, MatchCheckpoint(c)
    PROVE  Course'
<1>1. PICK x \in Runs : /\ Run(c) = x /\ c \in Procs /\ pc[c] \notin Resting
                        /\ c \in Runs => c = x
  BY Serves DEF Procs, Resting, MatchCheckpoint
<1>2. /\ Fits(c) /\ Counts(x) /\ Holds(c) /\ Knows(c) /\ Signalled(c) /\ repo[x] \in Record /\ Snap(c) \in Record
      /\ job[c].target \in Outcomes /\ question[x] \in Nat /\ asked[x] \in Nat
  BY <1>1, KnownRecord DEF Course, IInv, Local, TInv, TypeOK
<1>3. pc'[c] \in Resting \/ Fits(c)'
  BY <1>1, <1>2, MatchCheckpointFits
<1>4. Alone(c) /\ Away(c) /\ Aside /\ UNCHANGED log
  BY MatchCheckpointMoves DEF Away, Onward, Goes, Moved, Ends, GivesUp, Raises, Resting
<1> QED
  BY <1>1, <1>3, <1>4, AsideCourse DEF Notes, Event

LEMMA RecordCancelRequestCourse ==
    ASSUME TInv, IInv, Course, NEW c \in Callers, RecordCancelRequest(c)
    PROVE  Course'
<1>1. PICK x \in Runs : /\ Run(c) = x /\ c \in Procs /\ pc[c] \notin Resting
                        /\ c \in Runs => c = x
  BY Serves DEF Procs, Resting, RecordCancelRequest
<1>2. /\ Fits(c) /\ Counts(x) /\ Holds(c) /\ Knows(c) /\ Signalled(c) /\ repo[x] \in Record /\ Snap(c) \in Record
      /\ job[c].target \in Outcomes /\ question[x] \in Nat /\ asked[x] \in Nat
  BY <1>1, KnownRecord DEF Course, IInv, Local, TInv, TypeOK
<1>3. pc'[c] \in Resting \/ Fits(c)'
  BY <1>1, <1>2, RecordCancelRequestFits
<1>4. Alone(c) /\ Away(c) /\ Aside /\ Emit(c, "run_cancel_requested")
  BY RecordCancelRequestMoves DEF Away, Onward, Goes, Moved, Ends, GivesUp, Raises, Resting
<1> QED
  BY <1>1, <1>3, <1>4, AsideCourse DEF Notes, Event

LEMMA CancelReloadCourse ==
    ASSUME TInv, IInv, Course, NEW c \in Callers, CancelReload(c)
    PROVE  Course'
<1>1. PICK x \in Runs : /\ Run(c) = x /\ c \in Procs /\ pc[c] \notin Resting
                        /\ c \in Runs => c = x
  BY Serves DEF Procs, Resting, CancelReload
<1>2. /\ Fits(c) /\ Counts(x) /\ Holds(c) /\ Knows(c) /\ Signalled(c) /\ repo[x] \in Record /\ Snap(c) \in Record
      /\ job[c].target \in Outcomes /\ question[x] \in Nat /\ asked[x] \in Nat
  BY <1>1, KnownRecord DEF Course, IInv, Local, TInv, TypeOK
<1>3. pc'[c] \in Resting \/ Fits(c)'
  BY <1>1, <1>2, CancelReloadFits
<1>4. Alone(c) /\ Away(c) /\ Aside /\ UNCHANGED log
  BY CancelReloadMoves DEF Away, Onward, Goes, Moved, Ends, GivesUp, Raises, Resting
<1> QED
  BY <1>1, <1>3, <1>4, AsideCourse DEF Notes, Event

LEMMA PrepareGuardCourse ==
    ASSUME TInv, IInv, Course, NEW r \in Runs, PrepareGuard(r)
    PROVE  Course'
<1>1. PICK x \in Runs : /\ Run(r) = x /\ r \in Procs /\ pc[r] \notin Resting
                        /\ r \in Runs => r = x
  BY Serves DEF Procs, Resting, PrepareGuard
<1>2. /\ Fits(r) /\ Counts(x) /\ Holds(r) /\ Knows(r) /\ Signalled(r) /\ repo[x] \in Record /\ Snap(r) \in Record
      /\ job[r].target \in Outcomes /\ question[x] \in Nat /\ asked[x] \in Nat
  BY <1>1, KnownRecord DEF Course, IInv, Local, TInv, TypeOK
<1>3. pc'[r] \in Resting \/ Fits(r)'
  BY <1>1, <1>2, PrepareGuardFits
<1>4. Alone(r) /\ Away(r) /\ Aside /\ UNCHANGED log
  BY PrepareGuardMoves DEF Away, Onward, Goes, Moved, Ends, GivesUp, Raises, Resting
<1> QED
  BY <1>1, <1>3, <1>4, AsideCourse DEF Notes, Event

LEMMA PrepareLoadCourse ==
    ASSUME TInv, IInv, Course, NEW r \in Runs, PrepareLoad(r)
    PROVE  Course'
<1>1. PICK x \in Runs : /\ Run(r) = x /\ r \in Procs /\ pc[r] \notin Resting
                        /\ r \in Runs => r = x
  BY Serves DEF Procs, Resting, PrepareLoad
<1>2. /\ Fits(r) /\ Counts(x) /\ Holds(r) /\ Knows(r) /\ Signalled(r) /\ repo[x] \in Record /\ Snap(r) \in Record
      /\ job[r].target \in Outcomes /\ question[x] \in Nat /\ asked[x] \in Nat
  BY <1>1, KnownRecord DEF Course, IInv, Local, TInv, TypeOK
<1>3. pc'[r] \in Resting \/ Fits(r)'
  BY <1>1, <1>2, PrepareLoadFits
<1>4. Alone(r) /\ Away(r) /\ Aside /\ UNCHANGED log
  BY PrepareLoadMoves DEF Away, Onward, Goes, Moved, Ends, GivesUp, Raises, Resting
<1> QED
  BY <1>1, <1>3, <1>4, AsideCourse DEF Notes, Event

LEMMA LoadQueuedCourse ==
    ASSUME TInv, IInv, Course, NEW r \in Runs, LoadQueued(r)
    PROVE  Course'
<1>1. PICK x \in Runs : /\ Run(r) = x /\ r \in Procs /\ pc[r] \notin Resting
                        /\ r \in Runs => r = x
  BY Serves DEF Procs, Resting, LoadQueued
<1>2. /\ Fits(r) /\ Counts(x) /\ Holds(r) /\ Knows(r) /\ Signalled(r) /\ repo[x] \in Record /\ Snap(r) \in Record
      /\ job[r].target \in Outcomes /\ question[x] \in Nat /\ asked[x] \in Nat
  BY <1>1, KnownRecord DEF Course, IInv, Local, TInv, TypeOK
<1>3. pc'[r] \in Resting \/ Fits(r)'
  BY <1>1, <1>2, LoadQueuedFits
<1>4. Alone(r) /\ Away(r) /\ Aside /\ UNCHANGED log
  BY LoadQueuedMoves DEF Away, Onward, Goes, Moved, Ends, GivesUp, Raises, Resting
<1> QED
  BY <1>1, <1>3, <1>4, AsideCourse DEF Notes, Event

LEMMA SelectStrategyCourse ==
    ASSUME TInv, IInv, Course, NEW r \in Runs, SelectStrategy(r)
    PROVE  Course'
<1>1. PICK x \in Runs : /\ Run(r) = x /\ r \in Procs /\ pc[r] \notin Resting
                        /\ r \in Runs => r = x
  BY Serves DEF Procs, Resting, SelectStrategy
<1>2. /\ Fits(r) /\ Counts(x) /\ Holds(r) /\ Knows(r) /\ Signalled(r) /\ repo[x] \in Record /\ Snap(r) \in Record
      /\ job[r].target \in Outcomes /\ question[x] \in Nat /\ asked[x] \in Nat
  BY <1>1, KnownRecord DEF Course, IInv, Local, TInv, TypeOK
<1>3. pc'[r] \in Resting \/ Fits(r)'
  BY <1>1, <1>2, SelectStrategyFits
<1>4. Alone(r) /\ Away(r) /\ Aside /\ Emit(r, "strategy_selected")
  BY SelectStrategyMoves DEF Away, Onward, Goes, Moved, Ends, GivesUp, Raises, Resting
<1> QED
  BY <1>1, <1>3, <1>4, AsideCourse DEF Notes, Event

LEMMA RejectStrategyCourse ==
    ASSUME TInv, IInv, Course, NEW r \in Runs, RejectStrategy(r)
    PROVE  Course'
<1>1. PICK x \in Runs : /\ Run(r) = x /\ r \in Procs /\ pc[r] \notin Resting
                        /\ r \in Runs => r = x
  BY Serves DEF Procs, Resting, RejectStrategy
<1>2. /\ Fits(r) /\ Counts(x) /\ Holds(r) /\ Knows(r) /\ Signalled(r) /\ repo[x] \in Record /\ Snap(r) \in Record
      /\ job[r].target \in Outcomes /\ question[x] \in Nat /\ asked[x] \in Nat
  BY <1>1, KnownRecord DEF Course, IInv, Local, TInv, TypeOK
<1>3. pc'[r] \in Resting \/ Fits(r)'
  BY <1>1, <1>2, RejectStrategyFits
<1>4. Alone(r) /\ Away(r) /\ Aside /\ UNCHANGED log
  BY RejectStrategyMoves DEF Away, Onward, Goes, Moved, Ends, GivesUp, Raises, Resting
<1> QED
  BY <1>1, <1>3, <1>4, AsideCourse DEF Notes, Event

LEMMA RejectPayloadCourse ==
    ASSUME TInv, IInv, Course, NEW r \in Runs, RejectPayload(r)
    PROVE  Course'
<1>1. PICK x \in Runs : /\ Run(r) = x /\ r \in Procs /\ pc[r] \notin Resting
                        /\ r \in Runs => r = x
  BY Serves DEF Procs, Resting, RejectPayload
<1>2. /\ Fits(r) /\ Counts(x) /\ Holds(r) /\ Knows(r) /\ Signalled(r) /\ repo[x] \in Record /\ Snap(r) \in Record
      /\ job[r].target \in Outcomes /\ question[x] \in Nat /\ asked[x] \in Nat
  BY <1>1, KnownRecord DEF Course, IInv, Local, TInv, TypeOK
<1>3. pc'[r] \in Resting \/ Fits(r)'
  BY <1>1, <1>2, RejectPayloadFits
<1>4. Alone(r) /\ Away(r) /\ Aside /\ UNCHANGED log
  BY RejectPayloadMoves DEF Away, Onward, Goes, Moved, Ends, GivesUp, Raises, Resting
<1> QED
  BY <1>1, <1>3, <1>4, AsideCourse DEF Notes, Event

LEMMA RecordStartedCourse ==
    ASSUME TInv, IInv, Course, NEW r \in Runs, RecordStarted(r)
    PROVE  Course'
<1>1. PICK x \in Runs : /\ Run(r) = x /\ r \in Procs /\ pc[r] \notin Resting
                        /\ r \in Runs => r = x
  BY Serves DEF Procs, Resting, RecordStarted
<1>2. /\ Fits(r) /\ Counts(x) /\ Holds(r) /\ Knows(r) /\ Signalled(r) /\ repo[x] \in Record /\ Snap(r) \in Record
      /\ job[r].target \in Outcomes /\ question[x] \in Nat /\ asked[x] \in Nat
  BY <1>1, KnownRecord DEF Course, IInv, Local, TInv, TypeOK
<1>3. pc'[r] \in Resting \/ Fits(r)'
  BY <1>1, <1>2, RecordStartedFits
<1>4. Alone(r) /\ Away(r) /\ Aside /\ Emit(r, "run_started")
  BY RecordStartedMoves DEF Away, Onward, Goes, Moved, Ends, GivesUp, Raises, Resting
<1> QED
  BY <1>1, <1>3, <1>4, AsideCourse DEF Notes, Event

LEMMA FailLoadCourse ==
    ASSUME TInv, IInv, Course, NEW r \in Runs, FailLoad(r)
    PROVE  Course'
<1>1. PICK x \in Runs : /\ Run(r) = x /\ r \in Procs /\ pc[r] \notin Resting
                        /\ r \in Runs => r = x
  BY Serves DEF Procs, Resting, FailLoad
<1>2. /\ Fits(r) /\ Counts(x) /\ Holds(r) /\ Knows(r) /\ Signalled(r) /\ repo[x] \in Record /\ Snap(r) \in Record
      /\ job[r].target \in Outcomes /\ question[x] \in Nat /\ asked[x] \in Nat
  BY <1>1, KnownRecord DEF Course, IInv, Local, TInv, TypeOK
<1>3. pc'[r] \in Resting \/ Fits(r)'
  BY <1>1, <1>2, FailLoadFits
<1>4. Alone(r) /\ Away(r) /\ Aside /\ UNCHANGED log
  BY FailLoadMoves DEF Away, Onward, Goes, Moved, Ends, GivesUp, Raises, Resting
<1> QED
  BY <1>1, <1>3, <1>4, AsideCourse DEF Notes, Event

LEMMA SettleLoadCourse ==
    ASSUME TInv, IInv, Course, NEW r \in Runs, SettleLoad(r)
    PROVE  Course'
<1>1. PICK x \in Runs : /\ Run(r) = x /\ r \in Procs /\ pc[r] \notin Resting
                        /\ r \in Runs => r = x
  BY Serves DEF Procs, Resting, SettleLoad
<1>2. /\ Fits(r) /\ Counts(x) /\ Holds(r) /\ Knows(r) /\ Signalled(r) /\ repo[x] \in Record /\ Snap(r) \in Record
      /\ job[r].target \in Outcomes /\ question[x] \in Nat /\ asked[x] \in Nat
  BY <1>1, KnownRecord DEF Course, IInv, Local, TInv, TypeOK
<1>3. pc'[r] \in Resting \/ Fits(r)'
  BY <1>1, <1>2, SettleLoadFits
<1>4. Alone(r) /\ Away(r) /\ Aside /\ UNCHANGED log
  BY SettleLoadMoves DEF Away, Onward, Goes, Moved, Ends, GivesUp, Raises, Resting
<1> QED
  BY <1>1, <1>3, <1>4, AsideCourse DEF Notes, Event

LEMMA RecordSettleStartedCourse ==
    ASSUME TInv, IInv, Course, NEW r \in Runs, RecordSettleStarted(r)
    PROVE  Course'
<1>1. PICK x \in Runs : /\ Run(r) = x /\ r \in Procs /\ pc[r] \notin Resting
                        /\ r \in Runs => r = x
  BY Serves DEF Procs, Resting, RecordSettleStarted
<1>2. /\ Fits(r) /\ Counts(x) /\ Holds(r) /\ Knows(r) /\ Signalled(r) /\ repo[x] \in Record /\ Snap(r) \in Record
      /\ job[r].target \in Outcomes /\ question[x] \in Nat /\ asked[x] \in Nat
  BY <1>1, KnownRecord DEF Course, IInv, Local, TInv, TypeOK
<1>3. pc'[r] \in Resting \/ Fits(r)'
  BY <1>1, <1>2, RecordSettleStartedFits
<1>4. Alone(r) /\ Away(r) /\ Aside /\ Emit(r, "run_started")
  BY RecordSettleStartedMoves DEF Away, Onward, Goes, Moved, Ends, GivesUp, Raises, Resting
<1> QED
  BY <1>1, <1>3, <1>4, AsideCourse DEF Notes, Event

LEMMA GraphRaisesCourse ==
    ASSUME TInv, IInv, Course, NEW p \in Procs, GraphRaises(p)
    PROVE  Course'
<1>1. PICK x \in Runs : /\ Run(p) = x /\ p \in Procs /\ pc[p] \notin Resting
                        /\ p \in Runs => p = x
  BY Serves DEF Procs, Resting, GraphRaises
<1>2. /\ Fits(p) /\ Counts(x) /\ Holds(p) /\ Knows(p) /\ Signalled(p) /\ repo[x] \in Record /\ Snap(p) \in Record
      /\ job[p].target \in Outcomes /\ question[x] \in Nat /\ asked[x] \in Nat
  BY <1>1, KnownRecord DEF Course, IInv, Local, TInv, TypeOK
<1>3. pc'[p] \in Resting \/ Fits(p)'
  BY <1>1, <1>2, GraphRaisesFits
<1>4. Alone(p) /\ Away(p) /\ Aside /\ UNCHANGED log
  BY GraphRaisesMoves DEF Away, Onward, Goes, Moved, Ends, GivesUp, Raises, Resting
<1> QED
  BY <1>1, <1>3, <1>4, AsideCourse DEF Notes, Event

LEMMA ApplyLockCourse ==
    ASSUME TInv, IInv, Course, NEW p \in Procs, ApplyLock(p)
    PROVE  Course'
<1>1. PICK x \in Runs : /\ Run(p) = x /\ p \in Procs /\ pc[p] \notin Resting
                        /\ p \in Runs => p = x
  BY Serves DEF Procs, Resting, ApplyLock
<1>2. /\ Fits(p) /\ Counts(x) /\ Holds(p) /\ Knows(p) /\ Signalled(p) /\ repo[x] \in Record /\ Snap(p) \in Record
      /\ job[p].target \in Outcomes /\ question[x] \in Nat /\ asked[x] \in Nat
  BY <1>1, KnownRecord DEF Course, IInv, Local, TInv, TypeOK
<1>3. pc'[p] \in Resting \/ Fits(p)'
  BY <1>1, <1>2, ApplyLockFits
<1>4. Alone(p) /\ Away(p) /\ Aside /\ UNCHANGED log
  BY ApplyLockMoves DEF Away, Onward, Goes, Moved, Ends, GivesUp, Raises, Resting
<1> QED
  BY <1>1, <1>3, <1>4, AsideCourse DEF Notes, Event

LEMMA RecordCheckpointCourse ==
    ASSUME TInv, IInv, Course, NEW p \in Procs, RecordCheckpoint(p)
    PROVE  Course'
<1>1. PICK x \in Runs : /\ Run(p) = x /\ p \in Procs /\ pc[p] \notin Resting
                        /\ p \in Runs => p = x
  BY Serves DEF Procs, Resting, RecordCheckpoint
<1>2. /\ Fits(p) /\ Counts(x) /\ Holds(p) /\ Knows(p) /\ Signalled(p) /\ repo[x] \in Record /\ Snap(p) \in Record
      /\ job[p].target \in Outcomes /\ question[x] \in Nat /\ asked[x] \in Nat
  BY <1>1, KnownRecord DEF Course, IInv, Local, TInv, TypeOK
<1>3. pc'[p] \in Resting \/ Fits(p)'
  BY <1>1, <1>2, RecordCheckpointFits
<1>4. Alone(p) /\ Away(p) /\ Aside /\ Emit(p, "checkpoint_saved")
  BY RecordCheckpointMoves DEF Away, Onward, Goes, Moved, Ends, GivesUp, Raises, Resting
<1> QED
  BY <1>1, <1>3, <1>4, AsideCourse DEF Notes, Event

LEMMA RecordBudgetCourse ==
    ASSUME TInv, IInv, Course, NEW p \in Procs, RecordBudget(p)
    PROVE  Course'
<1>1. PICK x \in Runs : /\ Run(p) = x /\ p \in Procs /\ pc[p] \notin Resting
                        /\ p \in Runs => p = x
  BY Serves DEF Procs, Resting, RecordBudget
<1>2. /\ Fits(p) /\ Counts(x) /\ Holds(p) /\ Knows(p) /\ Signalled(p) /\ repo[x] \in Record /\ Snap(p) \in Record
      /\ job[p].target \in Outcomes /\ question[x] \in Nat /\ asked[x] \in Nat
  BY <1>1, KnownRecord DEF Course, IInv, Local, TInv, TypeOK
<1>3. pc'[p] \in Resting \/ Fits(p)'
  BY <1>1, <1>2, RecordBudgetFits
<1>4. Alone(p) /\ Away(p) /\ Aside /\ Emit(p, "budget_exhausted")
  BY RecordBudgetMoves DEF Away, Onward, Goes, Moved, Ends, GivesUp, Raises, Resting
<1> QED
  BY <1>1, <1>3, <1>4, AsideCourse DEF Notes, Event

LEMMA QueueRunCourse ==
    ASSUME TInv, IInv, Course, NEW c \in Callers, QueueRun(c)
    PROVE  Course'
<1>1. PICK x \in Runs : /\ Run(c) = x /\ c \in Procs /\ pc[c] \notin Resting
                        /\ c \in Runs => c = x
  BY Serves DEF Procs, Resting, QueueRun
<1>2. /\ Fits(c) /\ Counts(x) /\ Holds(c) /\ Knows(c) /\ Signalled(c) /\ repo[x] \in Record /\ Snap(c) \in Record
      /\ job[c].target \in Outcomes /\ question[x] \in Nat /\ asked[x] \in Nat
  BY <1>1, KnownRecord DEF Course, IInv, Local, TInv, TypeOK
<1>3. pc'[c] \in Resting \/ Fits(c)'
  BY <1>1, <1>2, QueueRunFits
<1>4. /\ Alone(c) /\ Away(c) /\ Notes(c) /\ pc[c] = "queue"
      /\ UNCHANGED <<question, asked, reported>> /\ \A s \in Runs \ {x} : repo'[s] = repo[s]
      /\ prefix' \in {prefix, prefix \cup {x}} /\ (prefix' # prefix => pc[c] \in Holding)
  BY <1>1, QueueRunMoves DEF Away, Notes, Writes, Holding, Onward, Goes, Moved, Ends, GivesUp, Raises, Resting
<1>5. /\ repo'[x] = repo[x] \/ (repo[x].status = "created" /\ repo'[x].status = "queued")
      /\ repo[x].status \notin Waiting \cup {"absent"}
  <2>0. UNCHANGED repo \/ (repo[Run(c)].status = "created" /\ Writes(c, "queued", Snap(c).counted))
    BY QueueRunMoves
  <2>1. repo'[x] = repo[x] \/ (repo[x].status = "created" /\ repo'[x].status = "queued")
    BY <1>1, <2>0 DEF Writes, Revised
  <2>2. repo[x].status \notin Waiting \cup {"absent"}
    BY <1>1, <1>2, <1>4 DEF Holds, Holding, Stored
  <2> QED
    BY <2>1, <2>2
<1>6. /\ Ended(x) => repo'[x].status = repo[x].status
      /\ \/ pc[c] \in Holding
         \/ repo'[x] = repo[x]
         \/ repo[x].status \in Waiting \cup {"absent"} \cup Terminal
         \/ repo'[x].status = "cancelled"
      /\ repo'[x].status # "absent"
      /\ repo'[x].status = "waiting_input" => repo[x].status = "waiting_input"
      /\ repo'[x].status \in {"created", "queued"} =>
            repo[x].status \in {"absent", "created", "queued"}
  BY <1>4, <1>5 DEF Holding, Ended, Waiting, Terminal
<1>7. x \in reported /\ repo'[x].status \in Terminal \ {"cancelled"} => repo'[x].counted
  BY <1>2, <1>5 DEF Counts, Ended, Terminal
<1> QED
  BY <1>1, <1>3, <1>4, <1>6, <1>7, WriteCourse

LEMMA StartRunCourse ==
    ASSUME TInv, IInv, Course, NEW r \in Runs, StartRun(r)
    PROVE  Course'
<1>1. PICK x \in Runs : /\ Run(r) = x /\ r \in Procs /\ pc[r] \notin Resting
                        /\ r \in Runs => r = x
  BY Serves DEF Procs, Resting, StartRun
<1>2. /\ Fits(r) /\ Counts(x) /\ Holds(r) /\ Knows(r) /\ Signalled(r) /\ repo[x] \in Record /\ Snap(r) \in Record
      /\ job[r].target \in Outcomes /\ question[x] \in Nat /\ asked[x] \in Nat
  BY <1>1, KnownRecord DEF Course, IInv, Local, TInv, TypeOK
<1>3. pc'[r] \in Resting \/ Fits(r)'
  BY <1>1, <1>2, StartRunFits
<1>4. /\ Alone(r) /\ Away(r) /\ Notes(r) /\ pc[r] = "start"
      /\ UNCHANGED <<question, asked, reported>> /\ \A s \in Runs \ {x} : repo'[s] = repo[s]
      /\ prefix' \in {prefix, prefix \cup {x}} /\ (prefix' # prefix => pc[r] \in Holding)
  BY <1>1, StartRunMoves DEF Away, Notes, Writes, Holding, Onward, Goes, Moved, Ends, GivesUp, Raises, Resting
<1>5. /\ repo'[x] = repo[x] \/ (repo[x].status = "queued" /\ repo'[x].status = "running")
      /\ repo[x].status \notin Waiting \cup {"absent"}
  <2>0. UNCHANGED repo \/ (repo[Run(r)].status = "queued" /\ Writes(r, "running", Snap(r).counted))
    BY StartRunMoves
  <2>1. repo'[x] = repo[x] \/ (repo[x].status = "queued" /\ repo'[x].status = "running")
    BY <1>1, <2>0 DEF Writes, Revised
  <2>2. repo[x].status \notin Waiting \cup {"absent"}
    BY <1>1, <1>2, <1>4 DEF Holds, Holding, Stored
  <2> QED
    BY <2>1, <2>2
<1>6. /\ Ended(x) => repo'[x].status = repo[x].status
      /\ \/ pc[r] \in Holding
         \/ repo'[x] = repo[x]
         \/ repo[x].status \in Waiting \cup {"absent"} \cup Terminal
         \/ repo'[x].status = "cancelled"
      /\ repo'[x].status # "absent"
      /\ repo'[x].status = "waiting_input" => repo[x].status = "waiting_input"
      /\ repo'[x].status \in {"created", "queued"} =>
            repo[x].status \in {"absent", "created", "queued"}
  BY <1>4, <1>5 DEF Holding, Ended, Waiting, Terminal
<1>7. x \in reported /\ repo'[x].status \in Terminal \ {"cancelled"} => repo'[x].counted
  BY <1>2, <1>5 DEF Counts, Ended, Terminal
<1> QED
  BY <1>1, <1>3, <1>4, <1>6, <1>7, WriteCourse

LEMMA FailStartCourse ==
    ASSUME TInv, IInv, Course, NEW r \in Runs, FailStart(r)
    PROVE  Course'
<1>1. PICK x \in Runs : /\ Run(r) = x /\ r \in Procs /\ pc[r] \notin Resting
                        /\ r \in Runs => r = x
  BY Serves DEF Procs, Resting, FailStart
<1>2. /\ Fits(r) /\ Counts(x) /\ Holds(r) /\ Knows(r) /\ Signalled(r) /\ repo[x] \in Record /\ Snap(r) \in Record
      /\ job[r].target \in Outcomes /\ question[x] \in Nat /\ asked[x] \in Nat
  BY <1>1, KnownRecord DEF Course, IInv, Local, TInv, TypeOK
<1>3. pc'[r] \in Resting \/ Fits(r)'
  BY <1>1, <1>2, FailStartFits
<1>4. /\ Alone(r) /\ Away(r) /\ Notes(r) /\ pc[r] = "fail_start"
      /\ UNCHANGED <<question, asked, reported>> /\ \A s \in Runs \ {x} : repo'[s] = repo[s]
      /\ prefix' \in {prefix, prefix \cup {x}} /\ (prefix' # prefix => pc[r] \in Holding)
  BY <1>1, FailStartMoves DEF Away, Notes, Writes, Holding, Onward, Goes, Moved, Ends, GivesUp, Raises, Resting
<1>5. /\ repo'[x] = repo[x] \/ (repo[x].status = "queued" /\ repo'[x].status = "running")
      /\ repo[x].status \notin Waiting \cup {"absent"}
  <2>0. UNCHANGED repo \/ (repo[Run(r)].status = "queued" /\ Writes(r, "running", Snap(r).counted))
    BY FailStartMoves
  <2>1. repo'[x] = repo[x] \/ (repo[x].status = "queued" /\ repo'[x].status = "running")
    BY <1>1, <2>0 DEF Writes, Revised
  <2>2. repo[x].status \notin Waiting \cup {"absent"}
    BY <1>1, <1>2, <1>4 DEF Holds, Holding, Stored
  <2> QED
    BY <2>1, <2>2
<1>6. /\ Ended(x) => repo'[x].status = repo[x].status
      /\ \/ pc[r] \in Holding
         \/ repo'[x] = repo[x]
         \/ repo[x].status \in Waiting \cup {"absent"} \cup Terminal
         \/ repo'[x].status = "cancelled"
      /\ repo'[x].status # "absent"
      /\ repo'[x].status = "waiting_input" => repo[x].status = "waiting_input"
      /\ repo'[x].status \in {"created", "queued"} =>
            repo[x].status \in {"absent", "created", "queued"}
  BY <1>4, <1>5 DEF Holding, Ended, Waiting, Terminal
<1>7. x \in reported /\ repo'[x].status \in Terminal \ {"cancelled"} => repo'[x].counted
  BY <1>2, <1>5 DEF Counts, Ended, Terminal
<1> QED
  BY <1>1, <1>3, <1>4, <1>6, <1>7, WriteCourse

LEMMA SettleStartCourse ==
    ASSUME TInv, IInv, Course, NEW r \in Runs, SettleStart(r)
    PROVE  Course'
<1>1. PICK x \in Runs : /\ Run(r) = x /\ r \in Procs /\ pc[r] \notin Resting
                        /\ r \in Runs => r = x
  BY Serves DEF Procs, Resting, SettleStart
<1>2. /\ Fits(r) /\ Counts(x) /\ Holds(r) /\ Knows(r) /\ Signalled(r) /\ repo[x] \in Record /\ Snap(r) \in Record
      /\ job[r].target \in Outcomes /\ question[x] \in Nat /\ asked[x] \in Nat
  BY <1>1, KnownRecord DEF Course, IInv, Local, TInv, TypeOK
<1>3. pc'[r] \in Resting \/ Fits(r)'
  BY <1>1, <1>2, SettleStartFits
<1>4. /\ Alone(r) /\ Away(r) /\ Notes(r) /\ pc[r] = "settle_start"
      /\ UNCHANGED <<question, asked, reported>> /\ \A s \in Runs \ {x} : repo'[s] = repo[s]
      /\ prefix' \in {prefix, prefix \cup {x}} /\ (prefix' # prefix => pc[r] \in Holding)
  BY <1>1, SettleStartMoves DEF Away, Notes, Writes, Holding, Onward, Goes, Moved, Ends, GivesUp, Raises, Resting
<1>5. /\ repo'[x] = repo[x] \/ (repo[x].status = "queued" /\ repo'[x].status = "running")
      /\ repo[x].status \notin Waiting \cup {"absent"}
  <2>0. UNCHANGED repo \/ (repo[Run(r)].status = "queued" /\ Writes(r, "running", Snap(r).counted))
    BY SettleStartMoves
  <2>1. repo'[x] = repo[x] \/ (repo[x].status = "queued" /\ repo'[x].status = "running")
    BY <1>1, <2>0 DEF Writes, Revised
  <2>2. repo[x].status \notin Waiting \cup {"absent"}
    BY <1>1, <1>2, <1>4 DEF Holds, Holding, Stored
  <2> QED
    BY <2>1, <2>2
<1>6. /\ Ended(x) => repo'[x].status = repo[x].status
      /\ \/ pc[r] \in Holding
         \/ repo'[x] = repo[x]
         \/ repo[x].status \in Waiting \cup {"absent"} \cup Terminal
         \/ repo'[x].status = "cancelled"
      /\ repo'[x].status # "absent"
      /\ repo'[x].status = "waiting_input" => repo[x].status = "waiting_input"
      /\ repo'[x].status \in {"created", "queued"} =>
            repo[x].status \in {"absent", "created", "queued"}
  BY <1>4, <1>5 DEF Holding, Ended, Waiting, Terminal
<1>7. x \in reported /\ repo'[x].status \in Terminal \ {"cancelled"} => repo'[x].counted
  BY <1>2, <1>5 DEF Counts, Ended, Terminal
<1> QED
  BY <1>1, <1>3, <1>4, <1>6, <1>7, WriteCourse

LEMMA PublishResultCourse ==
    ASSUME TInv, IInv, Course, NEW p \in Procs, PublishResult(p)
    PROVE  Course'
<1>1. PICK x \in Runs : /\ Run(p) = x /\ p \in Procs /\ pc[p] \notin Resting
                        /\ p \in Runs => p = x
  BY Serves DEF Procs, Resting, PublishResult
<1>2. /\ Fits(p) /\ Counts(x) /\ Holds(p) /\ Knows(p) /\ Signalled(p) /\ repo[x] \in Record /\ Snap(p) \in Record
      /\ job[p].target \in Outcomes /\ question[x] \in Nat /\ asked[x] \in Nat
  BY <1>1, KnownRecord DEF Course, IInv, Local, TInv, TypeOK
<1>3. pc'[p] \in Resting \/ Fits(p)'
  BY <1>1, <1>2, PublishResultFits
<1>4. /\ Alone(p) /\ Away(p) /\ Notes(p) /\ pc[p] = "result"
      /\ UNCHANGED <<question, asked, reported>> /\ \A s \in Runs \ {x} : repo'[s] = repo[s]
      /\ prefix' \in {prefix, prefix \cup {x}} /\ (prefix' # prefix => pc[p] \in Holding)
  BY <1>1, PublishResultMoves DEF Away, Notes, Writes, Holding, Onward, Goes, Moved, Ends, GivesUp, Raises, Resting
<1>5. /\ repo'[x].status = repo[x].status /\ repo'[x].counted = repo[x].counted
      /\ repo[x].status \in Terminal
  <2>0. UNCHANGED repo \/ Writes(p, Snap(p).status, Snap(p).counted)
    BY PublishResultMoves
  <2>1. repo'[x] = repo[x] \/ (repo'[x] = Revised(p, Snap(p).status, Snap(p).counted) /\ Snap(p) = repo[x])
    BY <1>1, <2>0 DEF Writes
  <2>2. repo'[x].status = repo[x].status /\ repo'[x].counted = repo[x].counted
    BY <2>1 DEF Revised
  <2>3. repo[x].status \in Terminal
    BY <1>1, <1>2, <1>4 DEF Knows, Announcing, Ended, Terminal
  <2> QED
    BY <2>2, <2>3
<1>6. /\ Ended(x) => repo'[x].status = repo[x].status
      /\ \/ pc[p] \in Holding
         \/ repo'[x] = repo[x]
         \/ repo[x].status \in Waiting \cup {"absent"} \cup Terminal
         \/ repo'[x].status = "cancelled"
      /\ repo'[x].status # "absent"
      /\ repo'[x].status = "waiting_input" => repo[x].status = "waiting_input"
      /\ repo'[x].status \in {"created", "queued"} =>
            repo[x].status \in {"absent", "created", "queued"}
  BY <1>4, <1>5 DEF Holding, Ended, Waiting, Terminal
<1>7. x \in reported /\ repo'[x].status \in Terminal \ {"cancelled"} => repo'[x].counted
  BY <1>2, <1>5 DEF Counts, Ended, Terminal
<1> QED
  BY <1>1, <1>3, <1>4, <1>6, <1>7, WriteCourse

LEMMA CancelTryCourse ==
    ASSUME TInv, IInv, Course, NEW c \in Callers, CancelTry(c)
    PROVE  Course'
<1>1. PICK x \in Runs : /\ Run(c) = x /\ c \in Procs /\ pc[c] \notin Resting
                        /\ c \in Runs => c = x
  BY Serves DEF Procs, Resting, CancelTry
<1>2. /\ Fits(c) /\ Counts(x) /\ Holds(c) /\ Knows(c) /\ Signalled(c) /\ repo[x] \in Record /\ Snap(c) \in Record
      /\ job[c].target \in Outcomes /\ question[x] \in Nat /\ asked[x] \in Nat
  BY <1>1, KnownRecord DEF Course, IInv, Local, TInv, TypeOK
<1>3. pc'[c] \in Resting \/ Fits(c)'
  BY <1>1, <1>2, CancelTryFits
<1>4. /\ Alone(c) /\ Away(c) /\ Notes(c) /\ pc[c] = "cancel_try"
      /\ UNCHANGED <<question, asked, reported>> /\ \A s \in Runs \ {x} : repo'[s] = repo[s]
      /\ prefix' \in {prefix, prefix \cup {x}} /\ (prefix' # prefix => pc[c] \in Holding)
  BY <1>1, CancelTryMoves DEF Away, Notes, Writes, Holding, Onward, Goes, Moved, Ends, GivesUp, Raises, Resting
<1>5. \/ repo'[x] = repo[x] /\ repo[x].status # "absent"
      \/ repo[x].status \notin Terminal /\ repo'[x].status = "cancelled"
  <2>0. UNCHANGED repo \/ (~Ended(Run(c)) /\ Writes(c, "cancelled", Snap(c).counted))
    BY CancelTryMoves
  <2>1. repo'[x] = repo[x] \/ (~Ended(x) /\ repo'[x].status = "cancelled")
    BY <1>1, <2>0 DEF Writes, Revised
  <2>2. repo[x].status # "absent"
    BY <1>1, <1>2, <1>4 DEF Signalled, Cancelling, Stored
  <2> QED
    BY <2>1, <2>2 DEF Ended
<1>6. /\ Ended(x) => repo'[x].status = repo[x].status
      /\ \/ pc[c] \in Holding
         \/ repo'[x] = repo[x]
         \/ repo[x].status \in Waiting \cup {"absent"} \cup Terminal
         \/ repo'[x].status = "cancelled"
      /\ repo'[x].status # "absent"
      /\ repo'[x].status = "waiting_input" => repo[x].status = "waiting_input"
      /\ repo'[x].status \in {"created", "queued"} =>
            repo[x].status \in {"absent", "created", "queued"}
  BY <1>4, <1>5 DEF Holding, Ended, Waiting, Terminal
<1>7. x \in reported /\ repo'[x].status \in Terminal \ {"cancelled"} => repo'[x].counted
  BY <1>2, <1>5 DEF Counts, Ended, Terminal
<1> QED
  BY <1>1, <1>3, <1>4, <1>6, <1>7, WriteCourse

LEMMA SettleChargeCourse ==
    ASSUME TInv, IInv, Course, NEW r \in Runs, SettleCharge(r)
    PROVE  Course'
<1>1. PICK x \in Runs : /\ Run(r) = x /\ r \in Procs /\ pc[r] \notin Resting
                        /\ r \in Runs => r = x
  BY Serves DEF Procs, Resting, SettleCharge
<1>2. /\ Fits(r) /\ Counts(x) /\ Holds(r) /\ Knows(r) /\ Signalled(r) /\ repo[x] \in Record /\ Snap(r) \in Record
      /\ job[r].target \in Outcomes /\ question[x] \in Nat /\ asked[x] \in Nat
  BY <1>1, KnownRecord DEF Course, IInv, Local, TInv, TypeOK
<1>3. pc'[r] \in Resting \/ Fits(r)'
  BY <1>1, <1>2, SettleChargeMoves DEF Ends
<1>4. /\ Alone(r) /\ Away(r) /\ Notes(r) /\ pc[r] = "settle_charge"
      /\ UNCHANGED <<question, asked, reported>> /\ \A s \in Runs \ {x} : repo'[s] = repo[s]
      /\ prefix' \in {prefix, prefix \cup {x}} /\ (prefix' # prefix => pc[r] \in Holding)
  BY <1>1, SettleChargeMoves DEF Away, Notes, Writes, Holding, Onward, Goes, Moved, Ends, GivesUp, Raises, Resting
<1>5. /\ repo'[x] = repo[x] \/ (repo'[x].status = repo[x].status /\ repo'[x].counted = TRUE)
      /\ repo[x].status \in Terminal
  <2>0. UNCHANGED repo \/ Writes(r, Snap(r).status, TRUE)
    BY SettleChargeMoves
  <2>1. repo'[x] = repo[x] \/ (repo'[x] = Revised(r, Snap(r).status, TRUE) /\ Snap(r) = repo[x])
    BY <1>1, <2>0 DEF Writes
  <2>2. repo'[x] = repo[x] \/ (repo'[x].status = repo[x].status /\ repo'[x].counted = TRUE)
    BY <2>1 DEF Revised
  <2>3. repo[x].status \in Terminal
    BY <1>1, <1>2, <1>4 DEF Knows, Holding, Stored, Ended
  <2> QED
    BY <2>2, <2>3
<1>6. /\ Ended(x) => repo'[x].status = repo[x].status
      /\ \/ pc[r] \in Holding
         \/ repo'[x] = repo[x]
         \/ repo[x].status \in Waiting \cup {"absent"} \cup Terminal
         \/ repo'[x].status = "cancelled"
      /\ repo'[x].status # "absent"
      /\ repo'[x].status = "waiting_input" => repo[x].status = "waiting_input"
      /\ repo'[x].status \in {"created", "queued"} =>
            repo[x].status \in {"absent", "created", "queued"}
  BY <1>4, <1>5 DEF Holding, Ended, Waiting, Terminal
<1>7. x \in reported /\ repo'[x].status \in Terminal \ {"cancelled"} => repo'[x].counted
  BY <1>2, <1>5 DEF Counts, Ended, Terminal
<1> QED
  BY <1>1, <1>3, <1>4, <1>6, <1>7, WriteCourse

LEMMA PrepareSaveCourse ==
    ASSUME TInv, IInv, Course, NEW r \in Runs, PrepareSave(r)
    PROVE  Course'
<1>1. PICK x \in Runs : /\ Run(r) = x /\ r \in Procs /\ pc[r] \notin Resting
                        /\ r \in Runs => r = x
  BY Serves DEF Procs, Resting, PrepareSave
<1>2. /\ Fits(r) /\ Counts(x) /\ Holds(r) /\ Knows(r) /\ Signalled(r) /\ repo[x] \in Record /\ Snap(r) \in Record
      /\ job[r].target \in Outcomes /\ question[x] \in Nat /\ asked[x] \in Nat
  BY <1>1, KnownRecord DEF Course, IInv, Local, TInv, TypeOK
<1>3. pc'[r] \in Resting \/ Fits(r)'
  BY <1>1, <1>2, PrepareSaveFits
<1>4. /\ Alone(r) /\ Away(r) /\ Notes(r) /\ pc[r] = "prep_save"
      /\ UNCHANGED <<question, asked, reported>> /\ \A s \in Runs \ {x} : repo'[s] = repo[s]
      /\ prefix' \in {prefix, prefix \cup {x}} /\ (prefix' # prefix => pc[r] \in Holding)
  BY <1>1, PrepareSaveMoves DEF Away, Notes, Writes, Holding, Onward, Goes, Moved, Ends, GivesUp, Raises, Resting
<1>5. /\ repo'[x] = repo[x] \/ (repo'[x].status = repo[x].status /\ repo'[x].counted = TRUE)
      /\ repo[x].status \notin Waiting \cup {"absent"}
  <2>0. UNCHANGED repo \/ Writes(r, Snap(r).status, TRUE)
    BY PrepareSaveMoves
  <2>1. repo'[x] = repo[x] \/ (repo'[x] = Revised(r, Snap(r).status, TRUE) /\ Snap(r) = repo[x])
    BY <1>1, <2>0 DEF Writes
  <2>2. repo'[x] = repo[x] \/ (repo'[x].status = repo[x].status /\ repo'[x].counted = TRUE)
    BY <2>1 DEF Revised
  <2>3. repo[x].status \notin Waiting \cup {"absent"}
    BY <1>1, <1>2, <1>4 DEF Holds, Holding, Stored, Ended
  <2> QED
    BY <2>2, <2>3
<1>6. /\ Ended(x) => repo'[x].status = repo[x].status
      /\ \/ pc[r] \in Holding
         \/ repo'[x] = repo[x]
         \/ repo[x].status \in Waiting \cup {"absent"} \cup Terminal
         \/ repo'[x].status = "cancelled"
      /\ repo'[x].status # "absent"
      /\ repo'[x].status = "waiting_input" => repo[x].status = "waiting_input"
      /\ repo'[x].status \in {"created", "queued"} =>
            repo[x].status \in {"absent", "created", "queued"}
  BY <1>4, <1>5 DEF Holding, Ended, Waiting, Terminal
<1>7. x \in reported /\ repo'[x].status \in Terminal \ {"cancelled"} => repo'[x].counted
  BY <1>2, <1>5 DEF Counts, Ended, Terminal
<1> QED
  BY <1>1, <1>3, <1>4, <1>6, <1>7, WriteCourse

LEMMA SettleSpendCourse ==
    ASSUME TInv, IInv, Course, NEW r \in Runs, SettleSpend(r)
    PROVE  Course'
<1>1. PICK x \in Runs : /\ Run(r) = x /\ r \in Procs /\ pc[r] \notin Resting
                        /\ r \in Runs => r = x
  BY Serves DEF Procs, Resting, SettleSpend
<1>2. /\ Fits(r) /\ Counts(x) /\ Holds(r) /\ Knows(r) /\ Signalled(r) /\ repo[x] \in Record /\ Snap(r) \in Record
      /\ job[r].target \in Outcomes /\ question[x] \in Nat /\ asked[x] \in Nat
  BY <1>1, KnownRecord DEF Course, IInv, Local, TInv, TypeOK
<1>3. pc'[r] \in Resting \/ Fits(r)'
  BY <1>1, <1>2, SettleSpendFits
<1>4. /\ Alone(r) /\ Away(r) /\ Notes(r) /\ pc[r] = "settle_spend"
      /\ UNCHANGED <<question, asked, reported>> /\ \A s \in Runs \ {x} : repo'[s] = repo[s]
      /\ prefix' \in {prefix, prefix \cup {x}} /\ (prefix' # prefix => pc[r] \in Holding)
  BY <1>1, SettleSpendMoves DEF Away, Notes, Writes, Holding, Onward, Goes, Moved, Ends, GivesUp, Raises, Resting
<1>5. /\ repo'[x] = repo[x] \/ (repo'[x].status = repo[x].status /\ repo'[x].counted = TRUE)
      /\ repo[x].status \notin Waiting \cup {"absent"}
  <2>0. UNCHANGED repo \/ Writes(r, Snap(r).status, TRUE)
    BY SettleSpendMoves
  <2>1. repo'[x] = repo[x] \/ (repo'[x] = Revised(r, Snap(r).status, TRUE) /\ Snap(r) = repo[x])
    BY <1>1, <2>0 DEF Writes
  <2>2. repo'[x] = repo[x] \/ (repo'[x].status = repo[x].status /\ repo'[x].counted = TRUE)
    BY <2>1 DEF Revised
  <2>3. repo[x].status \notin Waiting \cup {"absent"}
    BY <1>1, <1>2, <1>4 DEF Holds, Holding, Stored, Ended
  <2> QED
    BY <2>2, <2>3
<1>6. /\ Ended(x) => repo'[x].status = repo[x].status
      /\ \/ pc[r] \in Holding
         \/ repo'[x] = repo[x]
         \/ repo[x].status \in Waiting \cup {"absent"} \cup Terminal
         \/ repo'[x].status = "cancelled"
      /\ repo'[x].status # "absent"
      /\ repo'[x].status = "waiting_input" => repo[x].status = "waiting_input"
      /\ repo'[x].status \in {"created", "queued"} =>
            repo[x].status \in {"absent", "created", "queued"}
  BY <1>4, <1>5 DEF Holding, Ended, Waiting, Terminal
<1>7. x \in reported /\ repo'[x].status \in Terminal \ {"cancelled"} => repo'[x].counted
  BY <1>2, <1>5 DEF Counts, Ended, Terminal
<1> QED
  BY <1>1, <1>3, <1>4, <1>6, <1>7, WriteCourse

LEMMA PrepareReturnsCourse ==
    ASSUME TInv, IInv, Course, NEW r \in Runs, PrepareReturns(r)
    PROVE  Course'
<1>1. PICK x \in Runs : /\ Run(r) = x /\ r \in Procs /\ pc[r] \notin Resting
                        /\ r \in Runs => r = x
  BY Serves DEF Procs, Resting, PrepareReturns
<1>2. /\ Fits(r) /\ Counts(x) /\ Holds(r) /\ Knows(r) /\ Applies(r)
      /\ repo[x] \in Record /\ Snap(r) \in Record
      /\ job[r].target \in Outcomes /\ question[x] \in Nat /\ asked[x] \in Nat
  BY <1>1, KnownRecord DEF Course, IInv, Local, TInv, TypeOK
<1>3. pc'[r] \in Resting \/ Fits(r)'
  BY <1>1, <1>2, PrepareReturnsFits
<1>4. /\ Alone(r) /\ Away(r) /\ Notes(r) /\ pc[r] = "prepare" /\ reported' = reported \cup {x}
      /\ UNCHANGED <<repo, question, asked, prefix>>
  BY <1>1, PrepareReturnsMoves DEF Away, Notes, Onward, Goes, Moved, Ends, GivesUp, Raises, Resting
<1>5. repo[x].status \in {"queued", "cancelled"}
  BY <1>1, <1>2, <1>4 DEF Fits, Phase, Queued, Stored
<1>6. Frame(r, x)
  BY <1>4 DEF Frame, Holding
<1>7. Resumed(x)' = Resumed(x) => Counts(x)'
  BY <1>2, <1>4, <1>5 DEF Counts, Ended, Terminal
<1> QED
  BY <1>1, <1>3, <1>4, <1>6, <1>7, ChangeCourse

LEMMA PrepareFailsCourse ==
    ASSUME TInv, IInv, Course, NEW r \in Runs, PrepareFails(r)
    PROVE  Course'
<1>1. PICK x \in Runs : /\ Run(r) = x /\ r \in Procs /\ pc[r] \notin Resting
                        /\ r \in Runs => r = x
  BY Serves DEF Procs, Resting, PrepareFails
<1>2. /\ Fits(r) /\ Counts(x) /\ Holds(r) /\ Knows(r) /\ Applies(r)
      /\ repo[x] \in Record /\ Snap(r) \in Record
      /\ job[r].target \in Outcomes /\ question[x] \in Nat /\ asked[x] \in Nat
  BY <1>1, KnownRecord DEF Course, IInv, Local, TInv, TypeOK
<1>3. pc'[r] \in Resting \/ Fits(r)'
  BY <1>1, <1>2, PrepareFailsFits
<1>4. /\ Alone(r) /\ Away(r) /\ Notes(r) /\ pc[r] = "prepare"
      /\ reported' \in {reported, reported \cup {x}} /\ UNCHANGED <<repo, question, asked, prefix>>
  BY <1>1, PrepareFailsMoves DEF Away, Notes, Onward, Goes, Moved, Ends, GivesUp, Raises, Resting
<1>5. repo[x].status \in {"queued", "cancelled"}
  BY <1>1, <1>2, <1>4 DEF Fits, Phase, Queued, Stored
<1>6. Frame(r, x)
  BY <1>4 DEF Frame, Holding
<1>7. Resumed(x)' = Resumed(x) => Counts(x)'
  BY <1>2, <1>4, <1>5 DEF Counts, Ended, Terminal
<1> QED
  BY <1>1, <1>3, <1>4, <1>6, <1>7, ChangeCourse

LEMMA PrepareCheckCourse ==
    ASSUME TInv, IInv, Course, NEW r \in Runs, PrepareCheck(r)
    PROVE  Course'
<1>1. PICK x \in Runs : /\ Run(r) = x /\ r \in Procs /\ pc[r] \notin Resting
                        /\ r \in Runs => r = x
  BY Serves DEF Procs, Resting, PrepareCheck
<1>2. /\ Fits(r) /\ Counts(x) /\ Holds(r) /\ Knows(r) /\ Applies(r)
      /\ repo[x] \in Record /\ Snap(r) \in Record
      /\ job[r].target \in Outcomes /\ question[x] \in Nat /\ asked[x] \in Nat
  BY <1>1, KnownRecord DEF Course, IInv, Local, TInv, TypeOK
<1>3. pc'[r] \in Resting \/ Fits(r)'
  BY <1>1, <1>2, PrepareCheckFits
<1>4. /\ Alone(r) /\ Away(r) /\ Notes(r) /\ pc[r] = "prep_check"
      /\ prefix' \in {prefix, prefix \ {x}} /\ UNCHANGED <<repo, question, asked, reported>>
  BY <1>1, PrepareCheckMoves DEF Away, Notes, Onward, Goes, Moved, Ends, GivesUp, Raises, Resting
<1>5. repo[x].status \in {"queued", "cancelled"}
  BY <1>1, <1>2, <1>4 DEF Fits, Phase, Queued, Stored
<1>6. Frame(r, x)
  BY <1>4 DEF Frame, Holding
<1>7. Resumed(x)' = Resumed(x) => Counts(x)'
  BY <1>2, <1>4, <1>5 DEF Counts, Ended, Terminal
<1> QED
  BY <1>1, <1>3, <1>4, <1>6, <1>7, ChangeCourse

LEMMA GraphReturnsCourse ==
    ASSUME TInv, IInv, Course, NEW p \in Procs, GraphReturns(p)
    PROVE  Course'
<1>1. PICK x \in Runs : /\ Run(p) = x /\ p \in Procs /\ pc[p] \notin Resting
                        /\ p \in Runs => p = x
  BY Serves DEF Procs, Resting, GraphReturns
<1>2. /\ Fits(p) /\ Counts(x) /\ Holds(p) /\ Knows(p) /\ Applies(p)
      /\ repo[x] \in Record /\ Snap(p) \in Record
      /\ job[p].target \in Outcomes /\ question[x] \in Nat /\ asked[x] \in Nat
  BY <1>1, KnownRecord DEF Course, IInv, Local, TInv, TypeOK
<1>3. pc'[p] \in Resting \/ Fits(p)'
  BY <1>1, <1>2, GraphReturnsFits
<1>4. /\ Alone(p) /\ Away(p) /\ Notes(p) /\ pc[p] = "graph"
      /\ UNCHANGED <<repo, asked, reported, prefix>>
      /\ \A s \in Runs \ {x} : question'[s] = question[s]
      /\ question'[x] \in {question[x], question[x] + 1}
  BY <1>1, GraphReturnsMoves DEF Away, Notes, Onward, Goes, Moved, Ends, GivesUp, Raises, Resting
<1>5. /\ repo[x].status \in {"running", "cancelled"}
      /\ ~Ended(x) => asked[x] <= question[x]
      /\ x \in reported /\ ~Ended(x) => x \in prefix
  BY <1>1, <1>2, <1>4 DEF Fits, Phase, Usage, Questions, Active, Withheld, Stored
<1>6. Frame(p, x)
  BY <1>2, <1>4 DEF Frame, Holding
<1>7. Resumed(x)' = Resumed(x) => Counts(x)'
  BY <1>2, <1>4, <1>5 DEF Counts, Ended
<1> QED
  BY <1>1, <1>3, <1>4, <1>6, <1>7, ChangeCourse

LEMMA ApplySaveCourse ==
    ASSUME TInv, IInv, Course, NEW p \in Procs, ApplySave(p)
    PROVE  Course'
<1>1. PICK x \in Runs : /\ Run(p) = x /\ p \in Procs /\ pc[p] \notin Resting
                        /\ p \in Runs => p = x
  BY Serves DEF Procs, Resting, ApplySave
<1>2. /\ Fits(p) /\ Counts(x) /\ Holds(p) /\ Knows(p) /\ Applies(p)
      /\ repo[x] \in Record /\ Snap(p) \in Record
      /\ job[p].target \in Outcomes /\ question[x] \in Nat /\ asked[x] \in Nat
  BY <1>1, KnownRecord DEF Course, IInv, Local, TInv, TypeOK
<1>3. pc'[p] \in Resting \/ Fits(p)'
  BY <1>1, <1>2, ApplySaveFits
<1>4. /\ Alone(p) /\ Away(p) /\ Notes(p) /\ pc[p] = "apply_save"
      /\ UNCHANGED <<question, reported, prefix>>
  BY <1>1, ApplySaveMoves DEF Away, Notes, Onward, Goes, Moved, Ends, GivesUp, Raises, Resting
<1>5. /\ ~Ended(x) /\ repo[x].status \notin Waiting \cup {"absent"}
      /\ x \in reported => Counted(p)
      /\ job[p].target = "waiting_input" => asked[x] < question[x]
  BY <1>1, <1>2, <1>4 DEF Fits, Usage, Questions, Carried, Stored, Applies, Holds, Holding
<1>6. CASE UNCHANGED <<repo, asked>>
  <2>1. Frame(p, x)
    BY <1>4, <1>6 DEF Frame
  <2>2. Resumed(x)' = Resumed(x) => Counts(x)'
    BY <1>2, <1>4, <1>6 DEF Counts, Ended
  <2> QED
    BY <1>1, <1>3, <1>4, <2>1, <2>2, ChangeCourse
<1>7. CASE /\ Writes(p, job[p].target, Counted(p))
           /\ asked' = IF job[p].target = "waiting_input"
                         THEN [asked EXCEPT ![Run(p)] = question[Run(p)]] ELSE asked
  <2>1. repo'[x] = Revised(p, job[p].target, Counted(p)) /\ \A s \in Runs \ {x} : repo'[s] = repo[s]
    BY <1>1, <1>7 DEF Writes
  <2>2. /\ repo'[x].status = job[p].target
        /\ x \in reported => repo'[x].counted
    <3>1. repo'[x].status = job[p].target
      BY <2>1 DEF Revised
    <3>2. repo'[x].counted = Counted(p)
      BY <2>1 DEF Revised
    <3> QED
      BY <1>5, <3>1, <3>2, Zenon
  <2>3. /\ \A s \in Runs \ {x} : asked'[s] = asked[s]
        /\ asked'[x] = IF job[p].target = "waiting_input" THEN question[x] ELSE asked[x]
    BY <1>1, <1>7 DEF TInv, TypeOK
  <2>4. Frame(p, x)
    BY <1>4, <1>5, <2>1, <2>3 DEF Frame, Holding
  <2>5. Ended(x)' = (job[p].target \in Terminal) /\ Resumed(x) \in Nat
    BY <2>2, ResumedNat DEF Ended
  <2>6. Resumed(x)' = Resumed(x) => Counts(x)'
    BY <1>2, <1>4, <1>5, <2>2, <2>3, <2>5 DEF Counts, Outcomes, Terminal, Ended
  <2> QED
    BY <1>1, <1>3, <1>4, <2>4, <2>6, ChangeCourse
<1> QED
  BY <1>6, <1>7, ApplySaveMoves

LEMMA RecordOutcomeCourse ==
    ASSUME TInv, IInv, Course, NEW p \in Procs, RecordOutcome(p)
    PROVE  Course'
<1>1. PICK x \in Runs : /\ Run(p) = x /\ p \in Procs /\ pc[p] \notin Resting
                        /\ p \in Runs => p = x
  BY Serves DEF Procs, Resting, RecordOutcome
<1>2. /\ Fits(p) /\ Counts(x) /\ Holds(p) /\ Knows(p) /\ Applies(p)
      /\ repo[x] \in Record /\ Snap(p) \in Record
      /\ job[p].target \in Outcomes /\ question[x] \in Nat /\ asked[x] \in Nat
  BY <1>1, KnownRecord DEF Course, IInv, Local, TInv, TypeOK
<1>3. pc'[p] \in Resting \/ Fits(p)'
  BY <1>1, <1>2, RecordOutcomeFits
<1>4. /\ Alone(p) /\ Away(p) /\ pc[p] = "outcome" /\ UNCHANGED <<repo, question, asked, reported>>
      /\ prefix' = prefix \/ (prefix' = prefix \ {x} /\ job[p].target \in Terminal)
  BY <1>1, RecordOutcomeMoves DEF Away, Onward, Goes, Moved, Ends, GivesUp, Raises, Resting
<1>5. Notes(p)
  BY <1>2, RecordOutcomeMoves DEF Notes, Outcomes, Terminal, Event
<1>6. job[p].target \in Terminal => Ended(x)
  BY <1>1, <1>2, <1>4 DEF Knows, Announcing
<1>7. Frame(p, x)
  BY <1>4, <1>6 DEF Frame
<1>8. Resumed(x)' = Resumed(x) => Counts(x)'
  BY <1>2, <1>4, <1>6 DEF Counts, Ended
<1> QED
  BY <1>1, <1>3, <1>4, <1>5, <1>7, <1>8, ChangeCourse

LEMMA RecordCancelledCourse ==
    ASSUME TInv, IInv, Course, NEW c \in Callers, RecordCancelled(c)
    PROVE  Course'
<1>1. PICK x \in Runs : /\ Run(c) = x /\ c \in Procs /\ pc[c] \notin Resting
                        /\ c \in Runs => c = x
  BY Serves DEF Procs, Resting, RecordCancelled
<1>2. /\ Fits(c) /\ Counts(x) /\ Holds(c) /\ Knows(c) /\ Applies(c)
      /\ repo[x] \in Record /\ Snap(c) \in Record
      /\ job[c].target \in Outcomes /\ question[x] \in Nat /\ asked[x] \in Nat
  BY <1>1, KnownRecord DEF Course, IInv, Local, TInv, TypeOK
<1>3. pc'[c] \in Resting \/ Fits(c)'
  BY RecordCancelledMoves DEF Ends
<1>4. /\ Alone(c) /\ Away(c) /\ pc[c] = "cancel_record" /\ UNCHANGED <<repo, question, asked, reported>>
      /\ prefix' = prefix \ {x} /\ Notes(c)
  BY <1>1, RecordCancelledMoves DEF Away, Notes, Event, Outcomes, Terminal, Onward, Goes, Moved, Ends, GivesUp, Raises, Resting
<1>5. Ended(x)
  BY <1>1, <1>2, <1>4 DEF Knows
<1>6. Frame(c, x)
  BY <1>4, <1>5 DEF Frame
<1>7. Resumed(x)' = Resumed(x) => Counts(x)'
  BY <1>2, <1>4, <1>5 DEF Counts, Ended
<1> QED
  BY <1>1, <1>3, <1>4, <1>6, <1>7, ChangeCourse

LEMMA InsertRunCourse ==
    ASSUME TInv, IInv, Course, NEW c \in Callers, InsertRun(c)
    PROVE  Course'
<1>1. PICK x \in Runs : /\ Run(c) = x /\ c \in Procs /\ pc[c] \notin Resting
                        /\ c \in Runs => c = x
  BY Serves DEF Procs, Resting, InsertRun
<1>2. /\ Counts(x) /\ Holds(c) /\ Knows(c) /\ Applies(c)
      /\ repo[x] \in Record /\ Snap(c) \in Record
      /\ job[c].target \in Outcomes /\ question[x] \in Nat /\ asked[x] \in Nat
  BY <1>1, KnownRecord DEF Course, IInv, Local, TInv, TypeOK
<1>3. pc'[c] \in Resting \/ Fits(c)'
  BY <1>1, <1>2, InsertRunFits
<1>4. /\ Alone(c) /\ Away(c) /\ Notes(c) /\ UNCHANGED <<question, asked, reported, prefix>>
      /\ pc[c] = "insert"
  BY <1>1, InsertRunMoves DEF Away, Notes, Onward, Goes, Moved, Ends, GivesUp, Raises, Resting
<1>5. CASE UNCHANGED repo
  BY <1>1, <1>3, <1>4, <1>5, AsideCourse DEF Aside
<1>6. CASE /\ repo[x].status = "absent"
           /\ repo'[x] = [Absent EXCEPT !.status = "created", !.version = 1]
           /\ \A s \in Runs \ {x} : repo'[s] = repo[s]
  <2>1. repo'[x].status = "created"
    BY <1>6 DEF Absent
  <2> QED
    BY <1>1, <1>3, <1>4, <1>6, <2>1, WriteCourse DEF Ended, Terminal
<1> QED
  BY <1>1, <1>5, <1>6, InsertRunMoves

LEMMA ResumeRunCourse ==
    ASSUME TInv, IInv, Course, NEW c \in Callers, ResumeRun(c)
    PROVE  Course'
<1>1. PICK x \in Runs : /\ Run(c) = x /\ c \in Procs /\ pc[c] \notin Resting
                        /\ c \in Runs => c = x
  BY Serves DEF Procs, Resting, ResumeRun
<1>2. /\ Fits(c) /\ Counts(x) /\ Holds(c) /\ Knows(c) /\ Applies(c)
      /\ repo[x] \in Record /\ Snap(c) \in Record
      /\ job[c].target \in Outcomes /\ question[x] \in Nat /\ asked[x] \in Nat
  BY <1>1, KnownRecord DEF Course, IInv, Local, TInv, TypeOK
<1>3. pc'[c] \in Resting \/ Fits(c)'
  <2>1. CASE Ends(c)
    BY <2>1 DEF Ends
  <2>2. CASE /\ Writes(c, "running", Snap(c).counted) /\ repo[Run(c)].status = "waiting_input"
             /\ Goes(c, "resumed", Revised(c, "running", Snap(c).counted),
                     job[c].target, job[c].charged)
    <3>1. /\ Run(c)' = Run(c) /\ pc'[c] = "resumed" /\ repo'[Run(c)].status = "running"
      BY <2>2 DEF Writes, Goes, Revised, Run
    <3>2. /\ UNCHANGED <<question, asked, reported, prefix>> /\ question[x] # 0
      BY <1>1, <1>2, ResumeRunMoves DEF Fits, Questions
    <3>3. asked[x] <= question[x] /\ (x \in reported => x \in prefix)
      BY <1>1, <1>2, <2>2, <3>2 DEF Counts, Ended, Terminal
    <3> QED
      BY <1>1, <3>1, <3>2, <3>3 DEF Fits, Phase, Usage, Informed, Questions, Stored,
         Before, Queued, Active, Unpaid, Withheld, Carried, Failing
  <2> QED
    BY <2>1, <2>2, ResumeRunMoves
<1>4. /\ Alone(c) /\ pc[c] = "resume" /\ UNCHANGED <<log, question, asked, reported, prefix>>
  BY ResumeRunMoves DEF Onward, Goes, Moved, Ends, GivesUp, Raises, Resting
<1>5. CASE UNCHANGED repo /\ Ends(c)
  <2>1. Away(c) /\ Notes(c) /\ Aside
    BY <1>4, <1>5 DEF Away, Notes, Aside, Ends, Resting
  <2> QED
    BY <1>1, <1>3, <1>4, <2>1, AsideCourse
<1>6. CASE /\ Writes(c, "running", Snap(c).counted) /\ repo[Run(c)].status = "waiting_input"
           /\ Goes(c, "resumed", Revised(c, "running", Snap(c).counted),
                   job[c].target, job[c].charged)
  <2>1. /\ repo'[x].status = "running" /\ repo[x].status = "waiting_input"
        /\ \A s \in Runs \ {x} : repo'[s] = repo[s]
        /\ job'[c].run = x
    BY <1>1, <1>6 DEF Writes, Goes, Revised
  <2>2. Frame(c, x)
    BY <1>4, <2>1 DEF Frame, Waiting, Ended, Terminal
  <2>3. \A s \in Runs \ {x} : Resumed(s)' = Resumed(s)
    BY <1>1, <1>4, <2>1, OthersResumed
  <2>4. Resumed(x)' <= Resumed(x) + 1 /\ Resumed(x)' \in Nat /\ Resumed(x) \in Nat
    <3>1. Positions(x, {"run_resumed"})' = Positions(x, {"run_resumed"})
      BY <1>4, SamePositions
    <3>2. Cardinality(Positions(x, {"run_resumed"})) \in Nat
      BY PositionsFinite
    <3> QED
      BY <3>1, <3>2, SMT DEF Resumed
  <2>5. Counts(x)'
    BY <1>2, <1>4, <2>1, <2>4 DEF Counts, Ended, Terminal
  <2> QED
    BY <1>1, <1>3, <2>2, <2>3, <2>5, CourseStep
<1> QED
  BY <1>5, <1>6, ResumeRunMoves

LEMMA RecordResumedCourse ==
    ASSUME TInv, IInv, Course, NEW c \in Callers, RecordResumed(c)
    PROVE  Course'
<1>1. PICK x \in Runs : /\ Run(c) = x /\ c \in Procs /\ pc[c] \notin Resting
                        /\ c \in Runs => c = x
  BY Serves DEF Procs, Resting, RecordResumed
<1>2. /\ Fits(c) /\ Counts(x) /\ Holds(c) /\ Knows(c) /\ Applies(c)
      /\ repo[x] \in Record /\ Snap(c) \in Record
      /\ job[c].target \in Outcomes /\ question[x] \in Nat /\ asked[x] \in Nat
  BY <1>1, KnownRecord DEF Course, IInv, Local, TInv, TypeOK
<1>3. pc'[c] \in Resting \/ Fits(c)'
  BY <1>1, <1>2, RecordResumedFits
<1>4. /\ Alone(c) /\ pc[c] = "resumed" /\ pc'[c] = "graph" /\ job'[c].run = x
      /\ Emit(c, "run_resumed") /\ Aside
  BY <1>1, RecordResumedMoves DEF Onward, Goes, Moved, Ends, GivesUp, Raises, Resting
<1>5. Frame(c, x)
  BY <1>4 DEF Frame, Aside
<1>6. \A s \in Runs \ {x} : log'[s] = log[s]
  BY <1>1, <1>4 DEF Emit, TInv, TypeOK
<1>7. \A s \in Runs \ {x} : Resumed(s)' = Resumed(s)
  BY <1>1, <1>4, <1>6, OthersResumed
<1>8. Resumed(x)' <= Resumed(x) /\ Resumed(x)' \in Nat /\ Resumed(x) \in Nat
  <2> DEFINE P == Positions(x, {"run_resumed"})
  <2>1. P' = P \cup {Len(log[x]) + 1}
    BY <1>1, <1>4, EmitPositions DEF Event
  <2>2. IsFiniteSet(P) /\ Cardinality(P) \in Nat
    BY PositionsFinite
  <2>3. Cardinality(P') \in Nat /\ Cardinality(P') <= Cardinality(P) + 1
    BY <2>1, <2>2, FS_AddElement
  <2>4. Resuming(x)
    BY <1>1, <1>4 DEF Resuming
  <2>5. ~Resuming(x)'
    <3>1. SUFFICES ASSUME NEW q \in Procs, job'[q].run = x, pc'[q] = "resumed" PROVE FALSE
      BY DEF Resuming, Run
    <3>2. q # c /\ pc[q] = "resumed" /\ Run(q) = x
      BY <1>4, <3>1 DEF Alone, Run
    <3>3. Ended(x) \/ ~(pc[c] \in Busy /\ pc[q] \in Busy)
      BY <1>1, <1>4, <3>2 DEF IInv, Apart, Resting, Holding
    <3>4. pc[c] \in Busy /\ pc[q] \in Busy
      BY <1>4, <3>2 DEF Busy
    <3> QED
      BY <1>1, <1>4, <3>2, <3>4 DEF IInv, Apart, Resting
  <2> QED
    BY <2>2, <2>3, <2>4, <2>5 DEF Resumed
<1>9. Counts(x)'
  BY <1>2, <1>4, <1>8, CountsStays DEF Aside
<1> QED
  BY <1>1, <1>3, <1>5, <1>7, <1>9, CourseStep

\* A request arrives at an idle caller.
LEMMA ArrivalCourse ==
    ASSUME TInv, IInv, Course, NEW c \in Procs, NEW r \in Runs, pc[c] \in Resting,
           Alone(c), pc'[c] \notin Holding \cup {"resume"}, Aside, UNCHANGED log
    PROVE  Course'
<1>1. Frame(c, r)
  BY DEF Frame, Aside
<1>2. Fits(c)'
  BY Steps DEF Fits, Phase, Usage, Informed, Questions
<1>3. "resumed" \in Holding /\ "resumed" \notin Resting
  BY DEF Holding, Resting
<1>4. \A s \in Runs : Resumed(s)' = Resumed(s)
  BY <1>3, SamePositions, ResumedSame
<1>5. /\ Counts(r) /\ Resumed(r) \in Nat /\ Resumed(r)' \in Nat /\ Resumed(r)' <= Resumed(r)
      /\ asked[r] \in Nat
  BY <1>4, ResumedNat DEF Course, TInv, TypeOK
<1>6. Counts(r)'
  BY <1>5, CountsStays DEF Aside
<1> QED
  BY <1>1, <1>2, <1>4, <1>6, CourseStep

LEMMA LookupRequestMoves ==
    ASSUME TInv, NEW c \in Callers, NEW r \in Runs, LookupRequest(c, r)
    PROVE  /\ c \in Procs /\ pc[c] = "idle" /\ pc'[c] = "insert" /\ job'[c].run = r /\ Alone(c)
           /\ Aside /\ UNCHANGED <<log, cancelled, stateLock, hubClosed>>
<1>1. c \in Procs
  BY DEF Procs
<1>2. pc[c] = "idle" /\ With(c, "insert", [NoJob EXCEPT !.run = r]) /\ UNCHANGED <<repo, log, mem, rest>>
  BY DEF LookupRequest
<1> QED
  BY <1>1, <1>2 DEF With, Goto, Become, Alone, Aside, mem, rest, TInv, TypeOK, NoJob

LEMMA LoadWaitingMoves ==
    ASSUME TInv, NEW c \in Callers, NEW r \in Runs, LoadWaiting(c, r)
    PROVE  /\ c \in Procs /\ pc[c] = "idle" /\ pc'[c] = "match" /\ job'[c].run = r /\ Alone(c)
           /\ Aside /\ UNCHANGED <<log, cancelled, stateLock, hubClosed>>
<1>1. c \in Procs
  BY DEF Procs
<1>2. PICK q \in 1 .. asked[r] :
        With(c, "match", [NoJob EXCEPT !.run = r, !.snap = repo[r], !.answer = q])
  BY DEF LoadWaiting
<1>3. pc[c] = "idle" /\ UNCHANGED <<repo, log, mem, rest>>
  BY DEF LoadWaiting
<1> QED
  BY <1>1, <1>2, <1>3 DEF With, Goto, Become, Alone, Aside, mem, rest, TInv, TypeOK, NoJob

LEMMA CancelLoadMoves ==
    ASSUME TInv, NEW c \in Callers, NEW r \in Runs, CancelLoad(c, r)
    PROVE  /\ c \in Procs /\ pc[c] = "idle" /\ pc'[c] \in {"cancel_try", "cancel_mark"}
           /\ job'[c].run = r /\ job'[c].snap = repo[r] /\ job'[c].tries = 0 /\ Alone(c)
           /\ stateLock = None /\ repo[r].status \notin Terminal \cup {"absent"}
           /\ Aside /\ UNCHANGED log /\ cancelled' = cancelled \cup {r}
<1> DEFINE step == IF r \in cancelled THEN "cancel_try" ELSE "cancel_mark"
           j    == [NoJob EXCEPT !.run = r, !.snap = repo[r]]
<1>1. c \in Procs /\ step \in {"cancel_try", "cancel_mark"}
  BY DEF Procs
<1>2. j.run = r /\ j.snap = repo[r] /\ j.tries = 0
  BY DEF NoJob
<1>3. /\ pc[c] = "idle" /\ stateLock = None /\ repo[r].status \notin Terminal \cup {"absent"}
      /\ With(c, step, j) /\ UNCHANGED <<repo, log, prefix, question, rest>>
      /\ cancelled' = cancelled \cup {r}
  BY DEF CancelLoad, LockFree
<1> HIDE DEF step, j
<1> QED
  BY <1>1, <1>2, <1>3 DEF With, Goto, Become, Alone, Aside, rest, TInv, TypeOK

LEMMA RequestCourse ==
    ASSUME TInv, IInv, Course, NEW c \in Callers, Request(c)
    PROVE  Course'
<1>1. {"insert", "match", "cancel_try", "cancel_mark"} \cap (Holding \cup {"resume"}) = {}
      /\ "idle" \in Resting
  BY DEF Holding, Resting
<1>2. ASSUME NEW r \in Runs, LookupRequest(c, r) PROVE Course'
  BY <1>1, <1>2, LookupRequestMoves, ArrivalCourse
<1>3. ASSUME NEW r \in Runs, LoadWaiting(c, r) PROVE Course'
  BY <1>1, <1>3, LoadWaitingMoves, ArrivalCourse
<1>4. ASSUME NEW r \in Runs, CancelLoad(c, r) PROVE Course'
  BY <1>1, <1>4, CancelLoadMoves, ArrivalCourse
<1> QED
  BY <1>2, <1>3, <1>4 DEF Request

LEMMA SpawnTaskMoves ==
    ASSUME TInv, NEW c \in Callers, NEW mode \in {"direct", "prepare"}, SpawnTask(c, mode)
    PROVE  \E r \in Runs :
             /\ c \in Procs /\ r \in Procs /\ c # r /\ Run(c) = r /\ pc[c] = "spawn"
             /\ pc'[c] = "idle" /\ pc'[r] \in {"load", "guard"} /\ job'[r].run = r
             /\ \A q \in Procs \ {c, r} : pc'[q] = pc[q] /\ job'[q] = job[q]
             /\ Aside /\ UNCHANGED <<log, cancelled, stateLock, hubClosed>>
<1> DEFINE step == IF mode = "direct" THEN "load" ELSE "guard"
           new  == [NoJob EXCEPT !.run = Run(c), !.mode = mode]
<1>1. c \in Procs /\ c \notin Runs /\ pc[c] \notin Resting
  BY ProcessesDistinct DEF Procs, Resting, SpawnTask
<1>2. PICK r \in Runs : r = Run(c)
  BY <1>1, Serves
<1>3. step \in {"load", "guard"} /\ new.run = r
  BY <1>2 DEF NoJob
<1>4. /\ pc' = [pc EXCEPT ![c] = "idle", ![r] = step]
      /\ job' = [job EXCEPT ![c] = NoJob, ![r] = new]
      /\ pc[c] = "spawn" /\ UNCHANGED <<repo, log, mem, rest>>
  BY <1>2 DEF SpawnTask
<1> HIDE DEF step, new
<1>5. r \in Procs /\ r # c
  BY <1>1 DEF Procs
<1> QED
  BY <1>1, <1>2, <1>3, <1>4, <1>5 DEF Aside, mem, rest, TInv, TypeOK

LEMMA SpawnTaskCourse ==
    ASSUME TInv, IInv, Course, NEW c \in Callers, NEW mode \in {"direct", "prepare"},
           SpawnTask(c, mode)
    PROVE  Course'
<1>1. PICK r \in Runs :
         /\ c \in Procs /\ r \in Procs /\ c # r /\ Run(c) = r /\ pc[c] = "spawn"
         /\ pc'[c] = "idle" /\ pc'[r] \in {"load", "guard"} /\ job'[r].run = r
         /\ \A q \in Procs \ {c, r} : pc'[q] = pc[q] /\ job'[q] = job[q]
         /\ Aside /\ UNCHANGED log
  BY SpawnTaskMoves
<1>2. Fits(c)
  BY <1>1 DEF Course, Resting
<1>3. repo[r].status \in {"queued", "cancelled"} /\ (r \in reported => Ended(r))
  BY <1>1, <1>2 DEF Fits, Phase, Usage, Queued, Unpaid, Stored
<1>4. Fits(r)'
  BY <1>1, <1>3 DEF Fits, Phase, Usage, Informed, Questions, Stored, Ended, Run, Aside,
     Before, Queued, Active, Unpaid, Withheld, Carried, Failing
<1>5. ASSUME NEW q \in Procs, pc'[q] \notin Resting
      PROVE  Fits(q)'
  <2>1. CASE q = c
    BY <1>1, <1>5, <2>1 DEF Resting
  <2>2. CASE q = r
    BY <1>4, <2>2
  <2>3. CASE q \notin {c, r}
    <3>1. pc'[q] = pc[q] /\ job'[q] = job[q] /\ Run(q)' = Run(q) /\ Snap(q)' = Snap(q) /\ Fits(q)
      BY <1>1, <1>5, <2>3 DEF Course, Run, Snap
    <3> QED
      BY <1>1, <3>1 DEF Aside, Fits, Phase, Usage, Informed, Questions, Stored, Ended, Counted
  <2> QED
    BY <2>1, <2>2, <2>3
<1>6. ASSUME NEW s \in Runs PROVE Counts(s)'
  <2>1. Resuming(s)' => Resuming(s)
    BY <1>1 DEF Resuming, Run
  <2>2. Positions(s, {"run_resumed"})' = Positions(s, {"run_resumed"})
    BY <1>1, SamePositions
  <2>3. Cardinality(Positions(s, {"run_resumed"})) \in Nat
    BY PositionsFinite
  <2>4. Resumed(s) \in Nat /\ Resumed(s)' \in Nat /\ Resumed(s)' <= Resumed(s)
    BY <2>1, <2>2, <2>3 DEF Resumed
  <2>5. Counts(s) /\ asked[s] \in Nat
    BY DEF Course, TInv, TypeOK
  <2> QED
    BY <1>1, <2>4, <2>5, CountsStays DEF Aside
<1> QED
  BY <1>5, <1>6 DEF Course

LEMMA RestartCourse ==
    ASSUME TInv, IInv, Course, Restart
    PROVE  Course'
<1>1. /\ \A q \in Procs : pc'[q] \in Resting
      /\ UNCHANGED <<repo, log, asked, reported>> /\ prefix' = {}
      /\ \A s \in Runs : question'[s] = 0
  BY DEF Restart, Resting
<1>2. ASSUME NEW s \in Runs PROVE Counts(s)'
  <2>1. ~Resuming(s)'
    BY <1>1 DEF Resuming, Resting
  <2>2. Positions(s, {"run_resumed"})' = Positions(s, {"run_resumed"})
    BY <1>1, SamePositions
  <2>3. Cardinality(Positions(s, {"run_resumed"})) \in Nat
    BY PositionsFinite
  <2>4. Resumed(s) \in Nat /\ Resumed(s)' \in Nat /\ Resumed(s)' <= Resumed(s)
    BY <2>1, <2>2, <2>3 DEF Resumed
  <2>5. Counts(s) /\ asked[s] \in Nat
    BY DEF Course, TInv, TypeOK
  <2> QED
    BY <1>1, <2>4, <2>5, CountsStays
<1> QED
  BY <1>1, <1>2 DEF Course

LEMMA CourseInitial == Init => Course
<1> SUFFICES ASSUME Init PROVE Course
  OBVIOUS
<1>1. ASSUME NEW r \in Runs PROVE Counts(r)
  <2>1. Positions(r, {"run_resumed"}) = {} /\ ~Resuming(r)
    BY DEF Init, Positions, Resuming
  <2>2. Resumed(r) = 0
    BY <2>1, FS_EmptySet DEF Resumed
  <2>3. repo[r].status = "absent" /\ asked[r] = 0 /\ question[r] = 0 /\ reported = {}
    BY DEF Init, Absent
  <2> QED
    BY <2>2, <2>3 DEF Counts, Ended, Terminal
<1>2. \A p \in Procs : pc[p] \in Resting
  BY DEF Init, Resting
<1> QED
  BY <1>1, <1>2 DEF Course

LEMMA CoursePreserved == TInv /\ IInv /\ Course /\ [Next]_vars => Course'
<1> SUFFICES ASSUME TInv, IInv, Course, [Next]_vars PROVE Course'
  OBVIOUS
<1>1. ASSUME NEW c \in Callers, CallerStep(c) PROVE Course'
  BY <1>1, InsertRunCourse, RecordCreatedCourse, QueueRunCourse, RecordQueuedCourse,
     SpawnTaskCourse, MatchCheckpointCourse, ResumeRunCourse, RecordResumedCourse,
     RecordCancelRequestCourse, CancelTryCourse, CancelReloadCourse, RecordCancelledCourse
     DEF CallerStep
<1>2. ASSUME NEW r \in Runs, TaskStep(r) PROVE Course'
  BY <1>2, PrepareGuardCourse, PrepareReturnsCourse, PrepareFailsCourse, PrepareLoadCourse,
     PrepareSaveCourse, PrepareCheckCourse, LoadQueuedCourse, SelectStrategyCourse,
     RejectStrategyCourse, RejectPayloadCourse, StartRunCourse, RecordStartedCourse,
     FailLoadCourse, FailStartCourse, SettleLoadCourse, SettleChargeCourse, SettleStartCourse,
     RecordSettleStartedCourse, SettleSpendCourse
     DEF TaskStep
<1>3. ASSUME NEW p \in Procs, GraphStep(p) PROVE Course'
  BY <1>3, GraphReturnsCourse, GraphRaisesCourse, ApplyLockCourse, ApplySaveCourse,
     RecordCheckpointCourse, RecordBudgetCourse, PublishResultCourse, RecordOutcomeCourse
     DEF GraphStep
<1>4. CASE UNCHANGED vars
  <2>1. \A p \in Procs : pc'[p] \notin Resting => Fits(p)'
    BY <1>4 DEF vars, Course, Fits, Phase, Usage, Informed, Questions, Ended, Stored, Run, Snap,
       Counted
  <2>2. \A r \in Runs : Counts(r)'
    BY <1>4 DEF vars, Course, Counts, Resumed, Resuming, Positions, Ended, Run
  <2> QED
    BY <2>1, <2>2 DEF Course
<1> QED
  BY <1>1, <1>2, <1>3, <1>4, RequestCourse, RestartCourse DEF Next

\* In every reachable state a coroutine finds its Run as its step expects it, whatever
\* the others did since it last looked, and the resumptions of a Run match its questions.
THEOREM CourseKept == Spec => [](TInv /\ IInv /\ Course)
<1>1. Init => TInv /\ IInv /\ Course
  BY TypeInitial, InitSafe, CourseInitial
<1>2. TInv /\ IInv /\ Course /\ [Next]_vars => (TInv /\ IInv /\ Course)'
  BY TypePreserved, InvariantPreserved, CoursePreserved
<1> QED
  BY <1>1, <1>2, PTL DEF Spec

\* A Run that ends otherwise than cancelled stores the usage its preparation paid for
\* (_pipeline_usage) unless an error without it lost it in the preparation, whichever of the paths through _apply_graph_result and
\* _settle_background_failure writes its final status.
THEOREM UsageReported == Spec => []UsageKept
<1>1. TInv /\ Course => UsageKept
  <2> SUFFICES ASSUME TInv, Course, NEW r \in reported, repo[r].status \in Terminal \ {"cancelled"}
               PROVE  repo[r].counted
    BY DEF UsageKept
  <2>1. r \in Runs /\ Ended(r) /\ repo[r].status # "cancelled"
    BY DEF TInv, TypeOK, Ended
  <2> QED
    BY <2>1 DEF Course, Counts
<1> QED
  BY <1>1, CourseKept, PTL

\* A Run is resumed no more often than it has asked, however many resume requests race
\* (the compare-and-swap of _resume_run_with_context).
THEOREM ResumedOnce == Spec => []ResumedOncePerWait
<1>1. TInv /\ Course => ResumedOncePerWait
  <2> SUFFICES ASSUME TInv, Course, NEW r \in Runs
               PROVE  Cardinality(Positions(r, {"run_resumed"})) <= asked[r]
    BY DEF ResumedOncePerWait
  <2>1. Cardinality(Positions(r, {"run_resumed"})) \in Nat /\ asked[r] \in Nat /\ Resumed(r) <= asked[r]
    BY PositionsFinite DEF Course, Counts, TInv, TypeOK
  <2> QED
    BY <2>1 DEF Resumed
<1> QED
  BY <1>1, CourseKept, PTL

(***************************************************************************)
(* Part 5.  The invariant Told of RunHistory is inductive: one coroutine at*)
(* most owes the log the end of a Run, and no other event names an end.    *)
(***************************************************************************)

(* The end of a Run is told once, and as it was. *)

\* An end is final.
Final == \A r \in Runs : Ended(r) => repo'[r].status = repo[r].status

LEMMA EndsFinal ==
    ASSUME TInv, IInv, [Next]_vars
    PROVE  Final
<1> DEFINE st  == [r \in Runs |-> repo[r].status]
<1>1. \/ st' = st
      \/ \E r \in Runs, s \in Status : s \in Successors(st[r]) /\ st' = [st EXCEPT ![r] = s]
  BY NextRefines DEF Abstract, Contract!Next, Contract!Accept, Contract!Move, Contract!cvars,
     Contract!Successors, Successors, Contract!Status, Status, Contract!Terminal, Terminal,
     Contract!Waiting, Waiting
<1>2. \A r \in Runs : st[r] = repo[r].status /\ st'[r] = repo'[r].status
  OBVIOUS
<1>3. DOMAIN st = Runs
  OBVIOUS
<1>4. \A s \in Terminal : Successors(s) = {}
  BY DEF Successors, Terminal, Waiting
<1> HIDE DEF st
<1> QED
  BY <1>1, <1>2, <1>3, <1>4 DEF Final, Ended

\* The step adds at most one event, and it announces no end.
Hushed == UNCHANGED log
Murmurs(p) == Hushed \/ \E e \in Event \ Terminal : Emit(p, e)

\* What is on record stays.
LEMMA RecordStays ==
    ASSUME TInv, NEW p \in Procs, Run(p) \in Runs, NEW e \in Event, Emit(p, e), NEW r \in Runs
    PROVE  \A i \in DOMAIN log[r] : log'[r][i] = log[r][i]
<1>1. log[r] \in Seq(Event) /\ log'[r] = IF r = Run(p) THEN Append(log[r], e) ELSE log[r]
  BY DEF TInv, TypeOK, Emit
<1> QED
  BY <1>1

LEMMA MurmursKeep ==
    ASSUME TInv, NEW p \in Procs, pc[p] \notin Resting \/ Hushed, Murmurs(p), NEW r \in Runs
    PROVE  /\ Positions(r, Terminal)' = Positions(r, Terminal)
           /\ \A i \in Positions(r, Terminal) : log'[r][i] = log[r][i]
<1>1. CASE Hushed
  BY <1>1, SamePositions DEF Hushed
<1>2. CASE ~Hushed
  <2>1. PICK e \in Event \ Terminal : Emit(p, e)
    BY <1>2 DEF Murmurs
  <2>2. Run(p) \in Runs
    BY <1>2, Serves
  <2>3. Positions(r, Terminal)' = Positions(r, Terminal)
    BY <2>1, <2>2, EmitPositions
  <2>4. \A i \in DOMAIN log[r] : log'[r][i] = log[r][i]
    BY <2>1, <2>2, RecordStays
  <2> QED
    BY <2>3, <2>4 DEF Positions
<1> QED
  BY <1>1, <1>2

\* Who owes the end of its Run has seen it end.
LEMMA OwingEnded ==
    ASSUME Told, NEW p \in Procs, Owing(p)
    PROVE  Ended(Run(p))
BY DEF Told, Owing, Ended, Stored, Terminal, Announcing

\* p owes what it owed before, if anything.
Quiet(p) ==
    /\ Alone(p)
    /\ Murmurs(p)
    /\ Owing(p)' => /\ Owing(p) /\ job'[p].run = Run(p) /\ job'[p].target = job[p].target
                    /\ pc'[p] = "cancel_record" <=> pc[p] = "cancel_record"

LEMMA QuietTold ==
    ASSUME TInv, Told, Final, NEW p \in Procs, pc[p] \notin Resting \/ Hushed, Quiet(p)
    PROVE  Told'
<1>1. /\ \A r \in Runs : Ended(r) => Ended(r)' /\ repo'[r].status = repo[r].status
      /\ \A r \in Runs : Positions(r, Terminal)' = Positions(r, Terminal)
      /\ \A r \in Runs : \A i \in Positions(r, Terminal) : log'[r][i] = log[r][i]
  BY MurmursKeep DEF Quiet, Final, Ended
<1>2. ASSUME NEW q \in Procs, Owing(q)'
      PROVE  /\ Owing(q) /\ Run(q)' = Run(q) /\ job'[q].target = job[q].target
             /\ pc'[q] = "cancel_record" <=> pc[q] = "cancel_record"
  BY <1>2 DEF Quiet, Alone, Owing, Run
<1>3. \A q \in Procs : Owing(q) => Run(q) \in Runs /\ Ended(Run(q))
  BY OwingEnded, Serves DEF Owing, Announcing, Resting
<1>4. ASSUME NEW q \in Procs, Owing(q)'
      PROVE  /\ Positions(Run(q), Terminal)' = {}
             /\ Stored(q)'.status = IF pc'[q] = "cancel_record" THEN "cancelled" ELSE job'[q].target
  <2>1. PICK r \in Runs : Run(q) = r
    BY <1>2, <1>3, <1>4
  <2>2. /\ Positions(r, Terminal) = {} /\ Ended(r)
        /\ repo[r].status = IF pc[q] = "cancel_record" THEN "cancelled" ELSE job[q].target
    BY <1>2, <1>3, <1>4, <2>1 DEF Told, Stored
  <2>3. Run(q)' = r /\ Stored(q)' = repo'[r]
    BY <1>2, <1>4, <2>1 DEF Stored
  <2>4. Positions(Run(q), Terminal)' = Positions(r, Terminal)'
    BY <2>3 DEF Positions
  <2> QED
    BY <1>1, <1>2, <1>4, <2>2, <2>3, <2>4
<1>5. OneOutcome'
  <2> SUFFICES ASSUME NEW r \in Runs, NEW i \in Positions(r, Terminal)', NEW j \in Positions(r, Terminal)'
               PROVE  i = j /\ log'[r][i] = repo'[r].status
    BY DEF OneOutcome
  <2>1. Ended(r)
    BY <1>1 DEF Told
  <2> QED
    BY <1>1, <2>1 DEF Told, OneOutcome
<1>6. \A r \in Runs : ~Ended(r)' => Positions(r, Terminal)' = {}
  BY <1>1 DEF Told
<1>7. \A q, s \in Procs : Owing(q)' /\ Owing(s)' /\ Run(q)' = Run(s)' => q = s
  BY <1>2 DEF Told
<1> QED
  BY <1>4, <1>5, <1>6, <1>7 DEF Told

\* p ends its Run and owes the event.
LEMMA EndingTold ==
    ASSUME TInv, Told, Final, NEW p \in Procs, NEW r \in Runs, Run(p) = r, ~Ended(r),
           Alone(p), Hushed, job'[p].run = r, repo'[r].status \in Terminal,
           repo'[r].status = IF pc'[p] = "cancel_record" THEN "cancelled" ELSE job'[p].target
    PROVE  Told'
<1>1. /\ \A s \in Runs : Ended(s) => Ended(s)' /\ repo'[s].status = repo[s].status
      /\ \A s \in Runs : Positions(s, Terminal)' = Positions(s, Terminal)
      /\ log' = log /\ Positions(r, Terminal) = {}
  BY SamePositions DEF Hushed, Final, Ended, Told
<1>2. \A q \in Procs : Owing(q) => Run(q) \in Runs /\ Ended(Run(q)) /\ Run(q) # r
  BY OwingEnded, Serves DEF Owing, Announcing, Resting
<1>3. ASSUME NEW q \in Procs \ {p}, Owing(q)'
      PROVE  Owing(q) /\ Run(q)' = Run(q) /\ job'[q] = job[q] /\ pc'[q] = pc[q]
  BY <1>3 DEF Alone, Owing, Run
<1>4. Run(p)' = r /\ Stored(p)' = repo'[r]
  BY DEF Run, Stored
<1>5. ASSUME NEW q \in Procs, Owing(q)'
      PROVE  /\ Positions(Run(q), Terminal)' = {}
             /\ Stored(q)'.status = IF pc'[q] = "cancel_record" THEN "cancelled" ELSE job'[q].target
  <2>1. CASE q = p
    <3>1. Positions(Run(q), Terminal)' = Positions(r, Terminal)'
      BY <1>4, <2>1 DEF Positions
    <3> QED
      BY <1>1, <1>4, <2>1, <3>1
  <2>2. CASE q # p
    <3>1. PICK s \in Runs : Run(q) = s
      BY <1>2, <1>3, <1>5, <2>2
    <3>2. /\ Positions(s, Terminal) = {} /\ Ended(s)
          /\ repo[s].status = IF pc[q] = "cancel_record" THEN "cancelled" ELSE job[q].target
      BY <1>2, <1>3, <1>5, <2>2, <3>1 DEF Told, Stored
    <3>3. Run(q)' = s /\ Stored(q)' = repo'[s]
      BY <1>3, <1>5, <2>2, <3>1 DEF Stored
    <3>4. Positions(Run(q), Terminal)' = Positions(s, Terminal)'
      BY <3>3 DEF Positions
    <3> QED
      BY <1>1, <1>3, <1>5, <2>2, <3>2, <3>3, <3>4
  <2> QED
    BY <2>1, <2>2
<1>6. OneOutcome'
  <2> SUFFICES ASSUME NEW s \in Runs, NEW i \in Positions(s, Terminal)', NEW j \in Positions(s, Terminal)'
               PROVE  i = j /\ log'[s][i] = repo'[s].status
    BY DEF OneOutcome
  <2>1. Ended(s)
    BY <1>1 DEF Told
  <2> QED
    BY <1>1, <2>1 DEF Told, OneOutcome
<1>7. \A s \in Runs : ~Ended(s)' => Positions(s, Terminal)' = {}
  BY <1>1 DEF Told
<1>8. \A q, s \in Procs : Owing(q)' /\ Owing(s)' /\ Run(q)' = Run(s)' => q = s
  BY <1>2, <1>3, <1>4 DEF Told
<1> QED
  BY <1>5, <1>6, <1>7, <1>8 DEF Told

\* p announces the end it owes.
LEMMA AnnouncingTold ==
    ASSUME TInv, Told, Final, NEW p \in Procs, NEW r \in Runs, Run(p) = r, Owing(p),
           NEW e \in Terminal, e = repo[r].status,
           Alone(p), Emit(p, e), ~Owing(p)'
    PROVE  Told'
<1>1. /\ \A s \in Runs : Ended(s) => Ended(s)' /\ repo'[s].status = repo[s].status
      /\ Ended(r) /\ Positions(r, Terminal) = {} /\ e \in Event
  BY OwingEnded DEF Final, Ended, Told, Event, Outcomes
<1>2. /\ Positions(r, Terminal)' = {Len(log[r]) + 1}
      /\ \A s \in Runs \ {r} : Positions(s, Terminal)' = Positions(s, Terminal)
      /\ \A s \in Runs \ {r} : \A i \in Positions(s, Terminal) : log'[s][i] = log[s][i]
  <2>1. \A s \in Runs : Positions(s, Terminal)' = IF s = r THEN Positions(s, Terminal) \cup {Len(log[s]) + 1}
                                                   ELSE Positions(s, Terminal)
    BY <1>1, EmitPositions
  <2>2. \A s \in Runs : \A i \in DOMAIN log[s] : log'[s][i] = log[s][i]
    BY <1>1, RecordStays
  <2> QED
    BY <1>1, <2>1, <2>2 DEF Positions
<1>3. log'[r][Len(log[r]) + 1] = e
  <2>1. log[r] \in Seq(Event) /\ log'[r] = Append(log[r], e)
    BY DEF TInv, TypeOK, Emit
  <2> QED
    BY <1>1, <2>1
<1>4. ASSUME NEW q \in Procs, Owing(q)'
      PROVE  /\ q # p /\ Owing(q) /\ Run(q) \in Runs \ {r} /\ Ended(Run(q)) /\ Run(q)' = Run(q)
             /\ job'[q] = job[q] /\ pc'[q] = pc[q]
  <2>1. q # p
    BY <1>4
  <2>2. Owing(q) /\ Run(q)' = Run(q) /\ job'[q] = job[q] /\ pc'[q] = pc[q]
    BY <1>4, <2>1 DEF Alone, Owing, Run
  <2>3. Run(q) \in Runs /\ Ended(Run(q)) /\ Run(q) # r
    BY <2>1, <2>2, OwingEnded, Serves DEF Owing, Announcing, Resting, Told
  <2> QED
    BY <2>1, <2>2, <2>3
<1>5. ASSUME NEW q \in Procs, Owing(q)'
      PROVE  /\ Positions(Run(q), Terminal)' = {}
             /\ Stored(q)'.status = IF pc'[q] = "cancel_record" THEN "cancelled" ELSE job'[q].target
  <2>1. PICK s \in Runs \ {r} : Run(q) = s
    BY <1>4, <1>5
  <2>2. /\ Positions(s, Terminal) = {} /\ Ended(s)
        /\ repo[s].status = IF pc[q] = "cancel_record" THEN "cancelled" ELSE job[q].target
    BY <1>4, <1>5, <2>1 DEF Told, Stored
  <2>3. Run(q)' = s /\ Stored(q)' = repo'[s]
    BY <1>4, <1>5, <2>1 DEF Stored
  <2>4. Positions(Run(q), Terminal)' = Positions(s, Terminal)'
    BY <2>3 DEF Positions
  <2> QED
    BY <1>1, <1>2, <1>4, <1>5, <2>2, <2>3, <2>4
<1>6. OneOutcome'
  <2> SUFFICES ASSUME NEW s \in Runs, NEW i \in Positions(s, Terminal)', NEW j \in Positions(s, Terminal)'
               PROVE  i = j /\ log'[s][i] = repo'[s].status
    BY DEF OneOutcome
  <2>1. CASE s = r
    BY <1>1, <1>2, <1>3, <2>1
  <2>2. CASE s # r
    <3>1. Ended(s)
      BY <1>2, <2>2 DEF Told
    <3> QED
      BY <1>1, <1>2, <2>2, <3>1 DEF Told, OneOutcome
  <2> QED
    BY <2>1, <2>2
<1>7. \A s \in Runs : ~Ended(s)' => Positions(s, Terminal)' = {}
  BY <1>1, <1>2 DEF Told
<1>8. \A q, s \in Procs : Owing(q)' /\ Owing(s)' /\ Run(q)' = Run(s)' => q = s
  BY <1>4 DEF Told
<1> QED
  BY <1>5, <1>6, <1>7, <1>8 DEF Told

-----------------------------------------------------------------------------
(* Each action: Told and the action give Told'. *)

LEMMA InsertRunTold ==
    ASSUME TInv, IInv, Told, Final, NEW c \in Callers, InsertRun(c)
    PROVE  Told'
<1>1. c \in Procs /\ pc[c] \notin Resting
  BY DEF Procs, Resting, InsertRun
<1>2. Murmurs(c)
  BY InsertRunMoves DEF Murmurs, Hushed
<1>3. /\ Alone(c)
      /\ pc'[c] \notin Announcing \cup {"cancel_record"}
  BY InsertRunMoves DEF Announcing, Onward, Goes, Moved, Ends, GivesUp, Raises, Resting
<1> QED
  BY <1>1, <1>2, <1>3, QuietTold DEF Quiet, Owing

LEMMA RecordCreatedTold ==
    ASSUME TInv, IInv, Told, Final, NEW c \in Callers, RecordCreated(c)
    PROVE  Told'
<1>1. c \in Procs /\ pc[c] \notin Resting
  BY DEF Procs, Resting, RecordCreated
<1>2. Murmurs(c)
  BY RecordCreatedMoves DEF Murmurs, Hushed, Event, Terminal
<1>3. /\ Alone(c)
      /\ pc'[c] \notin Announcing \cup {"cancel_record"}
  BY RecordCreatedMoves DEF Announcing, Onward, Goes, Moved, Ends, GivesUp, Raises, Resting
<1> QED
  BY <1>1, <1>2, <1>3, QuietTold DEF Quiet, Owing

LEMMA QueueRunTold ==
    ASSUME TInv, IInv, Told, Final, NEW c \in Callers, QueueRun(c)
    PROVE  Told'
<1>1. c \in Procs /\ pc[c] \notin Resting
  BY DEF Procs, Resting, QueueRun
<1>2. Murmurs(c)
  BY QueueRunMoves DEF Murmurs, Hushed
<1>3. /\ Alone(c)
      /\ pc'[c] \notin Announcing \cup {"cancel_record"}
  BY QueueRunMoves DEF Announcing, Onward, Goes, Moved, Ends, GivesUp, Raises, Resting
<1> QED
  BY <1>1, <1>2, <1>3, QuietTold DEF Quiet, Owing

LEMMA RecordQueuedTold ==
    ASSUME TInv, IInv, Told, Final, NEW c \in Callers, RecordQueued(c)
    PROVE  Told'
<1>1. c \in Procs /\ pc[c] \notin Resting
  BY DEF Procs, Resting, RecordQueued
<1>2. Murmurs(c)
  BY RecordQueuedMoves DEF Murmurs, Hushed, Event, Terminal
<1>3. /\ Alone(c)
      /\ pc'[c] \notin Announcing \cup {"cancel_record"}
  BY RecordQueuedMoves DEF Announcing, Onward, Goes, Moved, Ends, GivesUp, Raises, Resting
<1> QED
  BY <1>1, <1>2, <1>3, QuietTold DEF Quiet, Owing

LEMMA MatchCheckpointTold ==
    ASSUME TInv, IInv, Told, Final, NEW c \in Callers, MatchCheckpoint(c)
    PROVE  Told'
<1>1. c \in Procs /\ pc[c] \notin Resting
  BY DEF Procs, Resting, MatchCheckpoint
<1>2. Murmurs(c)
  BY MatchCheckpointMoves DEF Murmurs, Hushed
<1>3. /\ Alone(c)
      /\ pc'[c] \notin Announcing \cup {"cancel_record"}
  BY MatchCheckpointMoves DEF Announcing, Onward, Goes, Moved, Ends, GivesUp, Raises, Resting
<1> QED
  BY <1>1, <1>2, <1>3, QuietTold DEF Quiet, Owing

LEMMA ResumeRunTold ==
    ASSUME TInv, IInv, Told, Final, NEW c \in Callers, ResumeRun(c)
    PROVE  Told'
<1>1. c \in Procs /\ pc[c] \notin Resting
  BY DEF Procs, Resting, ResumeRun
<1>2. Murmurs(c)
  BY ResumeRunMoves DEF Murmurs, Hushed
<1>3. /\ Alone(c)
      /\ pc'[c] \notin Announcing \cup {"cancel_record"}
  BY ResumeRunMoves DEF Announcing, Onward, Goes, Moved, Ends, GivesUp, Raises, Resting
<1> QED
  BY <1>1, <1>2, <1>3, QuietTold DEF Quiet, Owing

LEMMA RecordResumedTold ==
    ASSUME TInv, IInv, Told, Final, NEW c \in Callers, RecordResumed(c)
    PROVE  Told'
<1>1. c \in Procs /\ pc[c] \notin Resting
  BY DEF Procs, Resting, RecordResumed
<1>2. Murmurs(c)
  BY RecordResumedMoves DEF Murmurs, Hushed, Event, Terminal
<1>3. /\ Alone(c)
      /\ pc'[c] \notin Announcing \cup {"cancel_record"}
  BY RecordResumedMoves DEF Announcing, Onward, Goes, Moved, Ends, GivesUp, Raises, Resting
<1> QED
  BY <1>1, <1>2, <1>3, QuietTold DEF Quiet, Owing

LEMMA RecordCancelRequestTold ==
    ASSUME TInv, IInv, Told, Final, NEW c \in Callers, RecordCancelRequest(c)
    PROVE  Told'
<1>1. c \in Procs /\ pc[c] \notin Resting
  BY DEF Procs, Resting, RecordCancelRequest
<1>2. Murmurs(c)
  BY RecordCancelRequestMoves DEF Murmurs, Hushed, Event, Terminal
<1>3. /\ Alone(c)
      /\ pc'[c] \notin Announcing \cup {"cancel_record"}
  BY RecordCancelRequestMoves DEF Announcing, Onward, Goes, Moved, Ends, GivesUp, Raises, Resting
<1> QED
  BY <1>1, <1>2, <1>3, QuietTold DEF Quiet, Owing

LEMMA CancelReloadTold ==
    ASSUME TInv, IInv, Told, Final, NEW c \in Callers, CancelReload(c)
    PROVE  Told'
<1>1. c \in Procs /\ pc[c] \notin Resting
  BY DEF Procs, Resting, CancelReload
<1>2. Murmurs(c)
  BY CancelReloadMoves DEF Murmurs, Hushed
<1>3. /\ Alone(c)
      /\ pc'[c] \notin Announcing \cup {"cancel_record"}
  BY CancelReloadMoves DEF Announcing, Onward, Goes, Moved, Ends, GivesUp, Raises, Resting
<1> QED
  BY <1>1, <1>2, <1>3, QuietTold DEF Quiet, Owing

LEMMA PrepareGuardTold ==
    ASSUME TInv, IInv, Told, Final, NEW r \in Runs, PrepareGuard(r)
    PROVE  Told'
<1>1. r \in Procs /\ pc[r] \notin Resting
  BY DEF Procs, Resting, PrepareGuard
<1>2. Murmurs(r)
  BY PrepareGuardMoves DEF Murmurs, Hushed
<1>3. /\ Alone(r)
      /\ pc'[r] \notin Announcing \cup {"cancel_record"}
  BY PrepareGuardMoves DEF Announcing, Onward, Goes, Moved, Ends, GivesUp, Raises, Resting
<1> QED
  BY <1>1, <1>2, <1>3, QuietTold DEF Quiet, Owing

LEMMA PrepareReturnsTold ==
    ASSUME TInv, IInv, Told, Final, NEW r \in Runs, PrepareReturns(r)
    PROVE  Told'
<1>1. r \in Procs /\ pc[r] \notin Resting
  BY DEF Procs, Resting, PrepareReturns
<1>2. Murmurs(r)
  BY PrepareReturnsMoves DEF Murmurs, Hushed
<1>3. /\ Alone(r)
      /\ pc'[r] \notin Announcing \cup {"cancel_record"}
  BY PrepareReturnsMoves DEF Announcing, Onward, Goes, Moved, Ends, GivesUp, Raises, Resting
<1> QED
  BY <1>1, <1>2, <1>3, QuietTold DEF Quiet, Owing

LEMMA PrepareFailsTold ==
    ASSUME TInv, IInv, Told, Final, NEW r \in Runs, PrepareFails(r)
    PROVE  Told'
<1>1. r \in Procs /\ pc[r] \notin Resting
  BY DEF Procs, Resting, PrepareFails
<1>2. Murmurs(r)
  BY PrepareFailsMoves DEF Murmurs, Hushed
<1>3. /\ Alone(r)
      /\ pc'[r] \notin Announcing \cup {"cancel_record"}
  BY PrepareFailsMoves DEF Announcing, Onward, Goes, Moved, Ends, GivesUp, Raises, Resting
<1> QED
  BY <1>1, <1>2, <1>3, QuietTold DEF Quiet, Owing

LEMMA PrepareLoadTold ==
    ASSUME TInv, IInv, Told, Final, NEW r \in Runs, PrepareLoad(r)
    PROVE  Told'
<1>1. r \in Procs /\ pc[r] \notin Resting
  BY DEF Procs, Resting, PrepareLoad
<1>2. Murmurs(r)
  BY PrepareLoadMoves DEF Murmurs, Hushed
<1>3. /\ Alone(r)
      /\ pc'[r] \notin Announcing \cup {"cancel_record"}
  BY PrepareLoadMoves DEF Announcing, Onward, Goes, Moved, Ends, GivesUp, Raises, Resting
<1> QED
  BY <1>1, <1>2, <1>3, QuietTold DEF Quiet, Owing

LEMMA PrepareSaveTold ==
    ASSUME TInv, IInv, Told, Final, NEW r \in Runs, PrepareSave(r)
    PROVE  Told'
<1>1. r \in Procs /\ pc[r] \notin Resting
  BY DEF Procs, Resting, PrepareSave
<1>2. Murmurs(r)
  BY PrepareSaveMoves DEF Murmurs, Hushed
<1>3. /\ Alone(r)
      /\ pc'[r] \notin Announcing \cup {"cancel_record"}
  BY PrepareSaveMoves DEF Announcing, Onward, Goes, Moved, Ends, GivesUp, Raises, Resting
<1> QED
  BY <1>1, <1>2, <1>3, QuietTold DEF Quiet, Owing

LEMMA PrepareCheckTold ==
    ASSUME TInv, IInv, Told, Final, NEW r \in Runs, PrepareCheck(r)
    PROVE  Told'
<1>1. r \in Procs /\ pc[r] \notin Resting
  BY DEF Procs, Resting, PrepareCheck
<1>2. Murmurs(r)
  BY PrepareCheckMoves DEF Murmurs, Hushed
<1>3. /\ Alone(r)
      /\ pc'[r] \notin Announcing \cup {"cancel_record"}
  BY PrepareCheckMoves DEF Announcing, Onward, Goes, Moved, Ends, GivesUp, Raises, Resting
<1> QED
  BY <1>1, <1>2, <1>3, QuietTold DEF Quiet, Owing

LEMMA LoadQueuedTold ==
    ASSUME TInv, IInv, Told, Final, NEW r \in Runs, LoadQueued(r)
    PROVE  Told'
<1>1. r \in Procs /\ pc[r] \notin Resting
  BY DEF Procs, Resting, LoadQueued
<1>2. Murmurs(r)
  BY LoadQueuedMoves DEF Murmurs, Hushed
<1>3. /\ Alone(r)
      /\ pc'[r] \notin Announcing \cup {"cancel_record"}
  BY LoadQueuedMoves DEF Announcing, Onward, Goes, Moved, Ends, GivesUp, Raises, Resting
<1> QED
  BY <1>1, <1>2, <1>3, QuietTold DEF Quiet, Owing

LEMMA SelectStrategyTold ==
    ASSUME TInv, IInv, Told, Final, NEW r \in Runs, SelectStrategy(r)
    PROVE  Told'
<1>1. r \in Procs /\ pc[r] \notin Resting
  BY DEF Procs, Resting, SelectStrategy
<1>2. Murmurs(r)
  BY SelectStrategyMoves DEF Murmurs, Hushed, Event, Terminal
<1>3. /\ Alone(r)
      /\ pc'[r] \notin Announcing \cup {"cancel_record"}
  BY SelectStrategyMoves DEF Announcing, Onward, Goes, Moved, Ends, GivesUp, Raises, Resting
<1> QED
  BY <1>1, <1>2, <1>3, QuietTold DEF Quiet, Owing

LEMMA RejectStrategyTold ==
    ASSUME TInv, IInv, Told, Final, NEW r \in Runs, RejectStrategy(r)
    PROVE  Told'
<1>1. r \in Procs /\ pc[r] \notin Resting
  BY DEF Procs, Resting, RejectStrategy
<1>2. Murmurs(r)
  BY RejectStrategyMoves DEF Murmurs, Hushed
<1>3. /\ Alone(r)
      /\ pc'[r] \notin Announcing \cup {"cancel_record"}
  BY RejectStrategyMoves DEF Announcing, Onward, Goes, Moved, Ends, GivesUp, Raises, Resting
<1> QED
  BY <1>1, <1>2, <1>3, QuietTold DEF Quiet, Owing

LEMMA RejectPayloadTold ==
    ASSUME TInv, IInv, Told, Final, NEW r \in Runs, RejectPayload(r)
    PROVE  Told'
<1>1. r \in Procs /\ pc[r] \notin Resting
  BY DEF Procs, Resting, RejectPayload
<1>2. Murmurs(r)
  BY RejectPayloadMoves DEF Murmurs, Hushed
<1>3. /\ Alone(r)
      /\ pc'[r] \notin Announcing \cup {"cancel_record"}
  BY RejectPayloadMoves DEF Announcing, Onward, Goes, Moved, Ends, GivesUp, Raises, Resting
<1> QED
  BY <1>1, <1>2, <1>3, QuietTold DEF Quiet, Owing

LEMMA StartRunTold ==
    ASSUME TInv, IInv, Told, Final, NEW r \in Runs, StartRun(r)
    PROVE  Told'
<1>1. r \in Procs /\ pc[r] \notin Resting
  BY DEF Procs, Resting, StartRun
<1>2. Murmurs(r)
  BY StartRunMoves DEF Murmurs, Hushed
<1>3. /\ Alone(r)
      /\ pc'[r] \notin Announcing \cup {"cancel_record"}
  BY StartRunMoves DEF Announcing, Onward, Goes, Moved, Ends, GivesUp, Raises, Resting
<1> QED
  BY <1>1, <1>2, <1>3, QuietTold DEF Quiet, Owing

LEMMA RecordStartedTold ==
    ASSUME TInv, IInv, Told, Final, NEW r \in Runs, RecordStarted(r)
    PROVE  Told'
<1>1. r \in Procs /\ pc[r] \notin Resting
  BY DEF Procs, Resting, RecordStarted
<1>2. Murmurs(r)
  BY RecordStartedMoves DEF Murmurs, Hushed, Event, Terminal
<1>3. /\ Alone(r)
      /\ pc'[r] \notin Announcing \cup {"cancel_record"}
  BY RecordStartedMoves DEF Announcing, Onward, Goes, Moved, Ends, GivesUp, Raises, Resting
<1> QED
  BY <1>1, <1>2, <1>3, QuietTold DEF Quiet, Owing

LEMMA FailLoadTold ==
    ASSUME TInv, IInv, Told, Final, NEW r \in Runs, FailLoad(r)
    PROVE  Told'
<1>1. r \in Procs /\ pc[r] \notin Resting
  BY DEF Procs, Resting, FailLoad
<1>2. Murmurs(r)
  BY FailLoadMoves DEF Murmurs, Hushed
<1>3. /\ Alone(r)
      /\ pc'[r] \notin Announcing \cup {"cancel_record"}
  BY FailLoadMoves DEF Announcing, Onward, Goes, Moved, Ends, GivesUp, Raises, Resting
<1> QED
  BY <1>1, <1>2, <1>3, QuietTold DEF Quiet, Owing

LEMMA FailStartTold ==
    ASSUME TInv, IInv, Told, Final, NEW r \in Runs, FailStart(r)
    PROVE  Told'
<1>1. r \in Procs /\ pc[r] \notin Resting
  BY DEF Procs, Resting, FailStart
<1>2. Murmurs(r)
  BY FailStartMoves DEF Murmurs, Hushed
<1>3. /\ Alone(r)
      /\ pc'[r] \notin Announcing \cup {"cancel_record"}
  BY FailStartMoves DEF Announcing, Onward, Goes, Moved, Ends, GivesUp, Raises, Resting
<1> QED
  BY <1>1, <1>2, <1>3, QuietTold DEF Quiet, Owing

LEMMA SettleLoadTold ==
    ASSUME TInv, IInv, Told, Final, NEW r \in Runs, SettleLoad(r)
    PROVE  Told'
<1>1. r \in Procs /\ pc[r] \notin Resting
  BY DEF Procs, Resting, SettleLoad
<1>2. Murmurs(r)
  BY SettleLoadMoves DEF Murmurs, Hushed
<1>3. /\ Alone(r)
      /\ pc'[r] \notin Announcing \cup {"cancel_record"}
  BY SettleLoadMoves DEF Announcing, Onward, Goes, Moved, Ends, GivesUp, Raises, Resting
<1> QED
  BY <1>1, <1>2, <1>3, QuietTold DEF Quiet, Owing

LEMMA SettleChargeTold ==
    ASSUME TInv, IInv, Told, Final, NEW r \in Runs, SettleCharge(r)
    PROVE  Told'
<1>1. r \in Procs /\ pc[r] \notin Resting
  BY DEF Procs, Resting, SettleCharge
<1>2. Murmurs(r)
  BY SettleChargeMoves DEF Murmurs, Hushed
<1>3. /\ Alone(r)
      /\ pc'[r] \notin Announcing \cup {"cancel_record"}
  BY SettleChargeMoves DEF Announcing, Onward, Goes, Moved, Ends, GivesUp, Raises, Resting
<1> QED
  BY <1>1, <1>2, <1>3, QuietTold DEF Quiet, Owing

LEMMA SettleStartTold ==
    ASSUME TInv, IInv, Told, Final, NEW r \in Runs, SettleStart(r)
    PROVE  Told'
<1>1. r \in Procs /\ pc[r] \notin Resting
  BY DEF Procs, Resting, SettleStart
<1>2. Murmurs(r)
  BY SettleStartMoves DEF Murmurs, Hushed
<1>3. /\ Alone(r)
      /\ pc'[r] \notin Announcing \cup {"cancel_record"}
  BY SettleStartMoves DEF Announcing, Onward, Goes, Moved, Ends, GivesUp, Raises, Resting
<1> QED
  BY <1>1, <1>2, <1>3, QuietTold DEF Quiet, Owing

LEMMA RecordSettleStartedTold ==
    ASSUME TInv, IInv, Told, Final, NEW r \in Runs, RecordSettleStarted(r)
    PROVE  Told'
<1>1. r \in Procs /\ pc[r] \notin Resting
  BY DEF Procs, Resting, RecordSettleStarted
<1>2. Murmurs(r)
  BY RecordSettleStartedMoves DEF Murmurs, Hushed, Event, Terminal
<1>3. /\ Alone(r)
      /\ pc'[r] \notin Announcing \cup {"cancel_record"}
  BY RecordSettleStartedMoves DEF Announcing, Onward, Goes, Moved, Ends, GivesUp, Raises, Resting
<1> QED
  BY <1>1, <1>2, <1>3, QuietTold DEF Quiet, Owing

LEMMA SettleSpendTold ==
    ASSUME TInv, IInv, Told, Final, NEW r \in Runs, SettleSpend(r)
    PROVE  Told'
<1>1. r \in Procs /\ pc[r] \notin Resting
  BY DEF Procs, Resting, SettleSpend
<1>2. Murmurs(r)
  BY SettleSpendMoves DEF Murmurs, Hushed
<1>3. /\ Alone(r)
      /\ pc'[r] \notin Announcing \cup {"cancel_record"}
  BY SettleSpendMoves DEF Announcing, Onward, Goes, Moved, Ends, GivesUp, Raises, Resting
<1> QED
  BY <1>1, <1>2, <1>3, QuietTold DEF Quiet, Owing

LEMMA GraphReturnsTold ==
    ASSUME TInv, IInv, Told, Final, NEW p \in Procs, GraphReturns(p)
    PROVE  Told'
<1>1. p \in Procs /\ pc[p] \notin Resting
  BY DEF Procs, Resting, GraphReturns
<1>2. Murmurs(p)
  BY GraphReturnsMoves DEF Murmurs, Hushed
<1>3. /\ Alone(p)
      /\ pc'[p] \notin Announcing \cup {"cancel_record"}
  BY GraphReturnsMoves DEF Announcing, Onward, Goes, Moved, Ends, GivesUp, Raises, Resting
<1> QED
  BY <1>1, <1>2, <1>3, QuietTold DEF Quiet, Owing

LEMMA GraphRaisesTold ==
    ASSUME TInv, IInv, Told, Final, NEW p \in Procs, GraphRaises(p)
    PROVE  Told'
<1>1. p \in Procs /\ pc[p] \notin Resting
  BY DEF Procs, Resting, GraphRaises
<1>2. Murmurs(p)
  BY GraphRaisesMoves DEF Murmurs, Hushed
<1>3. /\ Alone(p)
      /\ pc'[p] \notin Announcing \cup {"cancel_record"}
  BY GraphRaisesMoves DEF Announcing, Onward, Goes, Moved, Ends, GivesUp, Raises, Resting
<1> QED
  BY <1>1, <1>2, <1>3, QuietTold DEF Quiet, Owing

LEMMA ApplyLockTold ==
    ASSUME TInv, IInv, Told, Final, NEW p \in Procs, ApplyLock(p)
    PROVE  Told'
<1>1. p \in Procs /\ pc[p] \notin Resting
  BY DEF Procs, Resting, ApplyLock
<1>2. Murmurs(p)
  BY ApplyLockMoves DEF Murmurs, Hushed
<1>3. /\ Alone(p)
      /\ pc'[p] \notin Announcing \cup {"cancel_record"}
  BY ApplyLockMoves DEF Announcing, Onward, Goes, Moved, Ends, GivesUp, Raises, Resting
<1> QED
  BY <1>1, <1>2, <1>3, QuietTold DEF Quiet, Owing

LEMMA RecordCheckpointTold ==
    ASSUME TInv, IInv, Told, Final, NEW p \in Procs, RecordCheckpoint(p)
    PROVE  Told'
<1>1. p \in Procs /\ pc[p] \notin Resting
  BY DEF Procs, Resting, RecordCheckpoint
<1>2. Murmurs(p)
  BY RecordCheckpointMoves DEF Murmurs, Hushed, Event, Terminal
<1>3. /\ Alone(p) /\ pc[p] \in Announcing
      /\ \/ pc'[p] \notin Announcing \cup {"cancel_record"}
         \/ /\ job'[p].run = Run(p) /\ job'[p].target = job[p].target /\ pc'[p] # "cancel_record"
  BY RecordCheckpointMoves DEF Announcing, Onward, Goes, Moved, Ends, GivesUp, Raises, Resting
<1>4. Quiet(p)
  BY <1>2, <1>3 DEF Quiet, Owing, Announcing
<1> QED
  BY <1>1, <1>4, QuietTold

LEMMA RecordBudgetTold ==
    ASSUME TInv, IInv, Told, Final, NEW p \in Procs, RecordBudget(p)
    PROVE  Told'
<1>1. p \in Procs /\ pc[p] \notin Resting
  BY DEF Procs, Resting, RecordBudget
<1>2. Murmurs(p)
  BY RecordBudgetMoves DEF Murmurs, Hushed, Event, Terminal
<1>3. /\ Alone(p) /\ pc[p] \in Announcing
      /\ \/ pc'[p] \notin Announcing \cup {"cancel_record"}
         \/ /\ job'[p].run = Run(p) /\ job'[p].target = job[p].target /\ pc'[p] # "cancel_record"
  BY RecordBudgetMoves DEF Announcing, Onward, Goes, Moved, Ends, GivesUp, Raises, Resting
<1>4. Quiet(p)
  BY <1>2, <1>3 DEF Quiet, Owing, Announcing
<1> QED
  BY <1>1, <1>4, QuietTold

LEMMA PublishResultTold ==
    ASSUME TInv, IInv, Told, Final, NEW p \in Procs, PublishResult(p)
    PROVE  Told'
<1>1. p \in Procs /\ pc[p] \notin Resting
  BY DEF Procs, Resting, PublishResult
<1>2. Murmurs(p)
  BY PublishResultMoves DEF Murmurs, Hushed
<1>3. /\ Alone(p) /\ pc[p] \in Announcing
      /\ \/ pc'[p] \notin Announcing \cup {"cancel_record"}
         \/ /\ job'[p].run = Run(p) /\ job'[p].target = job[p].target /\ pc'[p] # "cancel_record"
  BY PublishResultMoves DEF Announcing, Onward, Goes, Moved, Ends, GivesUp, Raises, Resting
<1>4. Quiet(p)
  BY <1>2, <1>3 DEF Quiet, Owing, Announcing
<1> QED
  BY <1>1, <1>4, QuietTold

LEMMA ApplySaveTold ==
    ASSUME TInv, IInv, Told, Final, NEW p \in Procs, ApplySave(p)
    PROVE  Told'
<1>1. p \in Procs /\ pc[p] \notin Resting
  BY DEF Procs, Resting, ApplySave
<1>2. PICK r \in Runs : Run(p) = r /\ pc[p] = "apply_save" /\ ~Ended(r) /\ job[p].target \in Outcomes
  BY <1>1, Serves, ApplySaveMoves, KnownRecord DEF IInv, Local, Applies
<1>3. Alone(p) /\ Hushed /\ job'[p].run = r
  BY <1>2, ApplySaveMoves DEF Hushed, Onward, Goes, Moved, Ends, GivesUp, Raises, Resting
<1>4. CASE pc'[p] = "checkpoint" /\ job'[p].target \in Terminal
  <2>1. repo'[r].status = job'[p].target
    <3>1. Writes(p, job[p].target, Counted(p)) /\ job'[p].target = job[p].target
      BY <1>4, ApplySaveMoves DEF Raises, Goes
    <3> QED
      BY <1>2, <3>1 DEF Writes, Revised
  <2> QED
    BY <1>2, <1>3, <1>4, <2>1, EndingTold
<1>5. CASE ~(pc'[p] = "checkpoint" /\ job'[p].target \in Terminal)
  <2>1. ~Owing(p)'
    BY <1>5, ApplySaveMoves DEF Owing, Announcing, Onward, Goes, Moved, Ends, GivesUp, Raises, Resting
  <2> QED
    BY <1>1, <1>3, <2>1, QuietTold DEF Quiet, Murmurs
<1> QED
  BY <1>4, <1>5

LEMMA CancelTryTold ==
    ASSUME TInv, IInv, Told, Final, NEW c \in Callers, CancelTry(c)
    PROVE  Told'
<1>1. c \in Procs /\ pc[c] \notin Resting
  BY DEF Procs, Resting, CancelTry
<1>2. PICK r \in Runs : Run(c) = r
  BY <1>1, Serves
<1>3. Alone(c) /\ Hushed /\ job'[c].run = r
  BY <1>2, CancelTryMoves DEF Hushed, Onward, Goes, Moved, Ends, GivesUp, Raises, Resting
<1>4. CASE Writes(c, "cancelled", Snap(c).counted) /\ ~Ended(Run(c)) /\ pc'[c] = "cancel_record"
  <2>1. repo'[r].status = "cancelled"
    BY <1>2, <1>4 DEF Writes, Revised
  <2> QED
    BY <1>1, <1>2, <1>3, <1>4, <2>1, EndingTold DEF Terminal
<1>5. CASE pc'[c] = "cancel_reload"
  BY <1>1, <1>3, <1>5, QuietTold DEF Quiet, Murmurs, Owing, Announcing
<1> QED
  BY <1>4, <1>5, CancelTryMoves DEF Goes

LEMMA RecordOutcomeTold ==
    ASSUME TInv, IInv, Told, Final, NEW p \in Procs, RecordOutcome(p)
    PROVE  Told'
<1>1. p \in Procs /\ pc[p] \notin Resting
  BY DEF Procs, Resting, RecordOutcome
<1>2. PICK r \in Runs : Run(p) = r
  BY <1>1, Serves
<1>3. /\ Alone(p) /\ Emit(p, job[p].target) /\ pc[p] = "outcome"
      /\ pc'[p] \notin Announcing \cup {"cancel_record"} /\ job[p].target \in Outcomes
  BY <1>1, KnownRecord, RecordOutcomeMoves DEF Announcing, Onward, Goes, Moved, Ends, GivesUp, Raises, Resting
<1>4. ~Owing(p)'
  BY <1>3 DEF Owing
<1>5. CASE job[p].target \in Terminal
  <2>1. Owing(p) /\ job[p].target = repo[r].status
    BY <1>2, <1>3, <1>5 DEF Owing, Announcing, Told, Stored
  <2> QED
    BY <1>1, <1>2, <1>3, <1>4, <1>5, <2>1, AnnouncingTold
<1>6. CASE job[p].target \notin Terminal
  <2>1. Murmurs(p)
    BY <1>3, <1>6 DEF Murmurs, Event
  <2> QED
    BY <1>1, <1>3, <1>4, <2>1, QuietTold DEF Quiet
<1> QED
  BY <1>5, <1>6

LEMMA RecordCancelledTold ==
    ASSUME TInv, IInv, Told, Final, NEW c \in Callers, RecordCancelled(c)
    PROVE  Told'
<1>1. c \in Procs /\ pc[c] \notin Resting
  BY DEF Procs, Resting, RecordCancelled
<1>2. PICK r \in Runs : Run(c) = r
  BY <1>1, Serves
<1>3. /\ Alone(c) /\ Emit(c, "cancelled") /\ pc[c] = "cancel_record"
      /\ pc'[c] \notin Announcing \cup {"cancel_record"}
  BY RecordCancelledMoves DEF Announcing, Onward, Goes, Moved, Ends, GivesUp, Raises, Resting
<1>4. ~Owing(c)' /\ Owing(c) /\ "cancelled" \in Terminal
  BY <1>3 DEF Owing, Terminal
<1>5. "cancelled" = repo[r].status
  BY <1>1, <1>2, <1>3, <1>4 DEF Told, Stored
<1> QED
  BY <1>1, <1>2, <1>3, <1>4, <1>5, AnnouncingTold

LEMMA RequestTold ==
    ASSUME TInv, Told, Final, NEW c \in Callers, Request(c)
    PROVE  Told'
<1>1. {"insert", "match", "cancel_try", "cancel_mark"} \cap (Announcing \cup {"cancel_record"}) = {}
  BY DEF Announcing
<1>2. /\ c \in Procs /\ Alone(c) /\ Hushed
      /\ pc'[c] \in {"insert", "match", "cancel_try", "cancel_mark"}
  BY LookupRequestMoves, LoadWaitingMoves, CancelLoadMoves DEF Request, Hushed
<1> QED
  BY <1>1, <1>2, QuietTold DEF Quiet, Murmurs, Owing

\* Nobody owes more than before, and nothing is recorded.
LEMMA SilentTold ==
    ASSUME TInv, Told, UNCHANGED <<repo, log>>,
           \A q \in Procs : Owing(q)' =>
               Owing(q) /\ pc'[q] = pc[q] /\ job'[q] = job[q]
    PROVE  Told'
<1>1. \A q \in Procs : Owing(q)' => Owing(q) /\ Run(q)' = Run(q) /\ Stored(q)' = Stored(q)
  BY DEF Run, Stored
<1>2. ASSUME NEW q \in Procs, Owing(q)'
      PROVE  /\ Positions(Run(q), Terminal)' = {}
             /\ Stored(q)'.status = IF pc'[q] = "cancel_record" THEN "cancelled" ELSE job'[q].target
  <2>1. Positions(Run(q), Terminal)' = Positions(Run(q), Terminal)
    BY <1>1, <1>2 DEF Positions
  <2> QED
    BY <1>1, <1>2, <2>1 DEF Told
<1>3. OneOutcome'
  BY DEF Told, OneOutcome, Positions
<1>4. \A r \in Runs : ~Ended(r)' => Positions(r, Terminal)' = {}
  BY DEF Told, Ended, Positions
<1>5. \A q, s \in Procs : Owing(q)' /\ Owing(s)' /\ Run(q)' = Run(s)' => q = s
  BY <1>1 DEF Told
<1> QED
  BY <1>2, <1>3, <1>4, <1>5 DEF Told

LEMMA SpawnTaskTold ==
    ASSUME TInv, IInv, Told, Final, NEW c \in Callers, NEW mode \in {"direct", "prepare"},
           SpawnTask(c, mode)
    PROVE  Told'
<1>1. PICK r \in Runs :
         /\ c \in Procs /\ r \in Procs /\ c # r
         /\ pc'[c] = "idle" /\ pc'[r] \in {"load", "guard"}
         /\ \A q \in Procs \ {c, r} : pc'[q] = pc[q] /\ job'[q] = job[q]
         /\ Aside /\ UNCHANGED log
  BY SpawnTaskMoves
<1>2. ASSUME NEW q \in Procs, Owing(q)'
      PROVE  Owing(q) /\ pc'[q] = pc[q] /\ job'[q] = job[q]
  <2>1. q \notin {c, r}
    BY <1>1, <1>2 DEF Owing, Announcing
  <2> QED
    BY <1>1, <1>2, <2>1 DEF Owing
<1> QED
  BY <1>1, <1>2, SilentTold DEF Aside

LEMMA ToldInitial == Init => Told
BY DEF Init, Told, Owing, Announcing, Positions, OneOutcome

LEMMA ToldPreserved == TInv /\ IInv /\ Told /\ [Next]_vars => Told'
<1> SUFFICES ASSUME TInv, IInv, Told, [Next]_vars PROVE Told'
  OBVIOUS
<1>1. Final
  BY EndsFinal
<1>2. ASSUME NEW c \in Callers, CallerStep(c) PROVE Told'
  BY <1>1, <1>2, InsertRunTold, RecordCreatedTold, QueueRunTold, RecordQueuedTold,
     SpawnTaskTold, MatchCheckpointTold, ResumeRunTold, RecordResumedTold,
     RecordCancelRequestTold, CancelTryTold, CancelReloadTold, RecordCancelledTold
     DEF CallerStep
<1>3. ASSUME NEW r \in Runs, TaskStep(r) PROVE Told'
  BY <1>1, <1>3, PrepareGuardTold, PrepareReturnsTold, PrepareFailsTold, PrepareLoadTold,
     PrepareSaveTold, PrepareCheckTold, LoadQueuedTold, SelectStrategyTold,
     RejectStrategyTold, RejectPayloadTold, StartRunTold, RecordStartedTold,
     FailLoadTold, FailStartTold, SettleLoadTold, SettleChargeTold, SettleStartTold,
     RecordSettleStartedTold, SettleSpendTold
     DEF TaskStep
<1>4. ASSUME NEW p \in Procs, GraphStep(p) PROVE Told'
  BY <1>1, <1>4, GraphReturnsTold, GraphRaisesTold, ApplyLockTold, ApplySaveTold,
     RecordCheckpointTold, RecordBudgetTold, PublishResultTold, RecordOutcomeTold
     DEF GraphStep
<1>5. CASE Restart
  <2>1. \A q \in Procs : ~Owing(q)'
    BY <1>5 DEF Restart, Owing, Announcing
  <2> QED
    BY <1>5, <2>1, SilentTold DEF Restart
<1>6. CASE UNCHANGED vars
  BY <1>6, SilentTold DEF vars, Owing
<1> QED
  BY <1>1, <1>2, <1>3, <1>4, <1>5, <1>6, RequestTold DEF Next

\* The event store records at most one end of a Run, the one the repository holds, and
\* no more resumptions than questions: late results and cancellations never disagree.
THEOREM OneStory == Spec => []LogAgrees
<1>1. Init => Told
  BY ToldInitial
<1>2. TInv /\ IInv /\ Told /\ [Next]_vars => Told'
  BY ToldPreserved
<1>3. Told /\ ResumedOncePerWait => LogAgrees
  BY DEF Told, LogAgrees
<1> QED
  BY <1>1, <1>2, <1>3, Invariance, ResumedOnce, PTL DEF Spec

(***************************************************************************)
(* Part 6.  The invariant Patience of RunHistory is inductive: a holder of a*)
(* Run has at most two writes left that ignore the state lock, and each of *)
(* them overtakes a cancellation once.                                     *)
(***************************************************************************)

(* A cancellation is overtaken at most twice. *)

\* Somebody else is cancelling the Run that p serves.
Rivalled(p, r) == ~Ended(r) /\ \E c \in Callers \ {p} : pc[c] \in Cancelling /\ Run(c) = r

\* p comes no further from its last write without the state lock.
Eases(p) ==
    /\ Spending(p)' => Spending(p)
    /\ Launching(p)' => Launching(p)
    /\ pc'[p] \in Before => pc[p] \in Before

\* p takes one of those writes, and has one fewer left.
Drops(p) ==
    \/ Spending(p) /\ ~Spending(p)'
    \/ Launching(p) /\ ~Launching(p)'
    \/ pc[p] \in Before /\ pc'[p] \notin Before

Nexts(r) == repo'[r].version = repo[r].version + 1 /\ repo'[r].status \notin Waiting

\* What a cancellation of r sees of a step of p.
Spared(p, r) ==
    \/ repo'[r] = repo[r] /\ (pc'[p] \notin Holding \/ Eases(p))
    \/ Nexts(r) /\ Eases(p) /\ Drops(p) /\ pc[p] \in Holding
    \/ Nexts(r) /\ repo[r].status \in Waiting /\ Left(p)' = 0

Sure     == {"prepare", "prep_load", "prep_save", "settle_spend"}
Charging == {"settle_load", "settle_start", "settle_started"}

LEMMA Writing ==
    /\ Before \cup Starting \cup Sure \cup Charging \subseteq Holding
    /\ Before \cap (Sure \cup Charging) = {} /\ Sure \cap Charging = {}
    /\ (Cancelling \cup Resting) \cap Holding = {}
BY DEF Before, Starting, Sure, Charging, Holding, Cancelling, Resting

LEMMA Spends ==
    ASSUME NEW p \in Procs
    PROVE  /\ pc[p] \in Sure => Spending(p)
           /\ pc[p] \notin Sure \cup Charging => ~Spending(p)
           /\ pc[p] \in Charging => (Spending(p) <=> job[p].charged)
BY Zenon DEF Spending, Sure, Charging

LEMMA SpendsNext ==
    ASSUME NEW p \in Procs
    PROVE  /\ pc'[p] \in Sure => Spending(p)'
           /\ pc'[p] \notin Sure \cup Charging => ~Spending(p)'
           /\ pc'[p] \in Charging => (Spending(p)' <=> job'[p].charged)
BY Zenon DEF Spending, Sure, Charging

LEMMA LeftRange ==
    ASSUME NEW p \in Procs
    PROVE  Left(p) \in 0 .. 2 /\ (pc[p] \notin Holding => Left(p) = 0)
<1>1. pc[p] \in Before => ~Spending(p)
  BY Spends, Writing
<1>2. pc[p] \notin Holding => pc[p] \notin Before /\ ~Spending(p) /\ ~Launching(p)
  BY Spends, Writing DEF Launching
<1> QED
  BY <1>1, <1>2 DEF Left, One

LEMMA LeftNext ==
    ASSUME NEW p \in Procs
    PROVE  Left(p)' \in 0 .. 2 /\ (pc'[p] \notin Holding => Left(p)' = 0)
<1>1. pc'[p] \in Before => ~Spending(p)'
  BY SpendsNext, Writing
<1>2. pc'[p] \notin Holding => pc'[p] \notin Before /\ ~Spending(p)' /\ ~Launching(p)'
  BY SpendsNext, Writing DEF Launching
<1>3. Left(p)' = One(Spending(p)') + One(Launching(p)') + One(pc'[p] \in Before)
  BY Zenon DEF Left, One
<1> QED
  BY <1>1, <1>2, <1>3 DEF One

LEMMA LeftEases ==
    ASSUME NEW p \in Procs, Eases(p)
    PROVE  Left(p)' <= Left(p) /\ (Drops(p) => Left(p)' + 1 <= Left(p))
<1>1. Left(p)' = One(Spending(p)') + One(Launching(p)') + One(pc'[p] \in Before)
  BY Zenon DEF Left, One
<1> QED
  BY <1>1 DEF Left, One, Eases, Drops

\* Whoever does not move and keeps its record has as many writes left.
LEMMA LeftSame ==
    ASSUME NEW p \in Procs, pc'[p] = pc[p], job'[p] = job[p], repo'[Run(p)] = repo[Run(p)]
    PROVE  Left(p)' = Left(p)
<1>1. /\ Run(p)' = Run(p)
      /\ Stored(p)' = Stored(p)
  BY DEF Run, Stored
<1>2. (Spending(p)' <=> Spending(p)) /\ (Launching(p)' <=> Launching(p))
  BY <1>1, Zenon DEF Spending, Launching
<1>3. Left(p)' = One(Spending(p)') + One(Launching(p)') + One(pc'[p] \in Before)
  BY Zenon DEF Left, One
<1> QED
  BY <1>2, <1>3 DEF Left, One

\* What somebody else may rely on who cancels a Run.
LEMMA RivalKnows ==
    ASSUME IInv, NEW p \in Procs, NEW r \in Runs, Rivalled(p, r)
    PROVE  /\ stateLock \in Callers \ {p} /\ r \in cancelled /\ repo[r].status # "absent"
           /\ pc[p] \notin Cancelling \cup {"apply_save"} /\ ~Ended(r) /\ r \notin hubClosed
<1>1. PICK c \in Callers \ {p} : pc[c] \in Cancelling /\ Run(c) = r
  BY DEF Rivalled
<1>2. c \in Procs /\ Local(c) /\ Sound(r) /\ Local(p)
  BY DEF Procs, IInv
<1>3. pc[c] \notin Resting
  BY <1>1, Phases
<1>4. pc[p] \in Cancelling \cup {"apply_save"} => pc[p] \notin Resting
  BY Phases
<1>5. stateLock = c /\ r \in cancelled /\ repo[r].status # "absent"
  BY <1>1, <1>2, <1>3 DEF Local, Locks, Signalled, Stored
<1> QED
  BY <1>1, <1>2, <1>4, <1>5 DEF Local, Locks, Sound, Rivalled

LEMMA OtherPatient ==
    ASSUME TInv, TInv', IInv, Final, NEW p \in Procs, NEW r \in Runs, Alone(p),
           \A s \in Runs \ {r} : repo'[s] = repo[s],
           pc[p] \notin Resting => Run(p) = r, pc'[p] \notin Resting => job'[p].run = r,
           Rivalled(p, r) => Spared(p, r),
           NEW c \in Callers \ {p}, Patient(c)
    PROVE  Patient(c)'
<1>1. c \in Procs /\ pc'[c] = pc[c] /\ job'[c] = job[c] /\ Run(c)' = Run(c) /\ Snap(c)' = Snap(c)
  BY DEF Alone, Procs, Run, Snap
<1>2. SUFFICES ASSUME pc[c] \in Cancelling \ {"cancel_record"}, ~Ended(Run(c))'
               PROVE  Patient(c)'
  BY <1>1 DEF Patient
<1>3. Run(c) \in Runs /\ ~Ended(Run(c)) /\ pc[c] \notin Resting
  BY <1>1, <1>2, Serves, Phases DEF Final, Ended, Cancelling
<1>4. PICK x \in Runs : x = Run(c) /\ x = Run(c)'
  BY <1>1, <1>3
<1>5. /\ pc[c] # "cancel_reload" => Snap(c).status \notin Terminal \cup {"absent"}
      /\ repo[x].status \in Waiting => Overtaken(c) = 0 /\ pc[c] # "cancel_reload"
      /\ Overtaken(c) <= 2
      /\ \A q \in Procs : pc[q] \notin Resting /\ Run(q) = x => Overtaken(c) + Left(q) <= 2
  BY <1>2, <1>3, <1>4 DEF Patient, Stored
<1>7. Overtaken(c) = job[c].tries + One(pc[c] # "cancel_reload" /\ Snap(c).version # repo[x].version)
  BY <1>4 DEF Overtaken, Stored
<1>8. Overtaken(c)' = job[c].tries + One(pc[c] # "cancel_reload" /\ Snap(c).version # repo'[x].version)
  BY <1>1, <1>4 DEF Overtaken, Stored
<1>6. /\ job[c].tries \in Nat /\ Overtaken(c) \in Nat /\ Overtaken(c)' \in Nat
      /\ Overtaken(c)' <= job[c].tries + 1 /\ job[c].tries <= Overtaken(c)
  <2>1. job[c] \in Job
    BY <1>1 DEF TInv, TypeOK
  <2>2. job[c].tries \in Nat
    BY <2>1 DEF Job
  <2> QED
    BY <1>7, <1>8, <2>2 DEF One
<1>9. SUFFICES /\ repo'[x].status \in Waiting => Overtaken(c)' = 0 /\ pc[c] # "cancel_reload"
               /\ Overtaken(c)' <= 2
               /\ \A q \in Procs : pc'[q] \notin Resting /\ job'[q].run = x
                                    => Overtaken(c)' + Left(q)' <= 2
  BY <1>1, <1>4, <1>5 DEF Patient, Stored, Run
<1>10. \A q \in Procs \ {p} : pc'[q] = pc[q] /\ job'[q] = job[q]
  BY DEF Alone
<1>11. CASE repo'[x] = repo[x] /\ (x = r => pc'[p] \notin Holding \/ Eases(p))
  <2>1. Overtaken(c)' = Overtaken(c)
    BY <1>7, <1>8, <1>11
  <2>2. ASSUME NEW q \in Procs, pc'[q] \notin Resting, job'[q].run = x
        PROVE  Overtaken(c)' + Left(q)' <= 2
    <3>1. CASE q # p
      <4>1. Left(q)' = Left(q) /\ pc[q] \notin Resting /\ Run(q) = x
        BY <1>10, <1>11, <2>2, <3>1, LeftSame DEF Run
      <4> QED
        BY <1>5, <2>1, <4>1
    <3>2. CASE q = p /\ pc'[p] \notin Holding
      BY <1>5, <1>6, <2>1, <3>2, LeftNext
    <3>3. CASE q = p /\ pc'[p] \in Holding
      <4>1. x = r /\ Eases(p)
        BY <1>11, <2>2, <3>3
      <4>2. Left(p)' <= Left(p) /\ Left(p)' \in 0 .. 2 /\ Left(p) \in 0 .. 2
        BY <4>1, LeftEases, LeftNext, LeftRange
      <4>3. CASE pc[p] \in Resting
        <5>1. Left(p) = 0
          BY <4>3, LeftRange, Writing
        <5> QED
          BY <1>5, <1>6, <2>1, <3>3, <4>2, <5>1
      <4>4. CASE pc[p] \notin Resting
        <5>1. Overtaken(c) + Left(p) <= 2
          BY <1>5, <4>1, <4>4
        <5> QED
          BY <1>6, <2>1, <3>3, <4>2, <5>1
      <4> QED
        BY <4>3, <4>4
    <3> QED
      BY <3>1, <3>2, <3>3
  <2> QED
    BY <1>5, <1>11, <2>1, <2>2
<1>12. CASE x # r
  BY <1>11, <1>12
<1>13. CASE x = r
  <2>1. Rivalled(p, r)
    BY <1>2, <1>3, <1>4, <1>13 DEF Rivalled
  <2>2. Spared(p, r)
    BY <2>1
  <2>3. CASE repo'[r] = repo[r] /\ (pc'[p] \notin Holding \/ Eases(p))
    BY <1>11, <1>13, <2>3
  <2>4. CASE Nexts(r) /\ (\/ Eases(p) /\ Drops(p) /\ pc[p] \in Holding
                          \/ repo[r].status \in Waiting /\ Left(p)' = 0)
    <3>1. repo'[x].status \notin Waiting /\ Overtaken(c)' <= Overtaken(c) + 1
      BY <1>6, <1>13, <2>4 DEF Nexts
    <3>2. ASSUME NEW q \in Procs \ {p}, pc'[q] \notin Resting, job'[q].run = x
          PROVE  Left(q)' = 0
      <4>1. pc[q] \notin Resting /\ Run(q) = r /\ pc'[q] = pc[q]
        BY <1>10, <1>13, <3>2 DEF Run
      <4>2. pc[q] \notin Holding
        <5>1. CASE repo[r].status \in Waiting
          BY <4>1, <5>1 DEF IInv, Local, Holds, Stored
        <5>2. CASE pc[p] \in Holding
          BY <1>3, <1>4, <1>13, <4>1, <5>2, Writing DEF IInv, Apart
        <5> QED
          BY <2>4, <5>1, <5>2
      <4> QED
        BY <4>1, <4>2, LeftNext
    <3>3. Overtaken(c)' <= 2 /\ Overtaken(c)' + Left(p)' <= 2
      <4>1. CASE Eases(p) /\ Drops(p) /\ pc[p] \in Holding
        <5>1. pc[p] \notin Resting /\ Run(p) = x
          BY <1>13, <4>1, Writing
        <5>2. Overtaken(c) + Left(p) <= 2 /\ Left(p)' + 1 <= Left(p)
          BY <1>5, <4>1, <5>1, LeftEases
        <5>3. Left(p) \in 0 .. 2 /\ Left(p)' \in 0 .. 2
          BY LeftRange, LeftNext
        <5> QED
          BY <1>6, <3>1, <5>2, <5>3
      <4>2. CASE repo[r].status \in Waiting /\ Left(p)' = 0
        BY <1>5, <1>6, <1>13, <3>1, <4>2
      <4> QED
        BY <2>4, <4>1, <4>2
    <3>4. ASSUME NEW q \in Procs, pc'[q] \notin Resting, job'[q].run = x
          PROVE  Overtaken(c)' + Left(q)' <= 2
      BY <1>6, <3>2, <3>3, <3>4
    <3> QED
      BY <3>1, <3>3, <3>4
  <2> QED
    BY <2>2, <2>3, <2>4 DEF Spared
<1> QED
  BY <1>12, <1>13

LEMMA PatienceStep ==
    ASSUME TInv, TInv', IInv, Final, Patience, NEW p \in Procs, NEW r \in Runs, Alone(p),
           \A s \in Runs \ {r} : repo'[s] = repo[s],
           pc[p] \notin Resting => Run(p) = r, pc'[p] \notin Resting => job'[p].run = r,
           Rivalled(p, r) => Spared(p, r), p \in Callers => Patient(p)'
    PROVE  Patience'
<1>1. SUFFICES ASSUME NEW c \in Callers PROVE Patient(c)'
  BY DEF Patience
<1>2. CASE c # p
  BY <1>2, OtherPatient DEF Patience
<1> QED
  BY <1>2

\* The step of a coroutine that is not cancelling.
LEMMA NotCancelling ==
    ASSUME NEW p \in Procs, pc'[p] \notin Cancelling \ {"cancel_record"}
    PROVE  Patient(p)'
BY DEF Patient

\* Which moves bring nobody further from its last write.
LEMMA MoveEases ==
    ASSUME NEW p \in Procs, NEW r \in Runs, Run(p) = r, job'[p].run = r,
           pc'[p] \in Before => pc[p] \in Before,
           \/ pc'[p] \notin Starting
           \/ repo'[r].status = "running"
           \/ pc[p] \in Starting /\ repo[r].status # "running",
           \/ pc'[p] \notin Sure \cup Charging
           \/ pc[p] \in Sure
           \/ pc'[p] \in Charging /\ job'[p].charged = FALSE
           \/ pc'[p] \in Charging /\ pc[p] \in Charging /\ job'[p].charged = job[p].charged
           \/ pc[p] \in Charging /\ job[p].charged
    PROVE  Eases(p)
<1>1. Launching(p)' => Launching(p)
  BY DEF Launching, Stored, Run
<1>2. CASE pc'[p] \notin Sure \cup Charging
  BY <1>1, <1>2, SpendsNext DEF Eases
<1>3. CASE pc[p] \in Sure
  BY <1>1, <1>3, Spends DEF Eases
<1>4. CASE pc'[p] \in Charging /\ job'[p].charged = FALSE
  <2>1. ~Spending(p)'
    BY <1>4, SpendsNext, Zenon
  <2> QED
    BY <1>1, <2>1 DEF Eases
<1>5. CASE pc'[p] \in Charging /\ pc[p] \in Charging /\ job'[p].charged = job[p].charged
  <2>1. Spending(p)' => Spending(p)
    BY <1>5, Spends, SpendsNext, Zenon
  <2> QED
    BY <1>1, <2>1 DEF Eases
<1>6. CASE pc[p] \in Charging /\ job[p].charged
  <2>1. Spending(p)
    BY <1>6, Spends, Zenon
  <2> QED
    BY <1>1, <2>1 DEF Eases
<1> QED
  BY <1>2, <1>3, <1>4, <1>5, <1>6, Zenon

-----------------------------------------------------------------------------
(* Each action: Patience and the action give Patience'. *)

\* The step of a coroutine that leaves its Run alone.
LEMMA StillPatience ==
    ASSUME TInv, TInv', IInv, Final, Patience, NEW p \in Procs, NEW r \in Runs,
           pc[p] \notin Resting, Run(p) = r, Alone(p), UNCHANGED repo,
           pc'[p] \notin Cancelling \ {"cancel_record"}, pc'[p] \notin Resting => job'[p].run = r,
           Rivalled(p, r) => pc'[p] \notin Holding \/ Eases(p)
    PROVE  Patience'
<1>1. Rivalled(p, r) => Spared(p, r)
  BY DEF Spared
<1> QED
  BY <1>1, PatienceStep, NotCancelling

\* The step of a coroutine that writes its Run.
LEMMA WritePatience ==
    ASSUME TInv, TInv', IInv, Final, Patience, NEW p \in Procs, NEW r \in Runs,
           pc[p] \notin Resting, Run(p) = r, Alone(p), \A s \in Runs \ {r} : repo'[s] = repo[s],
           pc'[p] \notin Cancelling \ {"cancel_record"}, pc'[p] \notin Resting => job'[p].run = r,
           Rivalled(p, r) => Spared(p, r)
    PROVE  Patience'
BY PatienceStep, NotCancelling

LEMMA RecordCreatedPatience ==
    ASSUME TInv, TInv', IInv, Course, Final, Patience, NEW c \in Callers, RecordCreated(c)
    PROVE  Patience'
<1>1. PICK x \in Runs : Run(c) = x /\ c \in Procs /\ pc[c] \notin Resting
                        /\ (c \in Runs => c = x)
  BY Serves DEF Procs, Resting, RecordCreated
<1>2. /\ Alone(c) /\ UNCHANGED repo /\ pc[c] = "created"
      /\ job'[c].run = x /\ pc'[c] = "queue" /\ job'[c].charged = job[c].charged
  BY <1>1, RecordCreatedMoves DEF Onward, Goes, Moved, Ends, Aside, Resting
<1>3. pc'[c] \notin Holding \/ Eases(c)
  BY <1>1, <1>2, MoveEases, Writing DEF Starting, Before, Sure, Charging, Holding
<1> QED
  BY <1>1, <1>2, <1>3, StillPatience DEF Cancelling, Resting

LEMMA RecordQueuedPatience ==
    ASSUME TInv, TInv', IInv, Course, Final, Patience, NEW c \in Callers, RecordQueued(c)
    PROVE  Patience'
<1>1. PICK x \in Runs : Run(c) = x /\ c \in Procs /\ pc[c] \notin Resting
                        /\ (c \in Runs => c = x)
  BY Serves DEF Procs, Resting, RecordQueued
<1>2. /\ Alone(c) /\ UNCHANGED repo /\ pc[c] = "queued"
      /\ job'[c].run = x /\ pc'[c] = "spawn" /\ job'[c].charged = job[c].charged
  BY <1>1, RecordQueuedMoves DEF Onward, Goes, Moved, Ends, Aside, Resting
<1>3. pc'[c] \notin Holding \/ Eases(c)
  BY <1>1, <1>2, MoveEases, Writing DEF Starting, Before, Sure, Charging, Holding
<1> QED
  BY <1>1, <1>2, <1>3, StillPatience DEF Cancelling, Resting

LEMMA RecordResumedPatience ==
    ASSUME TInv, TInv', IInv, Course, Final, Patience, NEW c \in Callers, RecordResumed(c)
    PROVE  Patience'
<1>1. PICK x \in Runs : Run(c) = x /\ c \in Procs /\ pc[c] \notin Resting
                        /\ (c \in Runs => c = x)
  BY Serves DEF Procs, Resting, RecordResumed
<1>2. /\ Alone(c) /\ UNCHANGED repo /\ pc[c] = "resumed"
      /\ job'[c].run = x /\ pc'[c] = "graph" /\ job'[c].charged = job[c].charged
  BY <1>1, RecordResumedMoves DEF Onward, Goes, Moved, Ends, Aside, Resting
<1>3. pc'[c] \notin Holding \/ Eases(c)
  BY <1>1, <1>2, MoveEases, Writing DEF Starting, Before, Sure, Charging, Holding
<1> QED
  BY <1>1, <1>2, <1>3, StillPatience DEF Cancelling, Resting

LEMMA MatchCheckpointPatience ==
    ASSUME TInv, TInv', IInv, Course, Final, Patience, NEW c \in Callers, MatchCheckpoint(c)
    PROVE  Patience'
<1>1. PICK x \in Runs : Run(c) = x /\ c \in Procs /\ pc[c] \notin Resting
                        /\ (c \in Runs => c = x)
  BY Serves DEF Procs, Resting, MatchCheckpoint
<1>2. /\ Alone(c) /\ UNCHANGED repo /\ pc[c] = "match"
      /\ pc'[c] \in Resting \/ (job'[c].run = x /\ pc'[c] = "resume" /\ job'[c].charged = job[c].charged)
  BY <1>1, MatchCheckpointMoves DEF Onward, Goes, Moved, Ends, Aside, Resting
<1>3. pc'[c] \notin Holding \/ Eases(c)
  BY <1>1, <1>2, MoveEases, Writing DEF Starting, Before, Sure, Charging, Holding
<1> QED
  BY <1>1, <1>2, <1>3, StillPatience DEF Cancelling, Resting

LEMMA PrepareReturnsPatience ==
    ASSUME TInv, TInv', IInv, Course, Final, Patience, NEW r \in Runs, PrepareReturns(r)
    PROVE  Patience'
<1>1. PICK x \in Runs : Run(r) = x /\ r \in Procs /\ pc[r] \notin Resting
                        /\ (r \in Runs => r = x)
  BY Serves DEF Procs, Resting, PrepareReturns
<1>2. /\ Alone(r) /\ UNCHANGED repo /\ pc[r] = "prepare"
      /\ job'[r].run = x /\ pc'[r] = "prep_load" /\ job'[r].charged = job[r].charged
  BY <1>1, PrepareReturnsMoves DEF Onward, Goes, Moved, Ends, Aside, Resting
<1>3. pc'[r] \notin Holding \/ Eases(r)
  BY <1>1, <1>2, MoveEases, Writing DEF Starting, Before, Sure, Charging, Holding
<1> QED
  BY <1>1, <1>2, <1>3, StillPatience DEF Cancelling, Resting

LEMMA LoadQueuedPatience ==
    ASSUME TInv, TInv', IInv, Course, Final, Patience, NEW r \in Runs, LoadQueued(r)
    PROVE  Patience'
<1>1. PICK x \in Runs : Run(r) = x /\ r \in Procs /\ pc[r] \notin Resting
                        /\ (r \in Runs => r = x)
  BY Serves DEF Procs, Resting, LoadQueued
<1>2. /\ Alone(r) /\ UNCHANGED repo /\ pc[r] = "load"
      /\ pc'[r] \in Resting \/ (job'[r].run = x /\ pc'[r] = "select" /\ job'[r].charged = job[r].charged)
  BY <1>1, LoadQueuedMoves DEF Onward, Goes, Moved, Ends, Aside, Resting
<1>3. pc'[r] \notin Holding \/ Eases(r)
  BY <1>1, <1>2, MoveEases, Writing DEF Starting, Before, Sure, Charging, Holding
<1> QED
  BY <1>1, <1>2, <1>3, StillPatience DEF Cancelling, Resting

LEMMA SelectStrategyPatience ==
    ASSUME TInv, TInv', IInv, Course, Final, Patience, NEW r \in Runs, SelectStrategy(r)
    PROVE  Patience'
<1>1. PICK x \in Runs : Run(r) = x /\ r \in Procs /\ pc[r] \notin Resting
                        /\ (r \in Runs => r = x)
  BY Serves DEF Procs, Resting, SelectStrategy
<1>2. /\ Alone(r) /\ UNCHANGED repo /\ pc[r] = "select"
      /\ job'[r].run = x /\ pc'[r] = "start" /\ job'[r].charged = job[r].charged
  BY <1>1, SelectStrategyMoves DEF Onward, Goes, Moved, Ends, Aside, Resting
<1>3. pc'[r] \notin Holding \/ Eases(r)
  BY <1>1, <1>2, MoveEases, Writing DEF Starting, Before, Sure, Charging, Holding
<1> QED
  BY <1>1, <1>2, <1>3, StillPatience DEF Cancelling, Resting

LEMMA RejectStrategyPatience ==
    ASSUME TInv, TInv', IInv, Course, Final, Patience, NEW r \in Runs, RejectStrategy(r)
    PROVE  Patience'
<1>1. PICK x \in Runs : Run(r) = x /\ r \in Procs /\ pc[r] \notin Resting
                        /\ (r \in Runs => r = x)
  BY Serves DEF Procs, Resting, RejectStrategy
<1>2. /\ Alone(r) /\ UNCHANGED repo /\ pc[r] = "select"
      /\ job'[r].run = x /\ pc'[r] = "settle_load" /\ job'[r].charged = FALSE
  BY <1>1, RejectStrategyMoves DEF Onward, Goes, Moved, Ends, Aside, Resting
<1>3. pc'[r] \notin Holding \/ Eases(r)
  BY <1>1, <1>2, MoveEases, Writing DEF Starting, Before, Sure, Charging, Holding
<1> QED
  BY <1>1, <1>2, <1>3, StillPatience DEF Cancelling, Resting

LEMMA RejectPayloadPatience ==
    ASSUME TInv, TInv', IInv, Course, Final, Patience, NEW r \in Runs, RejectPayload(r)
    PROVE  Patience'
<1>1. PICK x \in Runs : Run(r) = x /\ r \in Procs /\ pc[r] \notin Resting
                        /\ (r \in Runs => r = x)
  BY Serves DEF Procs, Resting, RejectPayload
<1>2. /\ Alone(r) /\ UNCHANGED repo /\ pc[r] = "start"
      /\ job'[r].run = x /\ pc'[r] = "fail_load" /\ job'[r].charged = job[r].charged
  BY <1>1, RejectPayloadMoves DEF Onward, Goes, Moved, Ends, Aside, Resting
<1>3. pc'[r] \notin Holding \/ Eases(r)
  BY <1>1, <1>2, MoveEases, Writing DEF Starting, Before, Sure, Charging, Holding
<1> QED
  BY <1>1, <1>2, <1>3, StillPatience DEF Cancelling, Resting

LEMMA RecordCheckpointPatience ==
    ASSUME TInv, TInv', IInv, Course, Final, Patience, NEW p \in Procs, RecordCheckpoint(p)
    PROVE  Patience'
<1>1. PICK x \in Runs : Run(p) = x /\ p \in Procs /\ pc[p] \notin Resting
                        /\ (p \in Runs => p = x)
  BY Serves DEF Procs, Resting, RecordCheckpoint
<1>2. /\ Alone(p) /\ UNCHANGED repo /\ pc[p] = "checkpoint"
      /\ job'[p].run = x /\ ((pc'[p] = "budget" /\ job'[p].charged = job[p].charged) \/ (pc'[p] = "result" /\ job'[p].charged = job[p].charged) \/ (pc'[p] = "outcome" /\ job'[p].charged = job[p].charged))
  BY <1>1, RecordCheckpointMoves DEF Onward, Goes, Moved, Ends, Aside, Resting
<1>3. pc'[p] \notin Holding \/ Eases(p)
  BY <1>1, <1>2, MoveEases, Writing DEF Starting, Before, Sure, Charging, Holding
<1> QED
  BY <1>1, <1>2, <1>3, StillPatience DEF Cancelling, Resting

LEMMA RecordBudgetPatience ==
    ASSUME TInv, TInv', IInv, Course, Final, Patience, NEW p \in Procs, RecordBudget(p)
    PROVE  Patience'
<1>1. PICK x \in Runs : Run(p) = x /\ p \in Procs /\ pc[p] \notin Resting
                        /\ (p \in Runs => p = x)
  BY Serves DEF Procs, Resting, RecordBudget
<1>2. /\ Alone(p) /\ UNCHANGED repo /\ pc[p] = "budget"
      /\ job'[p].run = x /\ pc'[p] = "outcome" /\ job'[p].charged = job[p].charged
  BY <1>1, RecordBudgetMoves DEF Onward, Goes, Moved, Ends, Aside, Resting
<1>3. pc'[p] \notin Holding \/ Eases(p)
  BY <1>1, <1>2, MoveEases, Writing DEF Starting, Before, Sure, Charging, Holding
<1> QED
  BY <1>1, <1>2, <1>3, StillPatience DEF Cancelling, Resting

LEMMA PrepareGuardPatience ==
    ASSUME TInv, TInv', IInv, Course, Final, Patience, NEW r \in Runs, PrepareGuard(r)
    PROVE  Patience'
<1>1. PICK x \in Runs : Run(r) = x /\ r \in Procs /\ pc[r] \notin Resting
                        /\ (r \in Runs => r = x)
  BY Serves DEF Procs, Resting, PrepareGuard
<1>2. /\ Phase(r) /\ Holds(r) /\ Knows(r)
      /\ Rivalled(r, x) => /\ stateLock \in Callers \ {r} /\ x \in cancelled
                            /\ repo[x].status # "absent" /\ ~Ended(x) /\ x \notin hubClosed
                            /\ pc[r] \notin Cancelling \cup {"apply_save"}
  BY <1>1, RivalKnows DEF Course, Fits, IInv, Local
<1>3. /\ Alone(r) /\ UNCHANGED repo /\ pc[r] = "guard"
      /\ pc'[r] \in Resting \/ job'[r].run = x
      /\ \/ pc'[r] = "settle_load" /\ job'[r].charged = FALSE
         \/ x \notin cancelled /\ pc'[r] = "prepare"
  BY <1>1, PrepareGuardMoves DEF Onward, Goes, Moved, Ends, GivesUp, Raises, Aside, Resting, Ended
<1>5. Rivalled(r, x) => pc'[r] \notin Holding \/ Eases(r)
  BY <1>1, <1>2, <1>3, MoveEases, Writing DEF Starting, Before, Sure, Charging, Holding
<1> QED
  BY <1>1, <1>3, <1>5, StillPatience DEF Cancelling, Resting

LEMMA PrepareFailsPatience ==
    ASSUME TInv, TInv', IInv, Course, Final, Patience, NEW r \in Runs, PrepareFails(r)
    PROVE  Patience'
<1>1. PICK x \in Runs : Run(r) = x /\ r \in Procs /\ pc[r] \notin Resting
                        /\ (r \in Runs => r = x)
  BY Serves DEF Procs, Resting, PrepareFails
<1>2. /\ Phase(r) /\ Holds(r) /\ Knows(r)
      /\ Rivalled(r, x) => /\ stateLock \in Callers \ {r} /\ x \in cancelled
                            /\ repo[x].status # "absent" /\ ~Ended(x) /\ x \notin hubClosed
                            /\ pc[r] \notin Cancelling \cup {"apply_save"}
  BY <1>1, RivalKnows DEF Course, Fits, IInv, Local
<1>3. /\ Alone(r) /\ UNCHANGED repo /\ pc[r] = "prepare"
      /\ pc'[r] \in Resting \/ job'[r].run = x
      /\ \/ pc'[r] = "settle_load"
  BY <1>1, PrepareFailsMoves DEF Onward, Goes, Moved, Ends, GivesUp, Raises, Aside, Resting, Ended
<1>5. Rivalled(r, x) => pc'[r] \notin Holding \/ Eases(r)
  BY <1>1, <1>2, <1>3, MoveEases, Writing DEF Starting, Before, Sure, Charging, Holding
<1> QED
  BY <1>1, <1>3, <1>5, StillPatience DEF Cancelling, Resting

LEMMA PrepareLoadPatience ==
    ASSUME TInv, TInv', IInv, Course, Final, Patience, NEW r \in Runs, PrepareLoad(r)
    PROVE  Patience'
<1>1. PICK x \in Runs : Run(r) = x /\ r \in Procs /\ pc[r] \notin Resting
                        /\ (r \in Runs => r = x)
  BY Serves DEF Procs, Resting, PrepareLoad
<1>2. /\ Phase(r) /\ Holds(r) /\ Knows(r)
      /\ Rivalled(r, x) => /\ stateLock \in Callers \ {r} /\ x \in cancelled
                            /\ repo[x].status # "absent" /\ ~Ended(x) /\ x \notin hubClosed
                            /\ pc[r] \notin Cancelling \cup {"apply_save"}
  BY <1>1, RivalKnows DEF Course, Fits, IInv, Local
<1>3. /\ Alone(r) /\ UNCHANGED repo /\ pc[r] = "prep_load"
      /\ pc'[r] \in Resting \/ job'[r].run = x
      /\ \/ pc'[r] = "prep_save"
         \/ pc'[r] = "settle_load"
  BY <1>1, PrepareLoadMoves DEF Onward, Goes, Moved, Ends, GivesUp, Raises, Aside, Resting, Ended
<1>5. Rivalled(r, x) => pc'[r] \notin Holding \/ Eases(r)
  BY <1>1, <1>2, <1>3, MoveEases, Writing DEF Starting, Before, Sure, Charging, Holding
<1> QED
  BY <1>1, <1>3, <1>5, StillPatience DEF Cancelling, Resting

LEMMA PrepareCheckPatience ==
    ASSUME TInv, TInv', IInv, Course, Final, Patience, NEW r \in Runs, PrepareCheck(r)
    PROVE  Patience'
<1>1. PICK x \in Runs : Run(r) = x /\ r \in Procs /\ pc[r] \notin Resting
                        /\ (r \in Runs => r = x)
  BY Serves DEF Procs, Resting, PrepareCheck
<1>2. /\ Phase(r) /\ Holds(r) /\ Knows(r)
      /\ Rivalled(r, x) => /\ stateLock \in Callers \ {r} /\ x \in cancelled
                            /\ repo[x].status # "absent" /\ ~Ended(x) /\ x \notin hubClosed
                            /\ pc[r] \notin Cancelling \cup {"apply_save"}
  BY <1>1, RivalKnows DEF Course, Fits, IInv, Local
<1>3. /\ Alone(r) /\ UNCHANGED repo /\ pc[r] = "prep_check"
      /\ pc'[r] \in Resting \/ job'[r].run = x
      /\ \/ pc'[r] \in Resting
         \/ x \notin cancelled /\ pc'[r] = "load"
  BY <1>1, PrepareCheckMoves DEF Onward, Goes, Moved, Ends, GivesUp, Raises, Aside, Resting, Ended
<1>5. Rivalled(r, x) => pc'[r] \notin Holding \/ Eases(r)
  BY <1>1, <1>2, <1>3, MoveEases, Writing DEF Starting, Before, Sure, Charging, Holding
<1> QED
  BY <1>1, <1>3, <1>5, StillPatience DEF Cancelling, Resting

LEMMA RecordStartedPatience ==
    ASSUME TInv, TInv', IInv, Course, Final, Patience, NEW r \in Runs, RecordStarted(r)
    PROVE  Patience'
<1>1. PICK x \in Runs : Run(r) = x /\ r \in Procs /\ pc[r] \notin Resting
                        /\ (r \in Runs => r = x)
  BY Serves DEF Procs, Resting, RecordStarted
<1>2. /\ Phase(r) /\ Holds(r) /\ Knows(r)
      /\ Rivalled(r, x) => /\ stateLock \in Callers \ {r} /\ x \in cancelled
                            /\ repo[x].status # "absent" /\ ~Ended(x) /\ x \notin hubClosed
                            /\ pc[r] \notin Cancelling \cup {"apply_save"}
  BY <1>1, RivalKnows DEF Course, Fits, IInv, Local
<1>3. /\ Alone(r) /\ UNCHANGED repo /\ pc[r] = "started"
      /\ pc'[r] \in Resting \/ job'[r].run = x
      /\ \/ x \in hubClosed /\ pc'[r] = "fail_load"
         \/ pc'[r] = "graph"
  BY <1>1, RecordStartedMoves DEF Onward, Goes, Moved, Ends, GivesUp, Raises, Aside, Resting, Ended
<1>5. Rivalled(r, x) => pc'[r] \notin Holding \/ Eases(r)
  BY <1>1, <1>2, <1>3, MoveEases, Writing DEF Starting, Before, Sure, Charging, Holding
<1> QED
  BY <1>1, <1>3, <1>5, StillPatience DEF Cancelling, Resting

LEMMA GraphReturnsPatience ==
    ASSUME TInv, TInv', IInv, Course, Final, Patience, NEW p \in Procs, GraphReturns(p)
    PROVE  Patience'
<1>1. PICK x \in Runs : Run(p) = x /\ p \in Procs /\ pc[p] \notin Resting
                        /\ (p \in Runs => p = x)
  BY Serves DEF Procs, Resting, GraphReturns
<1>2. /\ Phase(p) /\ Holds(p) /\ Knows(p)
      /\ Rivalled(p, x) => /\ stateLock \in Callers \ {p} /\ x \in cancelled
                            /\ repo[x].status # "absent" /\ ~Ended(x) /\ x \notin hubClosed
                            /\ pc[p] \notin Cancelling \cup {"apply_save"}
  BY <1>1, RivalKnows DEF Course, Fits, IInv, Local
<1>3. /\ Alone(p) /\ UNCHANGED repo /\ pc[p] = "graph"
      /\ pc'[p] \in Resting \/ job'[p].run = x
      /\ \/ pc'[p] = "apply_lock"
  BY <1>1, GraphReturnsMoves DEF Onward, Goes, Moved, Ends, GivesUp, Raises, Aside, Resting, Ended
<1>5. Rivalled(p, x) => pc'[p] \notin Holding \/ Eases(p)
  BY <1>1, <1>2, <1>3, MoveEases, Writing DEF Starting, Before, Sure, Charging, Holding
<1> QED
  BY <1>1, <1>3, <1>5, StillPatience DEF Cancelling, Resting

LEMMA GraphRaisesPatience ==
    ASSUME TInv, TInv', IInv, Course, Final, Patience, NEW p \in Procs, GraphRaises(p)
    PROVE  Patience'
<1>1. PICK x \in Runs : Run(p) = x /\ p \in Procs /\ pc[p] \notin Resting
                        /\ (p \in Runs => p = x)
  BY Serves DEF Procs, Resting, GraphRaises
<1>2. /\ Phase(p) /\ Holds(p) /\ Knows(p)
      /\ Rivalled(p, x) => /\ stateLock \in Callers \ {p} /\ x \in cancelled
                            /\ repo[x].status # "absent" /\ ~Ended(x) /\ x \notin hubClosed
                            /\ pc[p] \notin Cancelling \cup {"apply_save"}
  BY <1>1, RivalKnows DEF Course, Fits, IInv, Local
<1>3. /\ Alone(p) /\ UNCHANGED repo /\ pc[p] = "graph"
      /\ pc'[p] \in Resting \/ job'[p].run = x
      /\ \/ pc'[p] \in {"apply_lock", "fail_load"}
         \/ pc'[p] = "settle_load" /\ job'[p].charged = FALSE
  BY <1>1, GraphRaisesMoves DEF Onward, Goes, Moved, Ends, GivesUp, Raises, Aside, Resting, Ended
<1>4. Rivalled(p, x) => repo[x].status = "running"
  BY <1>1, <1>2, <1>3 DEF Phase, Before, Queued, Active, Holds, Holding, Stored, Ended, Terminal
<1>5. Rivalled(p, x) => pc'[p] \notin Holding \/ Eases(p)
  BY <1>1, <1>2, <1>3, <1>4, MoveEases, Writing DEF Starting, Before, Sure, Charging, Holding
<1> QED
  BY <1>1, <1>3, <1>5, StillPatience DEF Cancelling, Resting

LEMMA FailLoadPatience ==
    ASSUME TInv, TInv', IInv, Course, Final, Patience, NEW r \in Runs, FailLoad(r)
    PROVE  Patience'
<1>1. PICK x \in Runs : Run(r) = x /\ r \in Procs /\ pc[r] \notin Resting
                        /\ (r \in Runs => r = x)
  BY Serves DEF Procs, Resting, FailLoad
<1>2. /\ Phase(r) /\ Holds(r) /\ Knows(r)
      /\ Rivalled(r, x) => /\ stateLock \in Callers \ {r} /\ x \in cancelled
                            /\ repo[x].status # "absent" /\ ~Ended(x) /\ x \notin hubClosed
                            /\ pc[r] \notin Cancelling \cup {"apply_save"}
  BY <1>1, RivalKnows DEF Course, Fits, IInv, Local
<1>3. /\ Alone(r) /\ UNCHANGED repo /\ pc[r] = "fail_load"
      /\ pc'[r] \in Resting \/ job'[r].run = x
      /\ \/ pc'[r] \in Resting
         \/ pc'[r] = "apply_lock"
         \/ pc'[r] = "fail_start" /\ repo[x].status # "running"
  BY <1>1, FailLoadMoves DEF Onward, Goes, Moved, Ends, GivesUp, Raises, Aside, Resting, Ended
<1>5. Rivalled(r, x) => pc'[r] \notin Holding \/ Eases(r)
  BY <1>1, <1>2, <1>3, MoveEases, Writing DEF Starting, Before, Sure, Charging, Holding
<1> QED
  BY <1>1, <1>3, <1>5, StillPatience DEF Cancelling, Resting

LEMMA ApplyLockPatience ==
    ASSUME TInv, TInv', IInv, Course, Final, Patience, NEW p \in Procs, ApplyLock(p)
    PROVE  Patience'
<1>1. PICK x \in Runs : Run(p) = x /\ p \in Procs /\ pc[p] \notin Resting
                        /\ (p \in Runs => p = x)
  BY Serves DEF Procs, Resting, ApplyLock
<1>2. /\ Phase(p) /\ Holds(p) /\ Knows(p)
      /\ Rivalled(p, x) => /\ stateLock \in Callers \ {p} /\ x \in cancelled
                            /\ repo[x].status # "absent" /\ ~Ended(x) /\ x \notin hubClosed
                            /\ pc[p] \notin Cancelling \cup {"apply_save"}
  BY <1>1, RivalKnows DEF Course, Fits, IInv, Local
<1>3. /\ Alone(p) /\ UNCHANGED repo /\ pc[p] = "apply_lock"
      /\ pc'[p] \in Resting \/ job'[p].run = x
      /\ \/ pc'[p] \in Resting
         \/ pc'[p] = "apply_save"
  BY <1>1, ApplyLockMoves DEF Onward, Goes, Moved, Ends, GivesUp, Raises, Aside, Resting, Ended
<1>5. Rivalled(p, x) => pc'[p] \notin Holding \/ Eases(p)
  BY <1>1, <1>2, <1>3, MoveEases, Writing DEF Starting, Before, Sure, Charging, Holding
<1> QED
  BY <1>1, <1>3, <1>5, StillPatience DEF Cancelling, Resting

LEMMA RecordOutcomePatience ==
    ASSUME TInv, TInv', IInv, Course, Final, Patience, NEW p \in Procs, RecordOutcome(p)
    PROVE  Patience'
<1>1. PICK x \in Runs : Run(p) = x /\ p \in Procs /\ pc[p] \notin Resting
                        /\ (p \in Runs => p = x)
  BY Serves DEF Procs, Resting, RecordOutcome
<1>2. /\ Phase(p) /\ Holds(p) /\ Knows(p)
      /\ Rivalled(p, x) => /\ stateLock \in Callers \ {p} /\ x \in cancelled
                            /\ repo[x].status # "absent" /\ ~Ended(x) /\ x \notin hubClosed
                            /\ pc[p] \notin Cancelling \cup {"apply_save"}
  BY <1>1, RivalKnows DEF Course, Fits, IInv, Local
<1>3. /\ Alone(p) /\ UNCHANGED repo /\ pc[p] = "outcome"
      /\ pc'[p] \in Resting \/ job'[p].run = x
      /\ \/ pc'[p] \in Resting
         \/ pc'[p] \in {"apply_lock", "fail_load"} /\ x \in hubClosed
  BY <1>1, RecordOutcomeMoves DEF Onward, Goes, Moved, Ends, GivesUp, Raises, Aside, Resting, Ended
<1>5. Rivalled(p, x) => pc'[p] \notin Holding \/ Eases(p)
  BY <1>1, <1>2, <1>3, MoveEases, Writing DEF Starting, Before, Sure, Charging, Holding
<1> QED
  BY <1>1, <1>3, <1>5, StillPatience DEF Cancelling, Resting

LEMMA NoneLeft ==
    ASSUME NEW p \in Procs, pc'[p] \notin Before \cup Starting \cup Sure \cup Charging
    PROVE  Left(p)' = 0 /\ ~Launching(p)' /\ ~Spending(p)'
<1>1. pc'[p] \notin Before /\ ~Spending(p)' /\ ~Launching(p)'
  BY SpendsNext DEF Launching
<1>2. Left(p)' = One(Spending(p)') + One(Launching(p)') + One(pc'[p] \in Before)
  BY Zenon DEF Left, One
<1> QED
  BY <1>1, <1>2 DEF One

\* What a save of the next version does to the record.
LEMMA WritesNext ==
    ASSUME TInv, NEW p \in Procs, NEW r \in Runs, Run(p) = r, NEW s, NEW b, Writes(p, s, b)
    PROVE  /\ repo'[r].version = repo[r].version + 1 /\ repo'[r].status = s
           /\ \A q \in Runs \ {r} : repo'[q] = repo[q]
           /\ Snap(p).status = repo[r].status
BY DEF Writes, Revised

LEMMA QueueRunPatience ==
    ASSUME TInv, TInv', IInv, Course, Final, Patience, NEW c \in Callers, QueueRun(c)
    PROVE  Patience'
<1>1. PICK x \in Runs : Run(c) = x /\ c \in Procs /\ pc[c] \notin Resting
                        /\ (c \in Runs => c = x)
  BY Serves DEF Procs, Resting, QueueRun
<1>2. /\ Phase(c) /\ Holds(c) /\ Knows(c)
      /\ Rivalled(c, x) => /\ stateLock \in Callers \ {c} /\ x \in cancelled
                            /\ repo[x].status # "absent" /\ ~Ended(x) /\ x \notin hubClosed
                            /\ pc[c] \notin Cancelling \cup {"apply_save"}
  BY <1>1, RivalKnows DEF Course, Fits, IInv, Local
<1>3. pc[c] = "queue"
  BY QueueRunMoves
<1>5. CASE UNCHANGED repo /\ Ends(c)
  <2>1. /\ Alone(c) /\ UNCHANGED repo
        /\ pc'[c] \in Resting \/ job'[c].run = x
        /\ \/ pc'[c] \in Resting
    BY <1>1, <1>5 DEF Onward, Goes, Moved, Ends, GivesUp, Resting
  <2>2. Rivalled(c, x) => pc'[c] \notin Holding \/ Eases(c)
    BY <1>1, <1>2, <1>3, <2>1, MoveEases, Writing DEF Starting, Before, Sure, Charging, Holding
  <2> QED
    BY <1>1, <1>3, <2>1, <2>2, StillPatience DEF Cancelling, Resting
<1>6. CASE /\ Writes(c, "queued", Snap(c).counted) /\ repo[Run(c)].status = "created"
           /\ Goes(c, "queued", Revised(c, "queued", Snap(c).counted),
                   job[c].target, job[c].charged)
  <2>1. /\ Alone(c) /\ pc'[c] = "queued" /\ job'[c].run = x
        /\ job'[c].charged = job[c].charged
    BY <1>1, <1>6 DEF Goes, Moved
  <2>2. /\ repo'[x].version = repo[x].version + 1 /\ repo'[x].status = "queued"
        /\ \A s \in Runs \ {x} : repo'[s] = repo[s]
    BY <1>1, <1>6, WritesNext
  <2>3. repo[x].status = "created"
    BY <1>1, <1>6
  <2>4. Eases(c)
    BY <1>1, <1>3, <2>1, <2>2, <2>3, MoveEases DEF Starting, Before, Sure, Charging, Holding
  <2>5. Drops(c) /\ pc[c] \in Holding
    BY <1>3, <2>1, Writing DEF Drops, Before, Holding
  <2>6. Spared(c, x)
    BY <2>2, <2>3, <2>4, <2>5 DEF Spared, Nexts, Waiting
  <2> QED
    BY <1>1, <1>3, <2>1, <2>2, <2>6, WritePatience DEF Cancelling, Resting
<1> QED
  BY <1>5, <1>6, QueueRunMoves

LEMMA ResumeRunPatience ==
    ASSUME TInv, TInv', IInv, Course, Final, Patience, NEW c \in Callers, ResumeRun(c)
    PROVE  Patience'
<1>1. PICK x \in Runs : Run(c) = x /\ c \in Procs /\ pc[c] \notin Resting
                        /\ (c \in Runs => c = x)
  BY Serves DEF Procs, Resting, ResumeRun
<1>2. /\ Phase(c) /\ Holds(c) /\ Knows(c)
      /\ Rivalled(c, x) => /\ stateLock \in Callers \ {c} /\ x \in cancelled
                            /\ repo[x].status # "absent" /\ ~Ended(x) /\ x \notin hubClosed
                            /\ pc[c] \notin Cancelling \cup {"apply_save"}
  BY <1>1, RivalKnows DEF Course, Fits, IInv, Local
<1>3. pc[c] = "resume"
  BY ResumeRunMoves
<1>5. CASE UNCHANGED repo /\ Ends(c)
  <2>1. /\ Alone(c) /\ UNCHANGED repo
        /\ pc'[c] \in Resting \/ job'[c].run = x
        /\ \/ pc'[c] \in Resting
    BY <1>1, <1>5 DEF Onward, Goes, Moved, Ends, GivesUp, Resting
  <2>2. Rivalled(c, x) => pc'[c] \notin Holding \/ Eases(c)
    BY <1>1, <1>2, <1>3, <2>1, MoveEases, Writing DEF Starting, Before, Sure, Charging, Holding
  <2> QED
    BY <1>1, <1>3, <2>1, <2>2, StillPatience DEF Cancelling, Resting
<1>6. CASE /\ Writes(c, "running", Snap(c).counted) /\ repo[Run(c)].status = "waiting_input"
           /\ Goes(c, "resumed", Revised(c, "running", Snap(c).counted),
                   job[c].target, job[c].charged)
  <2>1. /\ Alone(c) /\ pc'[c] = "resumed" /\ job'[c].run = x
        /\ job'[c].charged = job[c].charged
    BY <1>1, <1>6 DEF Goes, Moved
  <2>2. /\ repo'[x].version = repo[x].version + 1 /\ repo'[x].status = "running"
        /\ \A s \in Runs \ {x} : repo'[s] = repo[s]
    BY <1>1, <1>6, WritesNext
  <2>3. repo[x].status = "waiting_input"
    BY <1>1, <1>6
  <2>3a. pc'[c] \notin Before \cup Starting \cup Sure \cup Charging
    BY <2>1 DEF Starting, Before, Sure, Charging
  <2>3b. Left(c)' = 0
    BY <1>1, <2>3a, NoneLeft
  <2>4. Spared(c, x)
    BY <2>2, <2>3, <2>3b DEF Spared, Nexts, Waiting
  <2> QED
    BY <1>1, <1>3, <2>1, <2>2, <2>4, WritePatience DEF Cancelling, Resting
<1> QED
  BY <1>5, <1>6, ResumeRunMoves

LEMMA StartRunPatience ==
    ASSUME TInv, TInv', IInv, Course, Final, Patience, NEW r \in Runs, StartRun(r)
    PROVE  Patience'
<1>1. PICK x \in Runs : Run(r) = x /\ r \in Procs /\ pc[r] \notin Resting
                        /\ (r \in Runs => r = x)
  BY Serves DEF Procs, Resting, StartRun
<1>2. /\ Phase(r) /\ Holds(r) /\ Knows(r)
      /\ Rivalled(r, x) => /\ stateLock \in Callers \ {r} /\ x \in cancelled
                            /\ repo[x].status # "absent" /\ ~Ended(x) /\ x \notin hubClosed
                            /\ pc[r] \notin Cancelling \cup {"apply_save"}
  BY <1>1, RivalKnows DEF Course, Fits, IInv, Local
<1>3. pc[r] = "start"
  BY StartRunMoves
<1>5. CASE UNCHANGED repo /\ Onward(r, "fail_load")
  <2>1. /\ Alone(r) /\ UNCHANGED repo
        /\ pc'[r] \in Resting \/ job'[r].run = x
        /\ \/ pc'[r] = "fail_load"
    BY <1>1, <1>5 DEF Onward, Goes, Moved, Ends, GivesUp, Resting
  <2>2. Rivalled(r, x) => pc'[r] \notin Holding \/ Eases(r)
    BY <1>1, <1>2, <1>3, <2>1, MoveEases, Writing DEF Starting, Before, Sure, Charging, Holding
  <2> QED
    BY <1>1, <1>3, <2>1, <2>2, StillPatience DEF Cancelling, Resting
<1>6. CASE /\ Writes(r, "running", Snap(r).counted) /\ repo[Run(r)].status = "queued"
           /\ Goes(r, "started", Revised(r, "running", Snap(r).counted),
                   job[r].target, job[r].charged)
  <2>1. /\ Alone(r) /\ pc'[r] = "started" /\ job'[r].run = x
        /\ job'[r].charged = job[r].charged
    BY <1>1, <1>6 DEF Goes, Moved
  <2>2. /\ repo'[x].version = repo[x].version + 1 /\ repo'[x].status = "running"
        /\ \A s \in Runs \ {x} : repo'[s] = repo[s]
    BY <1>1, <1>6, WritesNext
  <2>3. repo[x].status = "queued"
    BY <1>1, <1>6
  <2>4. Eases(r)
    BY <1>1, <1>3, <2>1, <2>2, <2>3, MoveEases DEF Starting, Before, Sure, Charging, Holding
  <2>5. Drops(r) /\ pc[r] \in Holding
    BY <1>1, <1>3, <2>1, <2>3, Writing DEF Drops, Launching, Starting, Stored, Holding
  <2>6. Spared(r, x)
    BY <2>2, <2>3, <2>4, <2>5 DEF Spared, Nexts, Waiting
  <2> QED
    BY <1>1, <1>3, <2>1, <2>2, <2>6, WritePatience DEF Cancelling, Resting
<1> QED
  BY <1>5, <1>6, StartRunMoves

LEMMA FailStartPatience ==
    ASSUME TInv, TInv', IInv, Course, Final, Patience, NEW r \in Runs, FailStart(r)
    PROVE  Patience'
<1>1. PICK x \in Runs : Run(r) = x /\ r \in Procs /\ pc[r] \notin Resting
                        /\ (r \in Runs => r = x)
  BY Serves DEF Procs, Resting, FailStart
<1>2. /\ Phase(r) /\ Holds(r) /\ Knows(r)
      /\ Rivalled(r, x) => /\ stateLock \in Callers \ {r} /\ x \in cancelled
                            /\ repo[x].status # "absent" /\ ~Ended(x) /\ x \notin hubClosed
                            /\ pc[r] \notin Cancelling \cup {"apply_save"}
  BY <1>1, RivalKnows DEF Course, Fits, IInv, Local
<1>3. pc[r] = "fail_start"
  BY FailStartMoves
<1>5. CASE UNCHANGED repo /\ Goes(r, "settle_load", Snap(r), "failed", FALSE)
  <2>1. /\ Alone(r) /\ UNCHANGED repo
        /\ pc'[r] \in Resting \/ job'[r].run = x
        /\ \/ pc'[r] = "settle_load" /\ job'[r].charged = FALSE
    BY <1>1, <1>5 DEF Onward, Goes, Moved, Ends, GivesUp, Resting
  <2>2. Rivalled(r, x) => pc'[r] \notin Holding \/ Eases(r)
    BY <1>1, <1>2, <1>3, <2>1, MoveEases, Writing DEF Starting, Before, Sure, Charging, Holding
  <2> QED
    BY <1>1, <1>3, <2>1, <2>2, StillPatience DEF Cancelling, Resting
<1>6. CASE /\ Writes(r, "running", Snap(r).counted) /\ repo[Run(r)].status = "queued"
           /\ Goes(r, "apply_lock", Revised(r, "running", Snap(r).counted),
                   job[r].target, job[r].charged)
  <2>1. /\ Alone(r) /\ pc'[r] = "apply_lock" /\ job'[r].run = x
        /\ job'[r].charged = job[r].charged
    BY <1>1, <1>6 DEF Goes, Moved
  <2>2. /\ repo'[x].version = repo[x].version + 1 /\ repo'[x].status = "running"
        /\ \A s \in Runs \ {x} : repo'[s] = repo[s]
    BY <1>1, <1>6, WritesNext
  <2>3. repo[x].status = "queued"
    BY <1>1, <1>6
  <2>4. Eases(r)
    BY <1>1, <1>3, <2>1, <2>2, <2>3, MoveEases DEF Starting, Before, Sure, Charging, Holding
  <2>5. Drops(r) /\ pc[r] \in Holding
    BY <1>1, <1>3, <2>1, <2>3, Writing DEF Drops, Launching, Starting, Stored, Holding
  <2>6. Spared(r, x)
    BY <2>2, <2>3, <2>4, <2>5 DEF Spared, Nexts, Waiting
  <2> QED
    BY <1>1, <1>3, <2>1, <2>2, <2>6, WritePatience DEF Cancelling, Resting
<1> QED
  BY <1>5, <1>6, FailStartMoves

LEMMA SettleStartPatience ==
    ASSUME TInv, TInv', IInv, Course, Final, Patience, NEW r \in Runs, SettleStart(r)
    PROVE  Patience'
<1>1. PICK x \in Runs : Run(r) = x /\ r \in Procs /\ pc[r] \notin Resting
                        /\ (r \in Runs => r = x)
  BY Serves DEF Procs, Resting, SettleStart
<1>2. /\ Phase(r) /\ Holds(r) /\ Knows(r)
      /\ Rivalled(r, x) => /\ stateLock \in Callers \ {r} /\ x \in cancelled
                            /\ repo[x].status # "absent" /\ ~Ended(x) /\ x \notin hubClosed
                            /\ pc[r] \notin Cancelling \cup {"apply_save"}
  BY <1>1, RivalKnows DEF Course, Fits, IInv, Local
<1>3. pc[r] = "settle_start"
  BY SettleStartMoves
<1>5. CASE UNCHANGED repo /\ GivesUp(r) /\ ~Saves(r, "running")
  <2>1. /\ Alone(r) /\ UNCHANGED repo
        /\ pc'[r] \in Resting \/ job'[r].run = x
        /\ \/ pc'[r] \in Resting
           \/ pc'[r] = "settle_load" /\ job'[r].charged = FALSE
    BY <1>1, <1>5 DEF Onward, Goes, Moved, Ends, GivesUp, Resting
  <2>2. Rivalled(r, x) => pc'[r] \notin Holding \/ Eases(r)
    BY <1>1, <1>2, <1>3, <2>1, MoveEases, Writing DEF Starting, Before, Sure, Charging, Holding
  <2> QED
    BY <1>1, <1>3, <2>1, <2>2, StillPatience DEF Cancelling, Resting
<1>6. CASE /\ Writes(r, "running", Snap(r).counted) /\ repo[Run(r)].status = "queued"
           /\ Goes(r, "settle_started", Revised(r, "running", Snap(r).counted),
                   job[r].target, job[r].charged)
  <2>1. /\ Alone(r) /\ pc'[r] = "settle_started" /\ job'[r].run = x
        /\ job'[r].charged = job[r].charged
    BY <1>1, <1>6 DEF Goes, Moved
  <2>2. /\ repo'[x].version = repo[x].version + 1 /\ repo'[x].status = "running"
        /\ \A s \in Runs \ {x} : repo'[s] = repo[s]
    BY <1>1, <1>6, WritesNext
  <2>3. repo[x].status = "queued"
    BY <1>1, <1>6
  <2>4. Eases(r)
    BY <1>1, <1>3, <2>1, <2>2, <2>3, MoveEases DEF Starting, Before, Sure, Charging, Holding
  <2>5. Drops(r) /\ pc[r] \in Holding
    BY <1>1, <1>3, <2>1, <2>3, Writing DEF Drops, Launching, Starting, Stored, Holding
  <2>6. Spared(r, x)
    BY <2>2, <2>3, <2>4, <2>5 DEF Spared, Nexts, Waiting
  <2> QED
    BY <1>1, <1>3, <2>1, <2>2, <2>6, WritePatience DEF Cancelling, Resting
<1> QED
  BY <1>5, <1>6, SettleStartMoves

LEMMA PrepareSavePatience ==
    ASSUME TInv, TInv', IInv, Course, Final, Patience, NEW r \in Runs, PrepareSave(r)
    PROVE  Patience'
<1>1. PICK x \in Runs : Run(r) = x /\ r \in Procs /\ pc[r] \notin Resting
                        /\ (r \in Runs => r = x)
  BY Serves DEF Procs, Resting, PrepareSave
<1>2. /\ Phase(r) /\ Holds(r) /\ Knows(r)
      /\ Rivalled(r, x) => /\ stateLock \in Callers \ {r} /\ x \in cancelled
                            /\ repo[x].status # "absent" /\ ~Ended(x) /\ x \notin hubClosed
                            /\ pc[r] \notin Cancelling \cup {"apply_save"}
  BY <1>1, RivalKnows DEF Course, Fits, IInv, Local
<1>3. pc[r] = "prep_save"
  BY PrepareSaveMoves
<1>5. CASE /\ ~IsCurrent(r) /\ UNCHANGED <<repo, prefix>>
           /\ Goes(r, "settle_load", Snap(r), "failed", FALSE)
  <2>1. /\ Alone(r) /\ UNCHANGED repo
        /\ pc'[r] \in Resting \/ job'[r].run = x
        /\ \/ pc'[r] = "settle_load" /\ job'[r].charged = FALSE
    BY <1>1, <1>5 DEF Onward, Goes, Moved, Ends, GivesUp, Resting
  <2>2. Rivalled(r, x) => pc'[r] \notin Holding \/ Eases(r)
    BY <1>1, <1>2, <1>3, <2>1, MoveEases, Writing DEF Starting, Before, Sure, Charging, Holding
  <2> QED
    BY <1>1, <1>3, <2>1, <2>2, StillPatience DEF Cancelling, Resting
<1>6. CASE /\ Writes(r, Snap(r).status, TRUE) /\ prefix' = prefix \cup {r}
           /\ Goes(r, "prep_check", Revised(r, Snap(r).status, TRUE),
                   job[r].target, job[r].charged)
  <2>1. /\ Alone(r) /\ pc'[r] = "prep_check" /\ job'[r].run = x
        /\ job'[r].charged = job[r].charged
    BY <1>1, <1>6 DEF Goes, Moved
  <2>2. /\ repo'[x].version = repo[x].version + 1 /\ repo'[x].status = repo[x].status
        /\ \A s \in Runs \ {x} : repo'[s] = repo[s]
    BY <1>1, <1>6, WritesNext
  <2>3. repo[x].status \notin Waiting
    BY <1>1, <1>2, <1>3 DEF Holds, Holding, Stored
  <2>4. Eases(r)
    BY <1>1, <1>3, <2>1, <2>2, <2>3, MoveEases DEF Starting, Before, Sure, Charging, Holding
  <2>4a. pc'[r] \notin Before \cup Starting \cup Sure \cup Charging
    BY <2>1 DEF Starting, Before, Sure, Charging
  <2>4b. Spending(r) /\ ~Spending(r)'
    BY <1>1, <1>3, <2>4a, Spends, NoneLeft DEF Sure
  <2>5. Drops(r) /\ pc[r] \in Holding
    BY <1>3, <2>4b DEF Drops, Holding
  <2>6. Spared(r, x)
    BY <2>2, <2>3, <2>4, <2>5 DEF Spared, Nexts, Waiting
  <2> QED
    BY <1>1, <1>3, <2>1, <2>2, <2>6, WritePatience DEF Cancelling, Resting
<1> QED
  BY <1>5, <1>6, PrepareSaveMoves

LEMMA SettleSpendPatience ==
    ASSUME TInv, TInv', IInv, Course, Final, Patience, NEW r \in Runs, SettleSpend(r)
    PROVE  Patience'
<1>1. PICK x \in Runs : Run(r) = x /\ r \in Procs /\ pc[r] \notin Resting
                        /\ (r \in Runs => r = x)
  BY Serves DEF Procs, Resting, SettleSpend
<1>2. /\ Phase(r) /\ Holds(r) /\ Knows(r)
      /\ Rivalled(r, x) => /\ stateLock \in Callers \ {r} /\ x \in cancelled
                            /\ repo[x].status # "absent" /\ ~Ended(x) /\ x \notin hubClosed
                            /\ pc[r] \notin Cancelling \cup {"apply_save"}
  BY <1>1, RivalKnows DEF Course, Fits, IInv, Local
<1>3. pc[r] = "settle_spend"
  BY SettleSpendMoves
<1>4. Rivalled(r, x) => repo[x].status = "running"
  BY <1>1, <1>2, <1>3 DEF Phase, Before, Queued, Active, Holds, Holding, Stored, Ended, Terminal
<1>5. CASE ~IsCurrent(r) /\ UNCHANGED repo /\ GivesUp(r)
  <2>1. /\ Alone(r) /\ UNCHANGED repo
        /\ pc'[r] \in Resting \/ job'[r].run = x
        /\ \/ pc'[r] \in Resting
           \/ pc'[r] = "settle_load" /\ job'[r].charged = FALSE
    BY <1>1, <1>5 DEF Onward, Goes, Moved, Ends, GivesUp, Resting
  <2>2. Rivalled(r, x) => pc'[r] \notin Holding \/ Eases(r)
    <3>1. pc'[r] \in Resting => pc'[r] \notin Holding
      BY Writing, Zenon
    <3>2. /\ pc'[r] = "settle_load" => pc'[r] \notin Before /\ pc'[r] \in Charging
          /\ pc[r] \in Sure /\ repo' = repo
      BY <1>3, <2>1 DEF Before, Sure, Charging
    <3>3. Rivalled(r, x) /\ pc'[r] = "settle_load" => Eases(r)
      BY <1>1, <1>4, <2>1, <3>1, <3>2, MoveEases DEF Resting
    <3> QED
      BY <2>1, <3>1, <3>3, Zenon
  <2> QED
    BY <1>1, <1>3, <2>1, <2>2, StillPatience DEF Cancelling, Resting
<1>6. CASE /\ Writes(r, Snap(r).status, TRUE)
           /\ \E t \in {job[r].target, "timed_out"} :
                 Goes(r, "apply_lock", Revised(r, Snap(r).status, TRUE), t, job[r].charged)
  <2>1. /\ Alone(r) /\ pc'[r] = "apply_lock" /\ job'[r].run = x
        /\ job'[r].charged = job[r].charged
    BY <1>1, <1>6 DEF Goes, Moved
  <2>2. /\ repo'[x].version = repo[x].version + 1 /\ repo'[x].status = repo[x].status
        /\ \A s \in Runs \ {x} : repo'[s] = repo[s]
    <3> DEFINE st == Snap(r).status
    <3>1. Writes(r, st, TRUE) /\ Run(r) = x /\ x \in Runs
      BY <1>1, <1>6, Zenon
    <3> HIDE DEF st
    <3>2. /\ repo'[x].version = repo[x].version + 1 /\ repo'[x].status = st
          /\ \A s \in Runs \ {x} : repo'[s] = repo[s]
          /\ Snap(r).status = repo[x].status
      BY <1>1, <3>1, WritesNext
    <3> QED
      BY <3>2 DEF st
  <2>3. repo[x].status \notin Waiting
    BY <1>1, <1>2, <1>3 DEF Holds, Holding, Stored
  <2>4. Eases(r)
    BY <1>1, <1>3, <2>1, <2>2, <2>3, MoveEases DEF Starting, Before, Sure, Charging, Holding
  <2>4a. pc'[r] \notin Before \cup Starting \cup Sure \cup Charging
    BY <2>1 DEF Starting, Before, Sure, Charging
  <2>4b. Spending(r) /\ ~Spending(r)'
    BY <1>1, <1>3, <2>4a, Spends, NoneLeft DEF Sure
  <2>5. Drops(r) /\ pc[r] \in Holding
    BY <1>3, <2>4b DEF Drops, Holding
  <2>6. Spared(r, x)
    BY <2>2, <2>3, <2>4, <2>5 DEF Spared, Nexts, Waiting
  <2> QED
    BY <1>1, <1>3, <2>1, <2>2, <2>6, WritePatience DEF Cancelling, Resting
<1> QED
  BY <1>5, <1>6, SettleSpendMoves

\* Nobody who may still write its Run ends it, and who finds it ended writes no status.
LEMMA EndedPatience ==
    ASSUME TInv, TInv', IInv, Final, Patience, NEW p \in Procs, NEW r \in Runs,
           pc[p] \notin Resting, Run(p) = r, Alone(p), \A s \in Runs \ {r} : repo'[s] = repo[s],
           pc'[p] \notin Cancelling \ {"cancel_record"}, pc'[p] \notin Resting => job'[p].run = r,
           ~Rivalled(p, r)
    PROVE  Patience'
BY WritePatience

LEMMA InsertRunPatience ==
    ASSUME TInv, TInv', IInv, Final, Patience, NEW c \in Callers, InsertRun(c)
    PROVE  Patience'
<1>1. PICK x \in Runs : Run(c) = x /\ c \in Procs /\ pc[c] \notin Resting
  BY Serves DEF Procs, Resting, InsertRun
<1>2. CASE Ends(c) /\ UNCHANGED repo
  <2>1. Alone(c) /\ pc'[c] \in Resting
    BY <1>2 DEF Ends, Moved
  <2> QED
    BY <1>1, <1>2, <2>1, StillPatience, Writing DEF Cancelling, Resting
<1>3. CASE /\ repo[Run(c)].status = "absent"
           /\ \A r \in Runs \ {Run(c)} : repo'[r] = repo[r]
           /\ Moved(c) /\ pc'[c] = "created" /\ job'[c].run = Run(c)
  <2>1. ~Rivalled(c, x)
    BY <1>1, <1>3, RivalKnows
  <2> QED
    BY <1>1, <1>3, <2>1, EndedPatience DEF Cancelling, Moved
<1> QED
  BY <1>2, <1>3, InsertRunMoves

LEMMA ApplySavePatience ==
    ASSUME TInv, TInv', IInv, Final, Patience, NEW p \in Procs, ApplySave(p)
    PROVE  Patience'
<1>1. PICK x \in Runs : Run(p) = x /\ pc[p] \notin Resting /\ pc[p] = "apply_save"
  BY Serves DEF Resting, ApplySave
<1>2. ~Rivalled(p, x)
  BY <1>1, RivalKnows
<1>3. CASE UNCHANGED <<repo, asked>> /\ Raises(p)
  <2>1. Alone(p) /\ pc'[p] \in {"fail_load", "apply_lock"} /\ job'[p].run = x
    BY <1>1, <1>3 DEF Raises, Goes, Moved
  <2> QED
    BY <1>1, <1>2, <1>3, <2>1, EndedPatience DEF Cancelling
<1>4. CASE /\ Writes(p, job[p].target, Counted(p))
           /\ Goes(p, "checkpoint", Revised(p, job[p].target, Counted(p)),
                   job[p].target, job[p].charged)
  <2>1. Alone(p) /\ pc'[p] = "checkpoint" /\ job'[p].run = x
    BY <1>1, <1>4 DEF Goes, Moved
  <2>2. \A s \in Runs \ {x} : repo'[s] = repo[s]
    BY <1>1, <1>4 DEF Writes
  <2> QED
    BY <1>1, <1>2, <2>1, <2>2, EndedPatience DEF Cancelling
<1> QED
  BY <1>3, <1>4, ApplySaveMoves

LEMMA PublishResultPatience ==
    ASSUME TInv, TInv', IInv, Final, Patience, NEW p \in Procs, PublishResult(p)
    PROVE  Patience'
<1>1. PICK x \in Runs : Run(p) = x /\ pc[p] \notin Resting /\ pc[p] = "result"
  BY Serves DEF Resting, PublishResult
<1>2. ~Rivalled(p, x)
  BY <1>1 DEF IInv, Local, Knows, Announcing, Terminal, Rivalled
<1>3. CASE UNCHANGED repo /\ (Onward(p, "outcome") \/ Raises(p))
  <2>1. Alone(p) /\ pc'[p] \in {"fail_load", "apply_lock", "outcome"} /\ job'[p].run = x
    BY <1>1, <1>3 DEF Onward, Raises, Goes, Moved
  <2> QED
    BY <1>1, <1>2, <1>3, <2>1, EndedPatience DEF Cancelling
<1>4. CASE /\ Writes(p, Snap(p).status, Snap(p).counted)
           /\ Goes(p, "outcome", Revised(p, Snap(p).status, Snap(p).counted),
                   job[p].target, job[p].charged)
  <2>1. Alone(p) /\ pc'[p] = "outcome" /\ job'[p].run = x
    BY <1>1, <1>4 DEF Goes, Moved
  <2>2. \A s \in Runs \ {x} : repo'[s] = repo[s]
    BY <1>1, <1>4 DEF Writes
  <2> QED
    BY <1>1, <1>2, <2>1, <2>2, EndedPatience DEF Cancelling
<1> QED
  BY <1>3, <1>4, PublishResultMoves

LEMMA SettleChargePatience ==
    ASSUME TInv, TInv', IInv, Final, Patience, NEW r \in Runs, SettleCharge(r)
    PROVE  Patience'
<1>1. PICK x \in Runs : Run(r) = x /\ r \in Procs /\ pc[r] \notin Resting /\ pc[r] = "settle_charge"
  BY Serves DEF Procs, Resting, SettleCharge
<1>2. ~Rivalled(r, x)
  BY <1>1 DEF IInv, Local, Knows, Rivalled
<1>3. Alone(r) /\ pc'[r] \in Resting /\ (UNCHANGED repo \/ Writes(r, Snap(r).status, TRUE))
  BY SettleChargeMoves DEF Ends, Moved
<1>4. \A s \in Runs \ {x} : repo'[s] = repo[s]
  BY <1>1, <1>3 DEF Writes
<1> QED
  BY <1>1, <1>2, <1>3, <1>4, EndedPatience DEF Cancelling, Resting

LEMMA SettleLoadPatience ==
    ASSUME TInv, TInv', IInv, Final, Patience, NEW r \in Runs, SettleLoad(r)
    PROVE  Patience'
<1>1. PICK x \in Runs : Run(r) = x /\ r \in Procs /\ pc[r] \notin Resting /\ pc[r] = "settle_load"
  BY Serves DEF Procs, Resting, SettleLoad
<1>2. Alone(r) /\ UNCHANGED repo /\ (pc'[r] \notin Resting => job'[r].run = x)
  BY <1>1, SettleLoadMoves DEF Ends, Goes, Moved, Aside
<1>3. \/ pc'[r] \in Resting \cup {"settle_charge", "apply_lock"}
      \/ pc'[r] = "settle_start" /\ job'[r].charged = job[r].charged /\ repo[x].status # "running"
      \/ pc'[r] = "settle_spend" /\ job[r].charged /\ repo[x].status = "running"
  BY <1>1, SettleLoadMoves, Zenon DEF Ends, Goes
<1>4. pc'[r] \notin Holding \/ Eases(r)
  <2>1. CASE pc'[r] \in Resting \cup {"settle_charge", "apply_lock"}
    <3>1. pc'[r] \notin Holding \/ pc'[r] \notin Starting \cup Before \cup Sure \cup Charging
      BY <2>1 DEF Holding, Resting, Starting, Before, Sure, Charging
    <3>2. CASE pc'[r] \notin Starting \cup Before \cup Sure \cup Charging
      BY <1>1, <3>2, NoneLeft DEF Eases
    <3> QED
      BY <3>1, <3>2
  <2>2. CASE pc'[r] = "settle_start" /\ job'[r].charged = job[r].charged /\ repo[x].status # "running"
    BY <1>1, <1>2, <2>2, MoveEases DEF Holding, Resting, Starting, Before, Sure, Charging
  <2>3. CASE pc'[r] = "settle_spend" /\ job[r].charged /\ repo[x].status = "running"
    <3>1. pc[r] \in Charging /\ job[r].charged /\ job'[r].run = x /\ pc'[r] \notin Before \cup Starting
      BY <1>1, <1>2, <2>3 DEF Charging, Before, Starting, Resting
    <3> QED
      BY <1>1, <3>1, MoveEases
  <2> QED
    BY <1>3, <2>1, <2>2, <2>3, Zenon
<1>5. pc'[r] \notin Cancelling
  BY <1>3, Zenon DEF Cancelling, Resting
<1> QED
  BY <1>1, <1>2, <1>4, <1>5, StillPatience

LEMMA RecordSettleStartedPatience ==
    ASSUME TInv, TInv', IInv, Final, Patience, NEW r \in Runs, RecordSettleStarted(r)
    PROVE  Patience'
<1>1. PICK x \in Runs : /\ Run(r) = x /\ r = x /\ r \in Procs /\ pc[r] \notin Resting
                        /\ pc[r] = "settle_started"
  BY Serves DEF Procs, Resting, RecordSettleStarted
<1>2. Alone(r) /\ UNCHANGED repo /\ (pc'[r] \notin Resting => job'[r].run = x)
  BY <1>1, RecordSettleStartedMoves DEF GivesUp, Onward, Ends, Goes, Moved, Aside
<1>3. \/ pc'[r] \in Resting \cup {"settle_load"} /\ x \in hubClosed
      \/ pc'[r] = "settle_spend" /\ job[r].charged
      \/ pc'[r] = "apply_lock"
  BY <1>1, RecordSettleStartedMoves, Zenon DEF GivesUp, Onward, Ends, Goes
<1>4. Rivalled(r, x) => Eases(r)
  <2>1. CASE x \in hubClosed
    BY <1>1, <2>1, RivalKnows
  <2>2. CASE pc'[r] = "settle_spend" /\ job[r].charged
    <3>1. pc[r] \in Charging /\ job[r].charged /\ job'[r].run = x /\ pc'[r] \notin Before \cup Starting
      BY <1>1, <1>2, <2>2 DEF Charging, Before, Starting, Resting
    <3> QED
      BY <1>1, <3>1, MoveEases
  <2>3. CASE pc'[r] = "apply_lock"
    <3>1. pc'[r] \notin Starting \cup Before \cup Sure \cup Charging
      BY <2>3 DEF Starting, Before, Sure, Charging
    <3> QED
      BY <1>1, <3>1, NoneLeft DEF Eases
  <2> QED
    BY <1>3, <2>1, <2>2, <2>3, Zenon
<1>5. pc'[r] \notin Cancelling
  BY <1>3, Zenon DEF Cancelling, Resting
<1> QED
  BY <1>1, <1>2, <1>4, <1>5, StillPatience

\* The step of whoever cancels its Run, as long as it writes nothing.
LEMMA OwnPatience ==
    ASSUME TInv, TInv', IInv, Final, Patience, NEW c \in Callers, NEW r \in Runs,
           pc[c] \in Cancelling \ {"cancel_record"}, Run(c) = r, Alone(c), UNCHANGED repo,
           pc'[c] \in Cancelling \ {"cancel_record"}, job'[c].run = r,
           ~Ended(r) => /\ Overtaken(c)' = Overtaken(c)
                        /\ pc'[c] # "cancel_reload" => job'[c].snap.status \notin Terminal \cup {"absent"}
                        /\ repo[r].status \in Waiting => pc'[c] # "cancel_reload"
    PROVE  Patience'
<1>1. c \in Procs /\ pc[c] \notin Resting /\ pc[c] \notin Holding /\ pc'[c] \notin Holding
  BY Phases, Writing DEF Procs
<1>2. Rivalled(c, r) => Spared(c, r)
  BY <1>1 DEF Spared
<1>3. Patient(c)'
  <2>1. SUFFICES ASSUME ~Ended(r) PROVE Patient(c)'
    BY DEF Patient, Ended, Run
  <2>2. Patient(c)
    BY DEF Patience
  <2>3. /\ Overtaken(c)' = Overtaken(c)
        /\ pc'[c] # "cancel_reload" => job'[c].snap.status \notin Terminal \cup {"absent"}
        /\ repo[r].status \in Waiting => pc'[c] # "cancel_reload"
    BY <2>1
  <2>4. /\ repo[r].status \in Waiting => Overtaken(c) = 0
        /\ Overtaken(c) <= 2
        /\ \A q \in Procs : pc[q] \notin Resting /\ Run(q) = r => Overtaken(c) + Left(q) <= 2
    BY <2>1, <2>2 DEF Patient, Stored
  <2>5. ASSUME NEW q \in Procs, pc'[q] \notin Resting, job'[q].run = r
        PROVE  Overtaken(c)' + Left(q)' <= 2
    <3>1. CASE q = c
      <4>1. Left(q)' = 0 /\ Left(q) = 0 /\ Overtaken(c) + Left(q) <= 2
        BY <1>1, <2>4, <3>1, LeftNext, LeftRange
      <4> QED
        BY <2>3, <4>1
    <3>2. CASE q # c
      <4>1. pc'[q] = pc[q] /\ job'[q] = job[q]
        BY <3>2 DEF Alone
      <4>2. Left(q)' = Left(q) /\ pc[q] \notin Resting /\ Run(q) = r
        BY <2>5, <4>1, LeftSame DEF Run
      <4> QED
        BY <2>3, <2>4, <4>2
    <3> QED
      BY <3>1, <3>2
  <2> QED
    BY <2>3, <2>4, <2>5 DEF Patient, Stored, Snap, Run
<1> QED
  BY <1>1, <1>2, <1>3, PatienceStep DEF Procs

LEMMA RecordCancelRequestPatience ==
    ASSUME TInv, TInv', IInv, Final, Patience, NEW c \in Callers, RecordCancelRequest(c)
    PROVE  Patience'
<1>1. PICK x \in Runs : /\ Run(c) = x /\ c \in Procs /\ pc[c] \notin Resting
                        /\ pc[c] = "cancel_mark"
  BY Serves DEF Procs, Resting, RecordCancelRequest
<1>2. UNCHANGED repo
  BY RecordCancelRequestMoves DEF Aside
<1>3. CASE Ends(c)
  <2>1. Alone(c) /\ pc'[c] \in Resting
    BY <1>3 DEF Ends, Moved
  <2> QED
    BY <1>1, <1>2, <2>1, StillPatience, Writing DEF Cancelling, Resting
<1>4. CASE Onward(c, "cancel_try") /\ UNCHANGED job
  <2>1. Alone(c) /\ pc'[c] = "cancel_try" /\ job' = job
    BY <1>4 DEF Onward, Goes, Moved
  <2>2. Overtaken(c)' = Overtaken(c)
    BY <1>1, <1>2, <2>1 DEF Overtaken, Snap, Stored, Run
  <2>3. ~Ended(x) => Snap(c).status \notin Terminal \cup {"absent"}
    BY <1>1 DEF Patience, Patient, Cancelling
  <2> QED
    BY <1>1, <1>2, <2>1, <2>2, <2>3, OwnPatience DEF Cancelling, Snap, Run
<1> QED
  BY <1>3, <1>4, RecordCancelRequestMoves

LEMMA CancelTryPatience ==
    ASSUME TInv, TInv', IInv, Final, Patience, NEW c \in Callers, CancelTry(c)
    PROVE  Patience'
<1>1. PICK x \in Runs : /\ Run(c) = x /\ c \in Procs /\ pc[c] \notin Resting
                        /\ pc[c] = "cancel_try"
  BY Serves DEF Procs, Resting, CancelTry
<1>2. CASE /\ Writes(c, "cancelled", Snap(c).counted)
           /\ Goes(c, "cancel_record", Revised(c, "cancelled", Snap(c).counted),
                   job[c].target, job[c].charged)
  <2>1. Alone(c) /\ pc'[c] = "cancel_record" /\ job'[c].run = x
    BY <1>1, <1>2 DEF Goes, Moved
  <2>2. \A s \in Runs \ {x} : repo'[s] = repo[s]
    BY <1>1, <1>2 DEF Writes
  <2>3. ~Rivalled(c, x)
    BY <1>1, RivalKnows DEF Cancelling
  <2> QED
    BY <1>1, <2>1, <2>2, <2>3, EndedPatience DEF Cancelling
<1>3. CASE /\ ~Saves(c, "cancelled") /\ UNCHANGED repo
           /\ Moved(c) /\ pc'[c] = "cancel_reload" /\ job'[c].run = Run(c)
           /\ job'[c].snap = Snap(c) /\ job'[c].tries = job[c].tries + 1
  <2>1. ASSUME ~Ended(x)
        PROVE  Overtaken(c)' = Overtaken(c) /\ Overtaken(c) # 0
    <3>1. Snap(c).status \notin Terminal \cup {"absent"} /\ Snap(c).status \in Status
      <4>1. Snap(c) \in Record
        BY <1>1, KnownRecord
      <4> QED
        BY <1>1, <2>1, <4>1 DEF Patience, Patient, Cancelling, Record
    <3>2. Snap(c).version # Stored(c).version
      BY <1>3, <3>1, Follows DEF Saves, IsCurrent, Stored
    <3>3. Overtaken(c) = job[c].tries + 1
      BY <1>1, <3>2 DEF Overtaken, One
    <3>4. job[c].tries \in Nat
      <4>1. job[c] \in Job
        BY <1>1 DEF TInv, TypeOK
      <4> QED
        BY <4>1 DEF Job
    <3>5. Overtaken(c)' = job'[c].tries + One(pc'[c] # "cancel_reload" /\ Snap(c)'.version # Stored(c)'.version)
      BY DEF Overtaken
    <3>6. One(pc'[c] # "cancel_reload" /\ Snap(c)'.version # Stored(c)'.version) = 0
      BY <1>3 DEF One
    <3> QED
      BY <1>3, <3>3, <3>4, <3>5, <3>6
  <2>2. ~Ended(x) /\ repo[x].status \in Waiting => Overtaken(c) = 0
    BY <1>1 DEF Patience, Patient, Cancelling, Stored
  <2>3. Alone(c) /\ pc'[c] = "cancel_reload" /\ job'[c].run = x /\ UNCHANGED repo
    BY <1>1, <1>3 DEF Moved
  <2>4. "cancel_try" \in Cancelling \ {"cancel_record"} /\ "cancel_reload" \in Cancelling \ {"cancel_record"}
    BY DEF Cancelling
  <2> QED
    BY <1>1, <2>1, <2>2, <2>3, <2>4, OwnPatience
<1> QED
  BY <1>2, <1>3, CancelTryMoves

LEMMA CancelReloadPatience ==
    ASSUME TInv, TInv', IInv, Final, Patience, NEW c \in Callers, CancelReload(c)
    PROVE  Patience'
<1>1. PICK x \in Runs : /\ Run(c) = x /\ c \in Procs /\ pc[c] \notin Resting
                        /\ pc[c] = "cancel_reload"
  BY Serves DEF Procs, Resting, CancelReload
<1>2. UNCHANGED repo
  BY CancelReloadMoves DEF Aside
<1>3. CASE Ends(c)
  <2>1. Alone(c) /\ pc'[c] \in Resting
    BY <1>3 DEF Ends, Moved
  <2> QED
    BY <1>1, <1>2, <2>1, StillPatience, Writing DEF Cancelling, Resting
<1>4. CASE /\ Moved(c) /\ pc'[c] = "cancel_try" /\ job'[c].run = Run(c) /\ ~Ended(Run(c))
           /\ job'[c].snap = repo[Run(c)] /\ job'[c].tries = job[c].tries
  <2>1. Alone(c) /\ pc'[c] = "cancel_try" /\ job'[c].run = x /\ job'[c].snap = repo[x]
        /\ job'[c].tries = job[c].tries
    BY <1>1, <1>4 DEF Moved
  <2>2. Overtaken(c)' = job'[c].tries + One(pc'[c] # "cancel_reload" /\ job'[c].snap.version # repo'[job'[c].run].version)
    BY DEF Overtaken, Snap, Stored, Run
  <2>3. Overtaken(c)' = Overtaken(c)
    BY <1>1, <1>2, <2>1, <2>2 DEF Overtaken, One
  <2>4. ~Ended(x) => job'[c].snap.status \notin Terminal \cup {"absent"}
    BY <1>1, <2>1 DEF IInv, Local, Signalled, Cancelling, Stored, Ended
  <2> QED
    BY <1>1, <1>2, <2>1, <2>3, <2>4, OwnPatience DEF Cancelling
<1> QED
  BY <1>3, <1>4, CancelReloadMoves

LEMMA RecordCancelledPatience ==
    ASSUME TInv, TInv', IInv, Final, Patience, NEW c \in Callers, RecordCancelled(c)
    PROVE  Patience'
<1>1. PICK x \in Runs : /\ Run(c) = x /\ c \in Procs /\ pc[c] \notin Resting
                        /\ pc[c] = "cancel_record"
  BY Serves DEF Procs, Resting, RecordCancelled
<1>2. Alone(c) /\ UNCHANGED repo /\ pc'[c] \in Resting
  BY RecordCancelledMoves DEF Ends, Moved
<1> QED
  BY <1>1, <1>2, StillPatience, Writing DEF Cancelling, Resting

LEMMA RequestPatience ==
    ASSUME TInv, TInv', IInv, Final, Patience, NEW c \in Callers, Request(c)
    PROVE  Patience'
<1>1. ASSUME NEW r \in Runs, pc[c] = "idle", pc'[c] \in {"insert", "match"}, job'[c].run = r,
             Alone(c), UNCHANGED repo, c \in Procs
      PROVE  Patience'
  <2>1. pc[c] \in Resting /\ pc'[c] \notin Holding \cup Cancelling
    BY <1>1 DEF Resting, Holding, Cancelling
  <2>2. Rivalled(c, r) => Spared(c, r)
    BY <1>1, <2>1 DEF Spared
  <2> QED
    BY <1>1, <2>1, <2>2, PatienceStep, NotCancelling
<1>2. ASSUME NEW r \in Runs, LookupRequest(c, r) PROVE Patience'
  BY <1>1, <1>2, LookupRequestMoves DEF Aside
<1>3. ASSUME NEW r \in Runs, LoadWaiting(c, r) PROVE Patience'
  BY <1>1, <1>3, LoadWaitingMoves DEF Aside
<1>4. ASSUME NEW r \in Runs, CancelLoad(c, r) PROVE Patience'
  <2>1. /\ c \in Procs /\ pc[c] = "idle" /\ pc'[c] \in {"cancel_try", "cancel_mark"}
        /\ job'[c].run = r /\ job'[c].snap = repo[r] /\ job'[c].tries = 0 /\ Alone(c)
        /\ repo[r].status \notin Terminal \cup {"absent"} /\ UNCHANGED repo
    BY <1>4, CancelLoadMoves DEF Aside
  <2>2. pc[c] \in Resting /\ pc'[c] \notin Holding
    BY <2>1 DEF Resting, Holding
  <2>3. Rivalled(c, r) => Spared(c, r)
    BY <2>1, <2>2 DEF Spared
  <2>4. Overtaken(c)' = job'[c].tries + One(pc'[c] # "cancel_reload" /\ job'[c].snap.version # repo'[job'[c].run].version)
    BY DEF Overtaken, Snap, Stored, Run
  <2>5. Overtaken(c)' = 0
    BY <2>1, <2>4 DEF One
  <2>6. ASSUME NEW q \in Procs PROVE Overtaken(c)' + Left(q)' <= 2
    BY <2>5, LeftNext
  <2>7. Patient(c)'
    BY <2>1, <2>5, <2>6 DEF Patient, Snap
  <2> QED
    BY <2>1, <2>2, <2>3, <2>7, PatienceStep
<1> QED
  BY <1>2, <1>3, <1>4 DEF Request

\* The task takes over what its creator may still write.
LEMMA SpawnTaskPatience ==
    ASSUME TInv, TInv', IInv, Final, Patience, NEW c \in Callers, NEW mode \in {"direct", "prepare"},
           SpawnTask(c, mode)
    PROVE  Patience'
<1>1. PICK r \in Runs :
         /\ c \in Procs /\ r \in Procs /\ c # r /\ Run(c) = r /\ pc[c] = "spawn"
         /\ pc'[c] = "idle" /\ pc'[r] \in {"load", "guard"} /\ job'[r].run = r
         /\ \A q \in Procs \ {c, r} : pc'[q] = pc[q] /\ job'[q] = job[q]
         /\ Aside
  BY SpawnTaskMoves
<1>2. UNCHANGED repo
  BY <1>1 DEF Aside
<1>3. Left(r)' = Left(c)
  <2>1. ~Spending(c) /\ ~Spending(r)' /\ pc[c] \notin Before /\ pc'[r] \notin Before
    BY <1>1, Spends, SpendsNext DEF Sure, Charging, Before
  <2>2. Launching(r)' <=> Launching(c)
    BY <1>1, <1>2 DEF Launching, Starting, Stored, Run
  <2>3. Left(r)' = One(Spending(r)') + One(Launching(r)') + One(pc'[r] \in Before)
    BY Zenon DEF Left, One
  <2> QED
    BY <2>1, <2>2, <2>3 DEF Left, One
<1>4. SUFFICES ASSUME NEW d \in Callers, pc'[d] \in Cancelling \ {"cancel_record"}, ~Ended(Run(d))'
               PROVE  Patient(d)'
  BY DEF Patience, Patient
<1>5. d \in Procs /\ d # c /\ d # r
  BY <1>1, <1>4, ProcessesDistinct DEF Procs, Cancelling
<1>6. pc'[d] = pc[d] /\ job'[d] = job[d] /\ Run(d)' = Run(d) /\ Snap(d)' = Snap(d) /\ Patient(d)
  BY <1>1, <1>5 DEF Run, Snap, Patience
<1>7. Overtaken(d)' = Overtaken(d) /\ Stored(d)' = Stored(d) /\ ~Ended(Run(d))
  BY <1>2, <1>4, <1>6 DEF Overtaken, Stored, Ended
<1>8. ASSUME NEW q \in Procs, pc'[q] \notin Resting, job'[q].run = Run(d)
      PROVE  Overtaken(d)' + Left(q)' <= 2
  <2>1. \A s \in Procs : pc[s] \notin Resting /\ Run(s) = Run(d) => Overtaken(d) + Left(s) <= 2
    BY <1>4, <1>6, <1>7 DEF Patient
  <2>2. CASE q = r
    BY <1>1, <1>3, <1>7, <1>8, <2>1, <2>2 DEF Resting
  <2>3. CASE q \notin {c, r}
    <3>1. pc[q] \notin Resting /\ Run(q) = Run(d) /\ Left(q)' = Left(q)
      BY <1>1, <1>2, <1>8, <2>3, LeftSame DEF Run
    <3> QED
      BY <1>7, <2>1, <3>1
  <2> QED
    BY <1>1, <1>8, <2>2, <2>3 DEF Resting
<1> QED
  BY <1>4, <1>6, <1>7, <1>8 DEF Patient, Run

LEMMA PatienceInitial == Init => Patience
BY DEF Init, Patience, Patient, Cancelling, Procs

LEMMA RestartPatience ==
    ASSUME Restart
    PROVE  Patience'
BY DEF Restart, Patience, Patient, Cancelling, Procs

LEMMA PatiencePreserved ==
    TInv /\ TInv' /\ IInv /\ Course /\ Patience /\ [Next]_vars => Patience'
<1> SUFFICES ASSUME TInv, TInv', IInv, Course, Patience, [Next]_vars PROVE Patience'
  OBVIOUS
<1>0. Final
  BY EndsFinal
<1>1. ASSUME NEW c \in Callers, CallerStep(c) PROVE Patience'
  BY <1>0, <1>1, InsertRunPatience, RecordCreatedPatience, QueueRunPatience, RecordQueuedPatience,
     SpawnTaskPatience, MatchCheckpointPatience, ResumeRunPatience, RecordResumedPatience,
     RecordCancelRequestPatience, CancelTryPatience, CancelReloadPatience, RecordCancelledPatience
     DEF CallerStep
<1>2. ASSUME NEW r \in Runs, TaskStep(r) PROVE Patience'
  BY <1>0, <1>2, PrepareGuardPatience, PrepareReturnsPatience, PrepareFailsPatience, PrepareLoadPatience,
     PrepareSavePatience, PrepareCheckPatience, LoadQueuedPatience, SelectStrategyPatience,
     RejectStrategyPatience, RejectPayloadPatience, StartRunPatience, RecordStartedPatience,
     FailLoadPatience, FailStartPatience, SettleLoadPatience, SettleChargePatience, SettleStartPatience,
     RecordSettleStartedPatience, SettleSpendPatience
     DEF TaskStep
<1>3. ASSUME NEW p \in Procs, GraphStep(p) PROVE Patience'
  BY <1>0, <1>3, GraphReturnsPatience, GraphRaisesPatience, ApplyLockPatience, ApplySavePatience,
     RecordCheckpointPatience, RecordBudgetPatience, PublishResultPatience, RecordOutcomePatience
     DEF GraphStep
<1>4. CASE UNCHANGED vars
  <2>1. \A p \in Procs : Left(p)' = Left(p)
    BY <1>4, LeftSame DEF vars
  <2>2. \A c \in Callers : Overtaken(c)' = Overtaken(c)
    BY <1>4 DEF vars, Overtaken, Snap, Stored, Run
  <2> QED
    BY <1>4, <2>1, <2>2 DEF vars, Patience, Patient, Ended, Stored, Run, Snap
<1> QED
  BY <1>0, <1>1, <1>2, <1>3, <1>4, RequestPatience, RestartPatience DEF Next

\* The three attempts of _cancel_run_locked always suffice: no caller of cancel_run gets
\* RUN_STATE_CONFLICT, whichever writers of the Run ignore the state lock meanwhile.
THEOREM RetriesSuffice == Spec => []CancelRetriesSuffice
<1>1. Init => Patience
  BY PatienceInitial
<1>2. (TInv /\ IInv /\ Course) /\ (TInv /\ IInv /\ Course)' /\ Patience /\ [Next]_vars => Patience'
  BY PatiencePreserved
<1>3. TInv /\ Patience => CancelRetriesSuffice
  <2> SUFFICES ASSUME Patience, NEW c \in Callers, pc[c] = "cancel_reload", job[c].tries = CancelTries,
                      ~Ended(Run(c))
               PROVE  FALSE
    BY DEF CancelRetriesSuffice, Ended
  <2>1. Overtaken(c) <= 2
    BY DEF Patience, Patient, Cancelling
  <2>2. Overtaken(c) = 3
    BY DEF Overtaken, One, CancelTries
  <2> QED
    BY <2>1, <2>2
<1> QED
  BY <1>1, <1>2, <1>3, CourseKept, PTL DEF Spec

=============================================================================
