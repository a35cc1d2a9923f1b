--------------------------- MODULE KnowledgeProofs ---------------------------
(***************************************************************************)
(* For any versions, documents, uploads, drawers, publications, rollbacks   *)
(* and crashes: one index is served and what the platform shows agrees with *)
(* it (ServedIsShown), the Agent can answer from it (Answerable), and no    *)
(* publication loses what another one put there (NothingLost).              *)
(***************************************************************************)
EXTENDS KnowledgeIndex, SequenceTheorems, TLAPS

-----------------------------------------------------------------------------
(* Changing and extending sequences of records.                             *)

\* An entry of a sequence is replaced.
LEMMA Replaced ==
    ASSUME NEW S, NEW s \in Seq(S), NEW i \in DOMAIN s, NEW e \in S
    PROVE  /\ [s EXCEPT ![i] = e] \in Seq(S)
           /\ DOMAIN [s EXCEPT ![i] = e] = DOMAIN s
BY ExceptSeq, LenProperties

\* An entry is added at the end.
LEMMA Extended ==
    ASSUME NEW S, NEW s \in Seq(S), NEW e \in S
    PROVE  /\ Append(s, e) \in Seq(S)
           /\ DOMAIN Append(s, e) = DOMAIN s \cup {Len(s) + 1}
           /\ Len(s) + 1 \in Nat /\ Len(s) + 1 \notin DOMAIN s
           /\ Append(s, e)[Len(s) + 1] = e
           /\ \A i \in DOMAIN s : Append(s, e)[i] = s[i]
<1>1. /\ Len(s) \in Nat /\ DOMAIN s = 1..Len(s)
      /\ Append(s, e) \in Seq(S) /\ Len(Append(s, e)) = Len(s) + 1
  BY LenProperties
<1>2. DOMAIN Append(s, e) = 1..(Len(s) + 1)
  BY <1>1, LenProperties
<1>3. \A i \in 1..(Len(s) + 1) : Append(s, e)[i] = IF i <= Len(s) THEN s[i] ELSE e
  BY <1>1
<1> QED BY <1>1, <1>2, <1>3

\* Every entry is rewritten.
LEMMA Rewritten ==
    ASSUME NEW S, NEW s \in Seq(S), NEW f, NEW T,
           f = [i \in DOMAIN s |-> f[i]], \A i \in DOMAIN s : f[i] \in T
    PROVE  f \in Seq(T) /\ DOMAIN f = DOMAIN s
<1>1. Len(s) \in Nat /\ DOMAIN s = 1..Len(s)
  BY LenProperties
<1>2. f \in [1..Len(s) -> T]
  BY <1>1
<1> QED BY <1>1, <1>2, SeqDef

\* The positions of a sequence are numbers.
LEMMA Positions ==
    ASSUME NEW S, NEW s \in Seq(S)
    PROVE  DOMAIN s \subseteq Nat /\ \A i \in DOMAIN s : s[i] \in S
BY LenProperties

-----------------------------------------------------------------------------
(* Documents and their processing.                                          *)

\* Only a version that was uploaded has attempts.
Unsent == \A v \in Versions : version[v] = "none" => attempts[v] = <<>>

\* A job that succeeded, or was seen to have, has left its chunks.
JobsStored ==
    /\ \A v \in Versions : \A k \in Attempts(v) : attempts[v][k].job = "SUCCEEDED" => v \in indexed
    /\ \A t \in Tabs : poll[t].step # "idle" /\ poll[t].seen = "SUCCEEDED"
                          => poll[t].version \in indexed

\* What every step of the processing does and leaves alone.
AttemptsKept ==
    /\ attempts' \in [Versions -> Seq(Attempt)]
    /\ \A v \in Versions : Attempts(v) \subseteq DOMAIN attempts'[v]
    /\ \A v \in Versions : version'[v] = "none" => attempts'[v] = <<>>
    /\ \A v \in Versions : \A k \in DOMAIN attempts'[v] :
          attempts'[v][k].job = "SUCCEEDED" => v \in indexed'
PollsKept ==
    /\ poll' \in [Tabs -> Question]
    /\ \A t \in Tabs : poll'[t].step # "idle" =>
          /\ poll'[t].version \in Versions /\ poll'[t].attempt \in Attempts(poll'[t].version)
          /\ poll'[t].step = "saved" => poll'[t].seen \in Terminal
          /\ poll'[t].seen = "SUCCEEDED" => poll'[t].version \in indexed'
VersionsKept ==
    /\ version' \in [Versions -> VersionStatus]
    /\ batch' \in [Versions -> {"none", "RUNNING", "PARTIAL_FAILED"} \cup Terminal]
    /\ indexed \subseteq indexed' /\ indexed' \subseteq Versions
    /\ \A v \in Versions : version'[v] \in {"READY", "PUBLISHED", "RETIRED"} =>
          version'[v] = version[v] \/ (version'[v] = "READY" /\ v \in indexed')
Ingested ==
    /\ UNCHANGED <<plan, releaseVars>> /\ faults' \in Nat
    /\ AttemptsKept /\ PollsKept /\ VersionsKept

\* One attempt changes.
LEMMA OneAttempt ==
    ASSUME TypeOK, NEW v \in Versions, NEW k \in Attempts(v), NEW a \in Attempt,
           attempts' = [attempts EXCEPT ![v] = [attempts[v] EXCEPT ![k] = a]]
    PROVE  /\ attempts' \in [Versions -> Seq(Attempt)]
           /\ \A u \in Versions : DOMAIN attempts'[u] = Attempts(u)
           /\ \A u \in Versions : \A j \in Attempts(u) :
                 attempts'[u][j] = IF u = v /\ j = k THEN a ELSE attempts[u][j]
           /\ Attempts(v) # {} /\ attempts[v] # <<>>
<1>1. attempts \in [Versions -> Seq(Attempt)] /\ attempts[v] \in Seq(Attempt)
  BY DEF TypeOK
<1>2. /\ [attempts[v] EXCEPT ![k] = a] \in Seq(Attempt)
      /\ DOMAIN [attempts[v] EXCEPT ![k] = a] = Attempts(v)
  BY <1>1, Replaced DEF Attempts
<1>3. attempts[v] # <<>>
  BY <1>1, LenProperties DEF Attempts
<1> QED BY <1>1, <1>2, <1>3 DEF Attempts

\* An attempt that exists belongs to a version that was uploaded.
LEMMA Sent ==
    ASSUME TypeOK, Unsent, NEW v \in Versions, NEW k \in Attempts(v)
    PROVE  version[v] # "none" /\ attempts[v][k] \in Attempt
<1>1. attempts[v] \in Seq(Attempt) /\ k \in DOMAIN attempts[v]
  BY DEF TypeOK, Attempts
<1>2. attempts[v][k] \in Attempt
  BY <1>1
<1>3. attempts[v] # <<>>
  BY <1>1
<1> QED BY <1>2, <1>3 DEF Unsent

\* Changing one attempt without its job succeeding keeps them in order.
LEMMA OneAttemptKept ==
    ASSUME TypeOK, Unsent, JobsStored, NEW v \in Versions, NEW k \in Attempts(v),
           NEW a \in Attempt, a.job = attempts[v][k].job \/ a.job # "SUCCEEDED" \/ v \in indexed',
           attempts' = [attempts EXCEPT ![v] = [attempts[v] EXCEPT ![k] = a]],
           \A u \in Versions : version'[u] = "none" => version[u] = "none",
           indexed \subseteq indexed'
    PROVE  AttemptsKept
<1>1. /\ attempts' \in [Versions -> Seq(Attempt)]
      /\ \A u \in Versions : DOMAIN attempts'[u] = Attempts(u)
      /\ \A u \in Versions : \A j \in Attempts(u) :
            attempts'[u][j] = IF u = v /\ j = k THEN a ELSE attempts[u][j]
  <2> DEFINE row == [attempts[v] EXCEPT ![k] = a]
  <2>1. attempts \in [Versions -> Seq(Attempt)] /\ attempts[v] \in Seq(Attempt)
    BY DEF TypeOK
  <2>2. row \in Seq(Attempt) /\ DOMAIN row = Attempts(v)
    BY <2>1, Replaced DEF Attempts
  <2>3. \A j \in Attempts(v) : row[j] = IF j = k THEN a ELSE attempts[v][j]
    BY DEF Attempts
  <2>4. attempts' = [attempts EXCEPT ![v] = row]
    OBVIOUS
  <2> HIDE DEF row
  <2>5. attempts' \in [Versions -> Seq(Attempt)] /\ attempts'[v] = row
        /\ \A u \in Versions : u # v => attempts'[u] = attempts[u]
    BY <2>1, <2>2, <2>4
  <2> QED BY <2>2, <2>3, <2>5 DEF Attempts
<1>2. \A u \in Versions : version'[u] = "none" => attempts'[u] = <<>>
  <2> SUFFICES ASSUME NEW u \in Versions, version'[u] = "none" PROVE attempts'[u] = <<>>
    OBVIOUS
  <2>1. attempts[u] = <<>> /\ u # v
    BY Sent DEF Unsent
  <2> QED BY <2>1 DEF TypeOK
<1>3. \A u \in Versions : \A j \in Attempts(u) :
         attempts'[u][j].job = "SUCCEEDED" => u \in indexed'
  <2> TAKE u \in Versions
  <2> TAKE j \in Attempts(u)
  <2>1. attempts'[u][j] = IF u = v /\ j = k THEN a ELSE attempts[u][j]
    BY <1>1
  <2>2. attempts[u][j].job = "SUCCEEDED" => u \in indexed'
    BY DEF JobsStored
  <2> QED BY <2>1, <2>2
<1> QED BY <1>1, <1>2, <1>3 DEF AttemptsKept

\* Polls keep to themselves while the attempts only grow in number.
LEMMA PollsUnchanged ==
    ASSUME TypeOK, JobsStored, UNCHANGED <<plan, poll>>, indexed \subseteq indexed'
    PROVE  PollsKept
BY DEF TypeOK, JobsStored, PollsKept, Tabs

LEMMA VersionsUnchanged ==
    ASSUME TypeOK, UNCHANGED <<version, batch>>, indexed \subseteq indexed', indexed' \subseteq Versions
    PROVE  VersionsKept
BY DEF TypeOK, VersionsKept

\* A batch is what its items say.
LEMMA SummaryStatus ==
    ASSUME NEW s
    PROVE  Summary(s) \in {"none", "RUNNING", "PARTIAL_FAILED"} \cup Terminal
BY DEF Summary, Terminal

LEMMA UploadIngests ==
    ASSUME TypeOK, Unsent, JobsStored, NEW v \in Versions, Upload(v)
    PROVE  Ingested
<1>1. Fresh \in Attempt /\ Fresh.job = "none"
  BY DEF Fresh, Attempt, TaskStatus, Terminal
<1>2. <<Fresh>> \in Seq(Attempt) /\ DOMAIN <<Fresh>> = {1} /\ <<Fresh>>[1] = Fresh
  BY <1>1
<1>3. attempts[v] = <<>> /\ Attempts(v) = {}
  BY DEF Upload, Unsent, Attempts
<1>4. /\ attempts' = [attempts EXCEPT ![v] = <<Fresh>>]
      /\ attempts \in [Versions -> Seq(Attempt)]
  BY DEF Upload, TypeOK
<1>5. /\ version' = [version EXCEPT ![v] = "PROCESSING"] /\ version \in [Versions -> VersionStatus]
      /\ batch' = [batch EXCEPT ![v] = "RUNNING"] /\ UNCHANGED <<plan, poll, indexed, releaseVars, faults>>
  BY DEF Upload, TypeOK
<1>6. AttemptsKept
  <2>1. attempts' \in [Versions -> Seq(Attempt)]
    BY <1>2, <1>4
  <2>2. \A u \in Versions : Attempts(u) \subseteq DOMAIN attempts'[u]
    BY <1>3, <1>4 DEF Attempts
  <2>3. \A u \in Versions : version'[u] = "none" => attempts'[u] = <<>>
    BY <1>4, <1>5 DEF Unsent
  <2>4. \A u \in Versions : \A k \in DOMAIN attempts'[u] :
           attempts'[u][k].job = "SUCCEEDED" => u \in indexed'
    <3> SUFFICES ASSUME NEW u \in Versions, NEW k \in DOMAIN attempts'[u],
                        attempts'[u][k].job = "SUCCEEDED"
                 PROVE  u \in indexed'
      OBVIOUS
    <3>1. CASE u = v
      BY <3>1, <1>1, <1>2, <1>4
    <3>2. CASE u # v
      BY <3>2, <1>4, <1>5 DEF JobsStored, Attempts
    <3> QED BY <3>1, <3>2
  <2> QED BY <2>1, <2>2, <2>3, <2>4 DEF AttemptsKept
<1>7. PollsKept
  BY <1>5, PollsUnchanged
<1>8. VersionsKept
  BY <1>5 DEF VersionsKept, TypeOK, VersionStatus
<1> QED BY <1>5, <1>6, <1>7, <1>8 DEF Ingested, TypeOK

LEMMA RetryIngests ==
    ASSUME TypeOK, Unsent, JobsStored, NEW v \in Versions, Retry(v)
    PROVE  Ingested
<1>1. Fresh \in Attempt /\ Fresh.job = "none"
  BY DEF Fresh, Attempt, TaskStatus, Terminal
<1>2. PICK k \in Attempts(v) : TRUE
  BY DEF Retry
<1>3. attempts \in [Versions -> Seq(Attempt)] /\ attempts[v] \in Seq(Attempt) /\ version[v] # "none"
  BY <1>2, Sent DEF TypeOK
<1>4. /\ attempts' = [attempts EXCEPT ![v] = Append(attempts[v], Fresh)]
      /\ UNCHANGED <<plan, version, batch, poll, indexed, releaseVars, faults>>
  BY DEF Retry
<1>5. /\ Append(attempts[v], Fresh) \in Seq(Attempt)
      /\ DOMAIN Append(attempts[v], Fresh) = Attempts(v) \cup {Len(attempts[v]) + 1}
      /\ Append(attempts[v], Fresh)[Len(attempts[v]) + 1] = Fresh
      /\ \A i \in Attempts(v) : Append(attempts[v], Fresh)[i] = attempts[v][i]
  BY <1>1, <1>3, Extended DEF Attempts
<1>6. AttemptsKept
  <2>1. attempts' \in [Versions -> Seq(Attempt)]
    BY <1>3, <1>4, <1>5
  <2>2. \A u \in Versions : Attempts(u) \subseteq DOMAIN attempts'[u]
    BY <1>3, <1>4, <1>5 DEF Attempts
  <2>3. \A u \in Versions : version'[u] = "none" => attempts'[u] = <<>>
    BY <1>3, <1>4 DEF Unsent
  <2>4. \A u \in Versions : \A j \in DOMAIN attempts'[u] :
           attempts'[u][j].job = "SUCCEEDED" => u \in indexed'
    <3> SUFFICES ASSUME NEW u \in Versions, NEW j \in DOMAIN attempts'[u],
                        attempts'[u][j].job = "SUCCEEDED"
                 PROVE  u \in indexed'
      OBVIOUS
    <3>1. CASE u = v
      <4>1. attempts'[u] = Append(attempts[v], Fresh)
        BY <3>1, <1>3, <1>4
      <4> QED BY <4>1, <3>1, <1>1, <1>4, <1>5 DEF JobsStored
    <3>2. CASE u # v
      BY <3>2, <1>3, <1>4 DEF JobsStored, Attempts
    <3> QED BY <3>1, <3>2
  <2> QED BY <2>1, <2>2, <2>3, <2>4 DEF AttemptsKept
<1>7. PollsKept /\ VersionsKept
  BY <1>4, PollsUnchanged, VersionsUnchanged DEF TypeOK
<1> QED BY <1>4, <1>6, <1>7 DEF Ingested, TypeOK

LEMMA NoReadUrlIngests ==
    ASSUME TypeOK, Unsent, JobsStored, NEW v \in Versions, NEW k \in Attempts(v), NoReadUrl(v, k)
    PROVE  Ingested
<1>1. attempts[v][k] \in Attempt /\ version[v] # "none" /\ attempts \in [Versions -> Seq(Attempt)]
  BY Sent DEF TypeOK
<1>2. PICK item \in {attempts[v][k].item, "FAILED"}, submit \in {"done", "unsent"} :
         attempts' = [attempts EXCEPT ![v][k].item = item, ![v][k].submit = submit]
  <2>1. CASE attempts' = [attempts EXCEPT ![v][k].submit = "done"]
    <3>1. attempts' = [attempts EXCEPT ![v][k].item = attempts[v][k].item, ![v][k].submit = "done"]
      BY <1>1, <2>1 DEF Attempt
    <3> QED BY <3>1
  <2>2. CASE attempts' = [attempts EXCEPT ![v][k].item = "FAILED", ![v][k].submit = "unsent"]
    BY <2>2
  <2> QED BY <2>1, <2>2 DEF NoReadUrl
<1> DEFINE a == [attempts[v][k] EXCEPT !.item = item, !.submit = submit]
<1>3. a \in Attempt /\ (a.job = attempts[v][k].job \/ a.job # "SUCCEEDED" \/ v \in indexed')
  BY <1>1, <1>2 DEF Attempt, TaskStatus, Terminal
<1>4. attempts' = [attempts EXCEPT ![v] = [attempts[v] EXCEPT ![k] = a]]
  BY <1>1, <1>2
<1>5. UNCHANGED <<plan, poll, releaseVars, faults>> /\ indexed \subseteq indexed' /\ indexed' \subseteq Versions
  BY DEF NoReadUrl, TypeOK
<1>6. VersionsKept /\ \A u \in Versions : version'[u] = "none" => version[u] = "none"
  BY <1>5, VersionsUnchanged DEF NoReadUrl
<1> HIDE DEF a
<1>7. AttemptsKept
  BY <1>3, <1>4, <1>5, <1>6, OneAttemptKept
<1> QED BY <1>5, <1>6, <1>7, PollsUnchanged DEF Ingested, TypeOK

LEMMA AcceptIngests ==
    ASSUME TypeOK, Unsent, JobsStored, NEW v \in Versions, NEW k \in Attempts(v), Accept(v, k)
    PROVE  Ingested
<1> DEFINE a == [attempts[v][k] EXCEPT !.submit = "accepted", !.job = "RUNNING"]
<1>1. attempts[v][k] \in Attempt /\ version[v] # "none" /\ attempts \in [Versions -> Seq(Attempt)]
  BY Sent DEF TypeOK
<1>2. a \in Attempt /\ (a.job = attempts[v][k].job \/ a.job # "SUCCEEDED" \/ v \in indexed')
  BY <1>1 DEF Accept, Attempt, TaskStatus, Terminal
<1>3. attempts' = [attempts EXCEPT ![v] = [attempts[v] EXCEPT ![k] = a]]
  BY <1>1 DEF Accept
<1>4. UNCHANGED <<plan, poll, releaseVars, faults>> /\ indexed \subseteq indexed' /\ indexed' \subseteq Versions
  BY DEF Accept, TypeOK
<1>5. VersionsKept /\ \A u \in Versions : version'[u] = "none" => version[u] = "none"
  BY <1>4, VersionsUnchanged DEF Accept
<1> HIDE DEF a
<1>6. AttemptsKept
  BY <1>2, <1>3, <1>4, <1>5, OneAttemptKept
<1> QED BY <1>4, <1>5, <1>6, PollsUnchanged DEF Ingested, TypeOK

LEMMA SaveReplyIngests ==
    ASSUME TypeOK, Unsent, JobsStored, NEW v \in Versions, NEW k \in Attempts(v), SaveReply(v, k)
    PROVE  Ingested
<1> DEFINE a == [attempts[v][k] EXCEPT !.task = "RUNNING", !.asked = TRUE, !.item = "PROCESSING",
                 !.submit = IF k = 1 THEN "finish" ELSE "done"]
<1>1. attempts[v][k] \in Attempt /\ version[v] # "none" /\ attempts \in [Versions -> Seq(Attempt)]
  BY Sent DEF TypeOK
<1>2. a \in Attempt /\ (a.job = attempts[v][k].job \/ a.job # "SUCCEEDED" \/ v \in indexed')
  BY <1>1 DEF SaveReply, Attempt, TaskStatus, Terminal
<1>3. attempts' = [attempts EXCEPT ![v] = [attempts[v] EXCEPT ![k] = a]]
  BY <1>1, ZenonT(40) DEF SaveReply
<1>4. UNCHANGED <<plan, poll, releaseVars, faults>> /\ indexed \subseteq indexed' /\ indexed' \subseteq Versions
  BY DEF SaveReply, TypeOK
<1>5. VersionsKept /\ \A u \in Versions : version'[u] = "none" => version[u] = "none"
  BY <1>4, VersionsUnchanged DEF SaveReply
<1> HIDE DEF a
<1>6. AttemptsKept
  BY <1>2, <1>3, <1>4, <1>5, OneAttemptKept
<1> QED BY <1>4, <1>5, <1>6, PollsUnchanged DEF Ingested, TypeOK

LEMMA SubmitFailedIngests ==
    ASSUME TypeOK, Unsent, JobsStored, NEW v \in Versions, NEW k \in Attempts(v), SubmitFailed(v, k)
    PROVE  Ingested
<1> DEFINE a == [attempts[v][k] EXCEPT !.task = "FAILED", !.item = "FAILED", !.submit = "failing"]
<1>1. attempts[v][k] \in Attempt /\ version[v] # "none" /\ attempts \in [Versions -> Seq(Attempt)]
  BY Sent DEF TypeOK
<1>2. a \in Attempt /\ (a.job = attempts[v][k].job \/ a.job # "SUCCEEDED" \/ v \in indexed')
  BY <1>1 DEF SubmitFailed, Attempt, TaskStatus, Terminal
<1>3. attempts' = [attempts EXCEPT ![v] = [attempts[v] EXCEPT ![k] = a]]
  BY <1>1 DEF SubmitFailed
<1>4. UNCHANGED <<plan, poll, releaseVars, faults>> /\ indexed \subseteq indexed' /\ indexed' \subseteq Versions
  BY DEF SubmitFailed, TypeOK
<1>5. VersionsKept /\ \A u \in Versions : version'[u] = "none" => version[u] = "none"
  BY <1>4, VersionsUnchanged DEF SubmitFailed
<1> HIDE DEF a
<1>6. AttemptsKept
  BY <1>2, <1>3, <1>4, <1>5, OneAttemptKept
<1> QED BY <1>4, <1>5, <1>6, PollsUnchanged DEF Ingested, TypeOK

LEMMA FailVersionIngests ==
    ASSUME TypeOK, Unsent, JobsStored, NEW v \in Versions, NEW k \in Attempts(v), FailVersion(v, k)
    PROVE  Ingested
<1> DEFINE a == [attempts[v][k] EXCEPT !.submit = IF k = 1 THEN "failed" ELSE "done"]
<1>1. attempts[v][k] \in Attempt /\ version[v] # "none" /\ attempts \in [Versions -> Seq(Attempt)]
  BY Sent DEF TypeOK
<1>2. a \in Attempt /\ (a.job = attempts[v][k].job \/ a.job # "SUCCEEDED" \/ v \in indexed')
  BY <1>1 DEF FailVersion, Attempt, TaskStatus, Terminal
<1>3. attempts' = [attempts EXCEPT ![v] = [attempts[v] EXCEPT ![k] = a]]
  BY <1>1 DEF FailVersion
<1>4. UNCHANGED <<plan, poll, releaseVars, faults>> /\ indexed \subseteq indexed' /\ indexed' \subseteq Versions
  BY DEF FailVersion, TypeOK
<1>5. VersionsKept /\ \A u \in Versions : version'[u] = "none" => version[u] = "none"
  BY <1>1, <1>4, SummaryStatus DEF FailVersion, VersionsKept, TypeOK, VersionStatus
<1> HIDE DEF a
<1>6. AttemptsKept
  BY <1>2, <1>3, <1>4, <1>5, OneAttemptKept
<1> QED BY <1>4, <1>5, <1>6, PollsUnchanged DEF Ingested, TypeOK

LEMMA FinishBatchIngests ==
    ASSUME TypeOK, Unsent, JobsStored, NEW v \in Versions, NEW k \in Attempts(v), FinishBatch(v, k)
    PROVE  Ingested
<1> DEFINE a == [attempts[v][k] EXCEPT !.submit = "done"]
<1>1. attempts[v][k] \in Attempt /\ version[v] # "none" /\ attempts \in [Versions -> Seq(Attempt)]
  BY Sent DEF TypeOK
<1>2. a \in Attempt /\ (a.job = attempts[v][k].job \/ a.job # "SUCCEEDED" \/ v \in indexed')
  BY <1>1 DEF FinishBatch, Attempt, TaskStatus, Terminal
<1>3. attempts' = [attempts EXCEPT ![v] = [attempts[v] EXCEPT ![k] = a]]
  BY <1>1 DEF FinishBatch
<1>4. UNCHANGED <<plan, poll, releaseVars, faults>> /\ indexed \subseteq indexed' /\ indexed' \subseteq Versions
  BY DEF FinishBatch, TypeOK
<1>5. VersionsKept /\ \A u \in Versions : version'[u] = "none" => version[u] = "none"
  BY <1>1, <1>4 DEF FinishBatch, VersionsKept, TypeOK, Terminal
<1> HIDE DEF a
<1>6. AttemptsKept
  BY <1>2, <1>3, <1>4, <1>5, OneAttemptKept
<1> QED BY <1>4, <1>5, <1>6, PollsUnchanged DEF Ingested, TypeOK

LEMMA JobDoneIngests ==
    ASSUME TypeOK, Unsent, JobsStored, NEW v \in Versions, NEW k \in Attempts(v), JobDone(v, k)
    PROVE  Ingested
<1> DEFINE a == [attempts[v][k] EXCEPT !.job = "SUCCEEDED"]
<1>1. attempts[v][k] \in Attempt /\ version[v] # "none" /\ attempts \in [Versions -> Seq(Attempt)]
  BY Sent DEF TypeOK
<1>2. a \in Attempt /\ (a.job = attempts[v][k].job \/ a.job # "SUCCEEDED" \/ v \in indexed')
  BY <1>1 DEF JobDone, Attempt, TaskStatus, Terminal
<1>3. attempts' = [attempts EXCEPT ![v] = [attempts[v] EXCEPT ![k] = a]]
  BY <1>1 DEF JobDone
<1>4. UNCHANGED <<plan, poll, releaseVars, faults>> /\ indexed \subseteq indexed' /\ indexed' \subseteq Versions
  BY DEF JobDone, TypeOK
<1>5. VersionsKept /\ \A u \in Versions : version'[u] = "none" => version[u] = "none"
  BY <1>4, VersionsUnchanged DEF JobDone
<1> HIDE DEF a
<1>6. AttemptsKept
  BY <1>2, <1>3, <1>4, <1>5, OneAttemptKept
<1> QED BY <1>4, <1>5, <1>6, PollsUnchanged DEF Ingested, TypeOK

LEMMA JobFailedIngests ==
    ASSUME TypeOK, Unsent, JobsStored, NEW v \in Versions, NEW k \in Attempts(v), JobFailed(v, k)
    PROVE  Ingested
<1> DEFINE a == [attempts[v][k] EXCEPT !.job = "FAILED"]
<1>1. attempts[v][k] \in Attempt /\ version[v] # "none" /\ attempts \in [Versions -> Seq(Attempt)]
  BY Sent DEF TypeOK
<1>2. a \in Attempt /\ (a.job = attempts[v][k].job \/ a.job # "SUCCEEDED" \/ v \in indexed')
  BY <1>1 DEF JobFailed, Attempt, TaskStatus, Terminal
<1>3. attempts' = [attempts EXCEPT ![v] = [attempts[v] EXCEPT ![k] = a]]
  BY <1>1 DEF JobFailed
<1>4. UNCHANGED <<plan, poll, releaseVars, faults>> /\ indexed \subseteq indexed' /\ indexed' \subseteq Versions
  BY DEF JobFailed, TypeOK
<1>5. VersionsKept /\ \A u \in Versions : version'[u] = "none" => version[u] = "none"
  BY <1>4, VersionsUnchanged DEF JobFailed
<1> HIDE DEF a
<1>6. AttemptsKept
  BY <1>2, <1>3, <1>4, <1>5, OneAttemptKept
<1> QED BY <1>4, <1>5, <1>6, PollsUnchanged DEF Ingested, TypeOK

LEMMA PollAskIngests ==
    ASSUME TypeOK, Unsent, JobsStored, NEW v \in Versions, NEW k \in Attempts(v),
           NEW t \in Tabs, PollAsk(t, v, k)
    PROVE  Ingested
<1> DEFINE q == [step |-> "answered", version |-> v, attempt |-> k, seen |-> attempts[v][k].job]
<1>1. attempts[v][k] \in Attempt /\ k \in Nat /\ attempts[v] \in Seq(Attempt)
  <2>1. attempts[v] \in Seq(Attempt)
    BY DEF TypeOK
  <2> QED BY <2>1, Positions DEF Attempts
<1>2. q \in Question
  BY <1>1 DEF PollAsk, Question, Attempt, TaskStatus, Terminal
<1>3. /\ poll' = [poll EXCEPT ![t] = q]
      /\ UNCHANGED <<plan, version, attempts, batch, indexed, releaseVars, faults>>
  BY DEF PollAsk
<1>4. PollsKept
  BY <1>2, <1>3 DEF TypeOK, JobsStored, PollsKept, Tabs
<1>5. AttemptsKept
  BY <1>3 DEF TypeOK, Unsent, JobsStored, AttemptsKept, Attempts
<1> HIDE DEF q
<1> QED BY <1>3, <1>4, <1>5, VersionsUnchanged DEF Ingested, TypeOK

LEMMA PollSaveIngests ==
    ASSUME TypeOK, Unsent, JobsStored, NEW t \in Tabs, PollSave(t)
    PROVE  Ingested
<1> DEFINE v == poll[t].version
           k == poll[t].attempt
           a == [attempts[v][k] EXCEPT !.task = poll[t].seen]
<1>1. v \in Versions /\ k \in Attempts(v) /\ poll[t] \in Question
  BY DEF PollSave, TypeOK
<1>2. attempts[v][k] \in Attempt
  BY <1>1, Sent
<1>3. a \in Attempt /\ a.job = attempts[v][k].job
  BY <1>1, <1>2 DEF Attempt, Question
<1>4. /\ attempts' = [attempts EXCEPT ![v] = [attempts[v] EXCEPT ![k] = a]]
      /\ poll' = [poll EXCEPT ![t] = IF @.seen \in Terminal THEN [@ EXCEPT !.step = "saved"] ELSE Idle]
      /\ UNCHANGED <<plan, version, batch, indexed, releaseVars, faults>>
  BY <1>1 DEF PollSave, TypeOK
<1> HIDE DEF a
<1>5. AttemptsKept
  BY <1>1, <1>3, <1>4, OneAttemptKept DEF TypeOK
<1>6. PollsKept
  <2>1. Idle \in Question /\ Idle.step = "idle"
    BY DEF Idle, Question, TaskStatus
  <2>2. [poll[t] EXCEPT !.step = "saved"] \in Question
    BY <1>1 DEF Question
  <2> DEFINE x == IF poll[t].seen \in Terminal THEN [poll[t] EXCEPT !.step = "saved"] ELSE Idle
  <2>3. /\ x \in Question
        /\ x.step # "idle" => /\ x.version = poll[t].version /\ x.attempt = poll[t].attempt
                              /\ x.seen = poll[t].seen /\ x.seen \in Terminal
    BY <1>1, <2>1, <2>2 DEF Question
  <2>4. poll \in [Tabs -> Question] /\ poll' = [poll EXCEPT ![t] = x]
    BY <1>4 DEF TypeOK
  <2> HIDE DEF x
  <2>5. \A o \in Tabs : poll'[o] = IF o = t THEN x ELSE poll[o]
    BY <2>4
  <2>6. poll' \in [Tabs' -> Question] /\ indexed' = indexed /\ Tabs' = Tabs
    BY <1>4, <2>3, <2>4 DEF Tabs
  <2>7. ASSUME NEW o \in Tabs, poll'[o].step # "idle"
        PROVE  /\ poll'[o].version \in Versions /\ poll'[o].attempt \in Attempts(poll'[o].version)
               /\ poll'[o].step = "saved" => poll'[o].seen \in Terminal
               /\ poll'[o].seen = "SUCCEEDED" => poll'[o].version \in indexed'
    <3>1. CASE o = t
      <4>1. poll[t].step # "idle"
        BY DEF PollSave
      <4> QED BY <3>1, <4>1, <1>1, <2>3, <2>5, <2>6, <2>7 DEF JobsStored
    <3>2. CASE o # t
      <4>1. poll'[o] = poll[o]
        BY <3>2, <2>5
      <4> QED BY <4>1, <2>6, <2>7 DEF JobsStored, TypeOK
    <3> QED BY <3>1, <3>2
  <2> QED BY <2>6, <2>7 DEF PollsKept
<1> QED BY <1>4, <1>5, <1>6, VersionsUnchanged DEF Ingested, TypeOK

LEMMA PollProjectIngests ==
    ASSUME TypeOK, Unsent, JobsStored, NEW t \in Tabs, PollProject(t)
    PROVE  Ingested
<1> DEFINE v == poll[t].version
           k == Len(attempts[v])
           a == [attempts[v][k] EXCEPT !.item = poll[t].seen]
           s == [attempts[v] EXCEPT ![Len(attempts[v])].item = poll[t].seen]
<1>1. /\ v \in Versions /\ poll[t].attempt \in Attempts(v) /\ poll[t] \in Question
      /\ poll[t].seen \in Terminal /\ (poll[t].seen = "SUCCEEDED" => v \in indexed)
  BY DEF PollProject, TypeOK, JobsStored
<1>2. attempts \in [Versions -> Seq(Attempt)] /\ attempts[v] \in Seq(Attempt)
  BY <1>1 DEF TypeOK
<1>3. k \in Attempts(v)
  BY <1>1, <1>2, LenProperties DEF Attempts
<1>4. attempts[v][k] \in Attempt /\ version[v] # "none"
  BY <1>1, <1>3, Sent
<1>5. a \in Attempt /\ a.job = attempts[v][k].job
  BY <1>1, <1>4 DEF Attempt
<1>6. /\ attempts' = [attempts EXCEPT ![v] = [attempts[v] EXCEPT ![k] = a]]
      /\ version' = [version EXCEPT ![v] = Outcome(poll[t].seen)]
      /\ batch' = [batch EXCEPT ![v] = Summary(s)]
      /\ poll' = [poll EXCEPT ![t] = Idle]
      /\ UNCHANGED <<plan, indexed, releaseVars, faults>>
  BY DEF PollProject
<1>7. VersionsKept /\ \A u \in Versions : version'[u] = "none" => version[u] = "none"
  <2>1. Outcome(poll[t].seen) \in {"READY", "FAILED"}
        /\ (Outcome(poll[t].seen) = "READY" => v \in indexed)
    BY <1>1 DEF Outcome
  <2> HIDE DEF s
  <2> QED BY <1>1, <1>4, <1>6, <2>1, SummaryStatus DEF VersionsKept, TypeOK, VersionStatus
<1> HIDE DEF a, k, s
<1>8. AttemptsKept
  BY <1>1, <1>3, <1>5, <1>6, <1>7, OneAttemptKept
<1>9. PollsKept
  BY <1>6 DEF TypeOK, JobsStored, PollsKept, Tabs, Idle, Question, TaskStatus
<1> QED BY <1>6, <1>7, <1>8, <1>9 DEF Ingested, TypeOK

LEMMA AgentRestartIngests ==
    ASSUME KnowledgeAssumption, TypeOK, Unsent, JobsStored, AgentRestart
    PROVE  Ingested
<1> DEFINE f(v) == [k \in Attempts(v) |-> [attempts[v][k] EXCEPT !.job = "none"]]
<1>1. /\ attempts' = [v \in Versions |-> f(v)] /\ faults' = faults + 1
      /\ UNCHANGED <<plan, version, batch, poll, indexed, releaseVars>>
  BY DEF AgentRestart
<1>2. ASSUME NEW v \in Versions
      PROVE  /\ f(v) \in Seq(Attempt) /\ DOMAIN f(v) = Attempts(v)
             /\ \A k \in Attempts(v) : f(v)[k].job = "none"
             /\ attempts[v] = <<>> => f(v) = <<>>
  <2>1. attempts[v] \in Seq(Attempt)
    BY DEF TypeOK
  <2>2. \A k \in Attempts(v) : attempts[v][k] \in Attempt
    BY <2>1, Positions DEF Attempts
  <2>3. \A k \in Attempts(v) : f(v)[k] \in Attempt /\ f(v)[k].job = "none"
    BY <2>2 DEF Attempt
  <2>4. f(v) \in Seq(Attempt) /\ DOMAIN f(v) = Attempts(v)
    <3>1. f(v) = [i \in DOMAIN attempts[v] |-> f(v)[i]]
      BY DEF Attempts
    <3>2. \A i \in DOMAIN attempts[v] : f(v)[i] \in Attempt
      BY <2>3 DEF Attempts
    <3> HIDE DEF f
    <3> QED BY <2>1, <3>1, <3>2, Rewritten DEF Attempts
  <2>5. ASSUME attempts[v] = <<>> PROVE f(v) = <<>>
    <3>1. DOMAIN attempts[v] = {} /\ DOMAIN f(v) = {}
      BY <2>4, <2>5 DEF Attempts
    <3> HIDE DEF f
    <3> QED BY <2>4, <3>1, EmptySeq, LenProperties
  <2> QED BY <2>3, <2>4, <2>5
<1> HIDE DEF f
<1>3. AttemptsKept
  <2>1. \A v \in Versions : attempts'[v] = f(v)
    BY <1>1
  <2>2. attempts' \in [Versions -> Seq(Attempt)]
    BY <1>1, <1>2
  <2>3. \A v \in Versions : Attempts(v) \subseteq DOMAIN attempts'[v]
    BY <1>2, <2>1
  <2>4. \A v \in Versions : version'[v] = "none" => attempts'[v] = <<>>
    BY <1>1, <1>2, <2>1 DEF Unsent
  <2>5. \A v \in Versions : \A k \in DOMAIN attempts'[v] : attempts'[v][k].job # "SUCCEEDED"
    BY <1>2, <2>1
  <2> QED BY <2>2, <2>3, <2>4, <2>5 DEF AttemptsKept
<1> QED BY <1>1, <1>3, PollsUnchanged, VersionsUnchanged DEF Ingested, TypeOK

-----------------------------------------------------------------------------
(* Releases.                                                                *)

\* A release was built from an earlier one, with one document replaced.
Replaces(members, old) == \E v \in members : members = {m \in old : DocOf[m] # DocOf[v]} \cup {v}
OnePerDocument(members) == \A v, w \in members : DocOf[v] = DocOf[w] => v = w
Formed ==
    \A r \in DOMAIN release :
        /\ release[r].base \in DOMAIN release \cup {None}
        /\ Replaces(release[r].members, Members(release[r].base))
        /\ OnePerDocument(release[r].members)

\* A release that was verified, whatever became of it since.
Past(r) == r \in held /\ release[r].step \notin {"verify", "verified"}

\* A release gets past its verification only with its members at the Agent.
Verified ==
    /\ \A r \in DOMAIN release :
          /\ release[r].step \in {"verify", "verified"} => release[r].status = "BUILDING"
          /\ release[r].step \in {"verified", "activate"} => r \in held
    /\ \A r \in held : release[r].members \subseteq indexed
    /\ \A u \in DOMAIN rollback : Past(rollback[u].target)

\* The inductive invariant.
IndexInv == TypeOK /\ Unsent /\ JobsStored /\ Formed /\ Verified /\ ServedIsShown /\ Answerable

\* What a release holds and was built from never changes.
ReleasesKept ==
    /\ release' \in Seq(Release)
    /\ DOMAIN release' = DOMAIN release
    /\ \A q \in DOMAIN release :
          release'[q].members = release[q].members /\ release'[q].base = release[q].base

LEMMA FormKept ==
    ASSUME KnowledgeAssumption, TypeOK, Formed, ReleasesKept
    PROVE  /\ Formed'
           /\ \A x \in DOMAIN release \cup {None} : Members(x)' = Members(x)
<1>1. DOMAIN release \subseteq Nat
  BY Positions DEF TypeOK
<1>2. \A x \in DOMAIN release \cup {None} : Members(x)' = Members(x)
  BY <1>1 DEF ReleasesKept, Members, KnowledgeAssumption
<1> QED BY <1>2 DEF Formed, ReleasesKept

\* One release changes, but not what it holds.
LEMMA OneRelease ==
    ASSUME TypeOK, NEW r \in DOMAIN release, NEW e \in Release,
           e.members = release[r].members, e.base = release[r].base,
           release' = [release EXCEPT ![r] = e]
    PROVE  /\ ReleasesKept
           /\ \A q \in DOMAIN release : release'[q] = IF q = r THEN e ELSE release[q]
<1>1. release \in Seq(Release)
  BY DEF TypeOK
<1>2. release' \in Seq(Release) /\ DOMAIN release' = DOMAIN release
  BY <1>1, Replaced
<1> QED BY <1>1, <1>2 DEF ReleasesKept

LEMMA ReleaseType ==
    ASSUME TypeOK
    PROVE  /\ \A r \in DOMAIN release : release[r] \in Release /\ r \in Nat
           /\ \A u \in DOMAIN rollback : rollback[u] \in Rollback
BY Positions DEF TypeOK

\* The parts of the type invariant, put together.
LEMMA TypesKept ==
    ASSUME TypeOK, plan' = plan, faults' \in Nat, AttemptsKept, PollsKept,
           version' \in [Versions -> VersionStatus],
           batch' \in [Versions -> {"none", "RUNNING", "PARTIAL_FAILED"} \cup Terminal],
           indexed' \subseteq Versions, held' \subseteq DOMAIN release',
           release' \in Seq(Release), rollback' \in Seq(Rollback),
           current' \in DOMAIN release' \cup {None}, pointer' \in [Docs -> Versions \cup {None}]
    PROVE  TypeOK' /\ Unsent' /\ JobsStored'
<1>1. Tabs' = Tabs
  BY DEF Tabs
<1>2. \A t \in Tabs : poll'[t].step # "idle" =>
         /\ poll'[t].version \in Versions /\ poll'[t].attempt \in DOMAIN attempts'[poll'[t].version]
         /\ poll'[t].step = "saved" => poll'[t].seen \in Terminal
  BY DEF PollsKept, AttemptsKept, Attempts
<1>3. TypeOK'
  BY <1>1, <1>2 DEF TypeOK, AttemptsKept, PollsKept, Attempts
<1> QED BY <1>1, <1>3 DEF Unsent, JobsStored, AttemptsKept, PollsKept, Attempts

\* A step that leaves the processing alone.
LEMMA ProcessingKept ==
    ASSUME TypeOK, Unsent, JobsStored, UNCHANGED <<plan, attempts, poll, indexed>>,
           \A v \in Versions : version'[v] = "none" => version[v] = "none"
    PROVE  AttemptsKept /\ PollsKept
BY DEF TypeOK, Unsent, JobsStored, AttemptsKept, PollsKept, Tabs, Attempts

\* The processing of versions disturbs no release.
LEMMA IngestingKeeps ==
    ASSUME KnowledgeAssumption, IndexInv, Ingested
    PROVE  IndexInv'
<1>1. /\ UNCHANGED <<plan, held, release, current, pointer, rollback>>
      /\ AttemptsKept /\ PollsKept /\ VersionsKept /\ faults' \in Nat
  BY DEF Ingested, releaseVars
<1>2. TypeOK' /\ Unsent' /\ JobsStored'
  BY <1>1, TypesKept DEF IndexInv, TypeOK, VersionsKept
<1>3. Formed' /\ \A x \in DOMAIN release \cup {None} : Members(x)' = Members(x)
  BY <1>1, FormKept DEF IndexInv, ReleasesKept, TypeOK
<1>4. Verified'
  BY <1>1 DEF IndexInv, Verified, Past, VersionsKept
<1>5. ServedIsShown'
  BY <1>1, <1>3 DEF IndexInv, ServedIsShown, VersionsKept, TypeOK
<1>6. Answerable'
  BY <1>1 DEF IndexInv, Answerable, VersionsKept
<1> QED BY <1>2, <1>3, <1>4, <1>5, <1>6 DEF IndexInv

\* A publication that does not switch the index, and only fails or goes on.
LEMMA PublishingKeeps ==
    ASSUME KnowledgeAssumption, IndexInv, NEW r \in DOMAIN release,
           NEW status \in {"BUILDING", "READY", "PUBLISHED", "RETIRED", "FAILED"},
           NEW step \in {"verify", "verified", "activate", "failing", "done"},
           release' = [release EXCEPT ![r] = [release[r] EXCEPT !.status = status, !.step = step]],
           UNCHANGED <<plan, version, attempts, batch, poll, indexed, current, pointer, rollback, faults>>,
           held' \in {held, held \cup {r}}, held' # held => release[r].members \subseteq indexed,
           step \in {"verify", "verified"} => status = "BUILDING" /\ release[r].step = "verify",
           step \in {"verified", "activate"} => r \in held',
           status = "PUBLISHED" <=> release[r].status = "PUBLISHED",
           status \in {"READY", "RETIRED"} => r \in held'
    PROVE  IndexInv'
<1> DEFINE e == [release[r] EXCEPT !.status = status, !.step = step]
<1>1. /\ e \in Release /\ e.members = release[r].members /\ e.base = release[r].base
      /\ e.status = status /\ e.step = step
  <2>1. release[r] \in Release
    BY ReleaseType DEF IndexInv
  <2> QED BY <2>1 DEF Release
<1> HIDE DEF e
<1>2. /\ ReleasesKept
      /\ \A q \in DOMAIN release : release'[q] = IF q = r THEN e ELSE release[q]
  BY <1>1, OneRelease DEF IndexInv, e
<1>3. Formed' /\ \A x \in DOMAIN release \cup {None} : Members(x)' = Members(x)
  BY <1>2, FormKept DEF IndexInv
<1>4. AttemptsKept /\ PollsKept
  BY ProcessingKept DEF IndexInv
<1>5. TypeOK' /\ Unsent' /\ JobsStored'
  BY <1>2, <1>4, TypesKept DEF IndexInv, TypeOK, ReleasesKept
<1>6. Verified'
  BY <1>1, <1>2 DEF IndexInv, Verified, Past, ReleasesKept
<1>7. ServedIsShown'
  <2>1. \A q \in DOMAIN release' : release'[q].status = "PUBLISHED" <=> q = current'
    BY <1>1, <1>2 DEF IndexInv, ServedIsShown, ReleasesKept
  <2>2. current \in DOMAIN release \cup {None}
    BY DEF IndexInv, TypeOK
  <2> QED BY <1>3, <2>1, <2>2 DEF IndexInv, ServedIsShown
<1>8. Answerable'
  BY <1>1, <1>2 DEF IndexInv, Answerable, Verified, ReleasesKept
<1> QED BY <1>3, <1>5, <1>6, <1>7, <1>8 DEF IndexInv

LEMMA VerifyFailedKeeps ==
    ASSUME KnowledgeAssumption, IndexInv, NEW r \in DOMAIN release, VerifyFailed(r)
    PROVE  IndexInv'
<1>1. release[r] \in Release
  BY ReleaseType DEF IndexInv
<1>2. release' = [release EXCEPT ![r] = [release[r] EXCEPT !.status = release[r].status, !.step = "failing"]]
  BY <1>1 DEF VerifyFailed, Release
<1>3. /\ release[r].status \in {"BUILDING", "READY", "PUBLISHED", "RETIRED", "FAILED"}
      /\ release[r].status = "PUBLISHED" <=> release[r].status = "PUBLISHED"
      /\ release[r].status \in {"READY", "RETIRED"} => r \in held
      /\ "failing" = "activate" => r \in held
  BY <1>1 DEF VerifyFailed, Release, IndexInv, Verified, Answerable, Abandoned
<1>4. UNCHANGED <<plan, version, attempts, batch, poll, indexed, held, current, pointer, rollback, faults>>
  BY DEF VerifyFailed, ingestVars
<1> QED BY <1>2, <1>3, <1>4, PublishingKeeps

LEMMA MarkReadyKeeps ==
    ASSUME KnowledgeAssumption, IndexInv, NEW r \in DOMAIN release, MarkReady(r)
    PROVE  IndexInv'
<1>1. release[r] \in Release
  BY ReleaseType DEF IndexInv
<1>2. release' = [release EXCEPT ![r] = [release[r] EXCEPT !.status = "READY", !.step = "activate"]]
  BY <1>1 DEF MarkReady, Release
<1>3. /\ "READY" \in {"BUILDING", "READY", "PUBLISHED", "RETIRED", "FAILED"}
      /\ "READY" = "PUBLISHED" <=> release[r].status = "PUBLISHED"
      /\ "READY" \in {"READY", "RETIRED"} => r \in held
      /\ "activate" = "activate" => r \in held
  BY <1>1 DEF MarkReady, Release, IndexInv, Verified, Answerable, Abandoned
<1>4. UNCHANGED <<plan, version, attempts, batch, poll, indexed, held, current, pointer, rollback, faults>>
  BY DEF MarkReady, ingestVars
<1> QED BY <1>2, <1>3, <1>4, PublishingKeeps

LEMMA AbandonKeeps ==
    ASSUME KnowledgeAssumption, IndexInv, NEW r \in DOMAIN release, Abandon(r)
    PROVE  IndexInv'
<1>1. release[r] \in Release
  BY ReleaseType DEF IndexInv
<1>2. release' = [release EXCEPT ![r] = [release[r] EXCEPT !.status = Abandoned(release[r].status), !.step = "done"]]
  BY <1>1 DEF Abandon, Release
<1>3. /\ Abandoned(release[r].status) \in {"BUILDING", "READY", "PUBLISHED", "RETIRED", "FAILED"}
      /\ Abandoned(release[r].status) = "PUBLISHED" <=> release[r].status = "PUBLISHED"
      /\ Abandoned(release[r].status) \in {"READY", "RETIRED"} => r \in held
      /\ "done" = "activate" => r \in held
  BY <1>1 DEF Abandon, Release, IndexInv, Verified, Answerable, Abandoned
<1>4. UNCHANGED <<plan, version, attempts, batch, poll, indexed, held, current, pointer, rollback, faults>>
  BY DEF Abandon, ingestVars
<1> QED BY <1>2, <1>3, <1>4, PublishingKeeps

LEMMA VerifyKeeps ==
    ASSUME KnowledgeAssumption, IndexInv, NEW r \in DOMAIN release, Verify(r)
    PROVE  IndexInv'
<1>1. release[r] \in Release
  BY ReleaseType DEF IndexInv
<1>2. PICK step \in {"verified", "failing"} : release' = [release EXCEPT ![r].step = step]
  BY DEF Verify
<1>3. release' = [release EXCEPT ![r] = [release[r] EXCEPT !.status = release[r].status, !.step = step]]
  BY <1>1, <1>2 DEF Release
<1> QED BY <1>1, <1>3, PublishingKeeps
       DEF Verify, Release, ingestVars, IndexInv, Verified, Answerable, Complete

\* A publication that was overtaken.
LEMMA OvertakenKeeps ==
    ASSUME KnowledgeAssumption, IndexInv, NEW r \in DOMAIN release, Activate(r),
           ~Expected(release[r].base)
    PROVE  IndexInv'
<1>1. release[r] \in Release
  BY ReleaseType DEF IndexInv
<1>2. release' = [release EXCEPT ![r] = [release[r] EXCEPT !.status = release[r].status, !.step = "failing"]]
  BY <1>1 DEF Activate, Release
<1> QED BY <1>1, <1>2, PublishingKeeps
       DEF Activate, Release, ingestVars, IndexInv, Verified, Answerable

\* A candidate is built.
LEMMA BuildKeeps ==
    ASSUME KnowledgeAssumption, IndexInv, NEW v \in Versions, Build(v)
    PROVE  IndexInv'
<1> DEFINE n == Len(release) + 1
<1>1. /\ release' = Append(release, Candidate(v))
      /\ UNCHANGED <<plan, version, attempts, batch, poll, indexed, held, current, pointer,
                     rollback, faults>>
  BY DEF Build, ingestVars
<1>2. Members(current) \subseteq Versions /\ OnePerDocument(Members(current))
  BY ReleaseType DEF IndexInv, TypeOK, Members, Release, Formed, OnePerDocument
<1>3. /\ current \in Nat \cup {None} /\ current \in DOMAIN release \cup {None}
  BY ReleaseType DEF IndexInv, TypeOK
<1>4. Candidate(v) \in Release
  BY <1>2, <1>3 DEF Candidate, Release
<1>5. /\ release' \in Seq(Release) /\ DOMAIN release' = DOMAIN release \cup {n}
      /\ n \in Nat /\ n \notin DOMAIN release /\ release'[n] = Candidate(v)
      /\ \A q \in DOMAIN release : release'[q] = release[q]
  BY <1>1, <1>4, Extended DEF IndexInv, TypeOK
<1> HIDE DEF n
<1>6. \A x \in DOMAIN release \cup {None} : Members(x)' = Members(x)
  BY <1>5 DEF Members
<1>7. Formed'
  <2>1. ASSUME NEW q \in DOMAIN release
        PROVE  /\ release'[q].base \in DOMAIN release' \cup {None}
               /\ Replaces(release'[q].members, Members(release[q].base)')
               /\ OnePerDocument(release'[q].members)
    BY <1>5, <1>6 DEF IndexInv, Formed
  <2>2. /\ Candidate(v).base = current /\ Candidate(v).members
               = {m \in Members(current) : DocOf[m] # DocOf[v]} \cup {v}
    BY DEF Candidate
  <2>3. Replaces(Candidate(v).members, Members(current))
    BY <2>2 DEF Replaces
  <2>4. OnePerDocument(Candidate(v).members)
    BY <2>2, <1>2 DEF OnePerDocument
  <2>5. Members(current)' = Members(current)
    BY <1>1, <1>3, <1>6
  <2> QED BY <1>1, <1>3, <1>5, <2>1, <2>2, <2>3, <2>4, <2>5 DEF Formed
<1>8. AttemptsKept /\ PollsKept
  BY <1>1, ProcessingKept DEF IndexInv
<1>9. TypeOK' /\ Unsent' /\ JobsStored'
  BY <1>1, <1>5, <1>8, TypesKept DEF IndexInv, TypeOK
<1>10. Candidate(v).status = "BUILDING" /\ Candidate(v).step = "verify" /\ n \notin held
  BY <1>5 DEF Candidate, IndexInv, TypeOK
<1>11. Verified'
  BY <1>1, <1>5, <1>10 DEF IndexInv, Verified, Past, TypeOK
<1>12. ServedIsShown'
  <2>1. n # current
    BY <1>3, <1>5 DEF KnowledgeAssumption
  <2>2. Members(current)' = Members(current)
    BY <1>1, <1>3, <1>6
  <2>3. \A q \in DOMAIN release' : release'[q].status = "PUBLISHED" <=> q = current'
    BY <1>1, <1>5, <1>10, <2>1 DEF IndexInv, ServedIsShown
  <2> QED BY <1>1, <2>2, <2>3 DEF IndexInv, ServedIsShown
<1>13. Answerable'
  BY <1>1, <1>5, <1>10 DEF IndexInv, Answerable
<1> QED BY <1>7, <1>9, <1>11, <1>12, <1>13 DEF IndexInv

\* What a rollback reads before its transaction changes nothing else.
LEMMA LookingKeeps ==
    ASSUME KnowledgeAssumption, IndexInv, rollback' \in Seq(Rollback),
           \A u \in DOMAIN rollback' : Past(rollback'[u].target),
           UNCHANGED <<plan, version, attempts, batch, poll, indexed, held, release, current,
                       pointer, faults>>
    PROVE  IndexInv'
<1>1. AttemptsKept /\ PollsKept
  BY ProcessingKept DEF IndexInv
<1>2. TypeOK' /\ Unsent' /\ JobsStored'
  BY <1>1, TypesKept DEF IndexInv, TypeOK
<1>3. Formed' /\ \A x \in DOMAIN release \cup {None} : Members(x)' = Members(x)
  BY FormKept DEF IndexInv, ReleasesKept, TypeOK
<1>4. Verified'
  BY DEF IndexInv, Verified, Past
<1>5. ServedIsShown'
  BY <1>3 DEF IndexInv, ServedIsShown, TypeOK
<1>6. Answerable'
  BY DEF IndexInv, Answerable
<1> QED BY <1>2, <1>3, <1>4, <1>5, <1>6 DEF IndexInv

LEMMA RollbackCheckKeeps ==
    ASSUME KnowledgeAssumption, IndexInv, NEW r \in DOMAIN release, RollbackCheck(r)
    PROVE  IndexInv'
<1> DEFINE e == [target |-> r, base |-> None, step |-> "checked"]
<1>1. e \in Rollback /\ e.target = r /\ Past(r)
  BY ReleaseType DEF IndexInv, Rollback, RollbackCheck, Answerable, Verified, Past
<1>2. rollback' = Append(rollback, e)
  BY DEF RollbackCheck
<1> HIDE DEF e
<1>3. /\ rollback' \in Seq(Rollback) /\ DOMAIN rollback' = DOMAIN rollback \cup {Len(rollback) + 1}
      /\ rollback'[Len(rollback) + 1] = e /\ \A u \in DOMAIN rollback : rollback'[u] = rollback[u]
  BY <1>1, <1>2, Extended DEF IndexInv, TypeOK
<1> QED BY <1>1, <1>3, LookingKeeps DEF RollbackCheck, ingestVars, IndexInv, Verified

\* One rollback goes on.
LEMMA OneRollback ==
    ASSUME IndexInv, NEW u \in DOMAIN rollback, NEW b \in Nat \cup {None},
           NEW step \in {"checked", "read", "done"},
           rollback' = [rollback EXCEPT ![u] = [rollback[u] EXCEPT !.base = b, !.step = step]]
    PROVE  /\ rollback' \in Seq(Rollback) /\ DOMAIN rollback' = DOMAIN rollback
           /\ \A w \in DOMAIN rollback' : Past(rollback'[w].target)
<1> DEFINE e == [rollback[u] EXCEPT !.base = b, !.step = step]
<1>1. e \in Rollback /\ e.target = rollback[u].target /\ rollback \in Seq(Rollback)
  BY ReleaseType DEF IndexInv, Rollback, TypeOK
<1> HIDE DEF e
<1>2. rollback' \in Seq(Rollback) /\ DOMAIN rollback' = DOMAIN rollback
  BY <1>1, Replaced DEF e
<1>3. \A w \in DOMAIN rollback : rollback'[w].target = rollback[w].target
  BY <1>1 DEF e
<1> QED BY <1>2, <1>3 DEF IndexInv, Verified

LEMMA RollbackReadKeeps ==
    ASSUME KnowledgeAssumption, IndexInv, NEW u \in DOMAIN rollback, RollbackRead(u)
    PROVE  IndexInv'
<1>1. current \in Nat \cup {None} /\ rollback[u] \in Rollback
  BY ReleaseType DEF IndexInv, TypeOK
<1>2. rollback' = [rollback EXCEPT ![u] = [rollback[u] EXCEPT !.base = current, !.step = "read"]]
  BY <1>1 DEF RollbackRead, IndexInv, TypeOK, Rollback
<1>3. /\ rollback' \in Seq(Rollback) /\ \A w \in DOMAIN rollback' : Past(rollback'[w].target)
  BY <1>1, <1>2, OneRollback
<1> QED BY <1>3, LookingKeeps DEF RollbackRead, ingestVars

\* The transaction of publications and rollbacks, on releases rs that differ
\* from the stored ones in how far their publications are.
LEMMA SwitchKeeps ==
    ASSUME KnowledgeAssumption, IndexInv, NEW r \in DOMAIN release, NEW rs \in Seq(Release),
           DOMAIN rs = DOMAIN release, r \in held, rs[r].step \notin {"verify", "verified"},
           \A q \in DOMAIN release :
              /\ rs[q].members = release[q].members /\ rs[q].base = release[q].base
              /\ rs[q].status = release[q].status /\ rs[q].step \in {release[q].step, "done"},
           Switch(rs, current, r),
           UNCHANGED <<plan, attempts, batch, poll, indexed, held, faults>>,
           rollback' \in Seq(Rollback),
           \A u \in DOMAIN rollback' : Past(rollback'[u].target)
    PROVE  IndexInv'
<1> DEFINE status(q) == CASE q = r -> "PUBLISHED"
                          [] q # r /\ q = current /\ rs[q].status = "PUBLISHED" -> "RETIRED"
                          [] OTHER -> rs[q].status
           pub == rs[r].members
<1>1. \A q \in DOMAIN release : rs[q] \in Release
  BY Positions
<1>2. /\ current' = r
      /\ release' = [q \in DOMAIN rs |-> [rs[q] EXCEPT !.status = status(q)]]
      /\ version' = [v \in Versions |->
                        CASE v \in pub -> "PUBLISHED"
                          [] v \notin pub /\ version[v] = "PUBLISHED" -> "RETIRED"
                          [] OTHER -> version[v]]
      /\ pointer' = [d \in Docs |-> IF \E v \in pub : DocOf[v] = d
                                     THEN CHOOSE v \in pub : DocOf[v] = d ELSE pointer[d]]
  BY DEF Switch
<1>3. \A q \in DOMAIN release : status(q) =
         IF q = r THEN "PUBLISHED" ELSE IF q = current THEN "RETIRED" ELSE release[q].status
  BY DEF IndexInv, ServedIsShown
<1>4. \A q \in DOMAIN release : status(q) \in {"BUILDING", "READY", "PUBLISHED", "RETIRED", "FAILED"}
  BY <1>1, <1>3 DEF Release
<1> HIDE DEF status
<1>5. \A q \in DOMAIN release :
         /\ release'[q] \in Release /\ release'[q].status = status(q) /\ release'[q].step = rs[q].step
         /\ release'[q].members = release[q].members /\ release'[q].base = release[q].base
  BY <1>1, <1>2, <1>4 DEF Release
<1>6. ReleasesKept
  <2>1. release' = [q \in DOMAIN rs |-> release'[q]]
    BY <1>2
  <2>2. \A q \in DOMAIN rs : release'[q] \in Release
    BY <1>5
  <2>3. release' \in Seq(Release) /\ DOMAIN release' = DOMAIN rs
    BY <2>1, <2>2, Rewritten
  <2> QED BY <1>5, <2>3 DEF ReleasesKept
<1>7. Formed' /\ \A x \in DOMAIN release \cup {None} : Members(x)' = Members(x)
  BY <1>6, FormKept DEF IndexInv
<1>8. /\ r \in Nat /\ r # None /\ pub \subseteq Versions /\ pub \subseteq indexed
      /\ Members(current)' = pub /\ OnePerDocument(pub)
  <2>1. r \in Nat /\ r # None
    BY ReleaseType DEF IndexInv, KnowledgeAssumption
  <2>2. pub = release[r].members /\ pub \subseteq Versions
    BY <1>1 DEF Release
  <2>3. pub \subseteq indexed /\ OnePerDocument(pub)
    BY <2>2 DEF IndexInv, Verified, Formed
  <2>4. Members(r)' = pub
    BY <2>1, <2>2, <1>5 DEF Members
  <2> QED BY <1>2, <2>1, <2>2, <2>3, <2>4 DEF Members
<1> HIDE DEF pub
<1>9. \A v \in Versions :
         version'[v] = IF v \in pub THEN "PUBLISHED"
                       ELSE IF version[v] = "PUBLISHED" THEN "RETIRED" ELSE version[v]
  BY <1>2
<1>10. /\ version' \in [Versions -> VersionStatus]
       /\ \A v \in Versions : version'[v] = "none" => version[v] = "none"
  BY <1>2, <1>9 DEF IndexInv, TypeOK, VersionStatus
<1>11. /\ pointer' \in [Docs -> Versions \cup {None}]
       /\ \A v \in pub : pointer'[DocOf[v]] = v
  <2>1. pointer' \in [Docs -> Versions \cup {None}]
    BY <1>2, <1>8 DEF IndexInv, TypeOK
  <2>2. ASSUME NEW v \in pub PROVE pointer'[DocOf[v]] = v
    <3>1. DocOf[v] \in Docs
      BY <1>8 DEF Docs
    <3>2. pointer'[DocOf[v]] = CHOOSE w \in pub : DocOf[w] = DocOf[v]
      BY <1>2, <3>1
    <3>3. \A w \in pub : DocOf[w] = DocOf[v] => w = v
      BY <1>8 DEF OnePerDocument
    <3> QED BY <3>2, <3>3
  <2> QED BY <2>1, <2>2
<1>12. AttemptsKept /\ PollsKept
  BY <1>10, ProcessingKept DEF IndexInv
<1>13. TypeOK' /\ Unsent' /\ JobsStored'
  BY <1>2, <1>6, <1>10, <1>11, <1>12, TypesKept DEF IndexInv, TypeOK, ReleasesKept
<1>14. Verified'
  <2>1. ASSUME NEW q \in DOMAIN release
        PROVE  /\ release'[q].step \in {"verify", "verified"} => release'[q].status = "BUILDING"
               /\ release'[q].step \in {"verified", "activate"} => q \in held'
    <3>1. CASE release'[q].step = "done"
      BY <3>1
    <3>2. CASE release'[q].step = release[q].step /\ q # r
      BY <3>2, <1>3, <1>5 DEF IndexInv, Verified, ServedIsShown
    <3>3. CASE release'[q].step = release[q].step /\ q = r
      BY <3>3, <1>5
    <3> QED BY <1>5, <3>1, <3>2, <3>3
  <2>2. \A q \in held' : release'[q].members \subseteq indexed'
    BY <1>5 DEF IndexInv, Verified, TypeOK
  <2>3. \A u \in DOMAIN rollback' : Past(rollback'[u].target)
    OBVIOUS
  <2>4. \A q \in held : release'[q].step \in {release[q].step, "done"}
    BY <1>5 DEF IndexInv, TypeOK
  <2>5. DOMAIN release' = DOMAIN release
    BY <1>6 DEF ReleasesKept
  <2>6. \A q \in DOMAIN release' :
           /\ release'[q].step \in {"verify", "verified"} => release'[q].status = "BUILDING"
           /\ release'[q].step \in {"verified", "activate"} => q \in held'
    BY <2>1, <2>5, Zenon
  <2>7. ASSUME NEW u \in DOMAIN rollback'
        PROVE  /\ rollback'[u].target \in held'
               /\ release'[rollback'[u].target].step \notin {"verify", "verified"}
    <3> DEFINE q == rollback'[u].target
    <3>1. q \in held /\ release[q].step \notin {"verify", "verified"}
      BY <2>3, <2>7 DEF Past
    <3> HIDE DEF q
    <3>2. q \in held' /\ release'[q].step \notin {"verify", "verified"}
      BY <2>4, <3>1
    <3> QED BY <3>2 DEF q
  <2> QED BY <2>2, <2>6, <2>7 DEF Verified, Past
<1>15. ServedIsShown'
  <2>1. \A q \in DOMAIN release' : release'[q].status = "PUBLISHED" <=> q = current'
    <3> TAKE q \in DOMAIN release'
    <3>1. q \in DOMAIN release /\ current' = r
      BY <1>2, <1>6 DEF ReleasesKept
    <3>2. release[q].status = "PUBLISHED" <=> q = current
      BY <3>1 DEF IndexInv, ServedIsShown
    <3>3. release'[q].status =
            IF q = r THEN "PUBLISHED" ELSE IF q = current THEN "RETIRED" ELSE release[q].status
      BY <1>3, <1>5, <3>1
    <3> QED BY <3>1, <3>2, <3>3
  <2>2. \A v \in Versions : version'[v] = "PUBLISHED" => v \in pub
    BY <1>9
  <2> QED BY <1>8, <1>11, <2>1, <2>2 DEF ServedIsShown
<1>16. Answerable'
  <2>1. \A v \in Versions : version'[v] \in {"READY", "PUBLISHED", "RETIRED"} => v \in indexed'
    BY <1>8, <1>9 DEF IndexInv, Answerable
  <2>2. ASSUME NEW q \in DOMAIN release', release'[q].status \in {"READY", "PUBLISHED", "RETIRED"}
        PROVE  q \in held' /\ release'[q].members \subseteq indexed'
    <3>1. q \in DOMAIN release /\ q \in held
      BY <1>3, <1>5, <1>6, <2>2 DEF IndexInv, Answerable, ServedIsShown, ReleasesKept
    <3> QED BY <1>5, <3>1 DEF IndexInv, Verified
  <2> QED BY <2>1, <2>2 DEF Answerable
<1> QED BY <1>7, <1>13, <1>14, <1>15, <1>16 DEF IndexInv

LEMMA ActivateKeeps ==
    ASSUME KnowledgeAssumption, IndexInv, NEW r \in DOMAIN release, Activate(r)
    PROVE  IndexInv'
<1>1. CASE ~Expected(release[r].base)
  BY <1>1, OvertakenKeeps
<1>2. CASE Expected(release[r].base)
  <2> DEFINE e == [release[r] EXCEPT !.step = "done"]
             rs == [release EXCEPT ![r].step = "done"]
  <2>1. release \in Seq(Release) /\ release[r] \in Release /\ r \in held
    BY ReleaseType DEF IndexInv, TypeOK, Activate, Verified
  <2>2. /\ e \in Release /\ e.members = release[r].members /\ e.base = release[r].base
        /\ e.status = release[r].status /\ e.step = "done"
    BY <2>1 DEF Release
  <2>3. rs = [release EXCEPT ![r] = e]
    OBVIOUS
  <2>4. Switch(rs, current, r)
    BY <1>2 DEF Activate, Expected
  <2>5. UNCHANGED <<plan, attempts, batch, poll, indexed, held, rollback, faults>>
    BY DEF Activate
  <2> HIDE DEF e, rs
  <2>6. rs \in Seq(Release) /\ DOMAIN rs = DOMAIN release
    BY <2>1, <2>2, <2>3, Replaced
  <2>7. \A q \in DOMAIN release : rs[q] = IF q = r THEN e ELSE release[q]
    BY <2>1, <2>3
  <2>8. rollback' \in Seq(Rollback) /\ \A u \in DOMAIN rollback' : Past(rollback'[u].target)
    BY <2>5 DEF IndexInv, TypeOK, Verified
  <2> QED BY <2>1, <2>2, <2>4, <2>5, <2>6, <2>7, <2>8, SwitchKeeps
<1> QED BY <1>1, <1>2

LEMMA RollbackSwitchKeeps ==
    ASSUME KnowledgeAssumption, IndexInv, NEW u \in DOMAIN rollback, RollbackSwitch(u)
    PROVE  IndexInv'
<1>1. rollback[u] \in Rollback /\ Past(rollback[u].target)
  BY ReleaseType DEF IndexInv, Verified
<1>2. rollback' = [rollback EXCEPT ![u] = [rollback[u] EXCEPT !.base = rollback[u].base, !.step = "done"]]
  BY <1>1 DEF RollbackSwitch, Rollback
<1>3. rollback' \in Seq(Rollback) /\ \A w \in DOMAIN rollback' : Past(rollback'[w].target)
  BY <1>1, <1>2, OneRollback DEF Rollback
<1>4. UNCHANGED <<plan, attempts, batch, poll, indexed, held, faults>>
  BY DEF RollbackSwitch
<1>5. CASE Expected(rollback[u].base)
  <2>1. Switch(release, current, rollback[u].target)
    BY <1>5 DEF RollbackSwitch, Expected
  <2>2. rollback[u].target \in DOMAIN release /\ release \in Seq(Release)
    BY <1>1 DEF IndexInv, TypeOK, Past
  <2> QED BY <1>1, <1>3, <1>4, <2>1, <2>2, SwitchKeeps DEF Past
<1>6. CASE ~Expected(rollback[u].base)
  BY <1>3, <1>4, <1>6, LookingKeeps DEF RollbackSwitch
<1> QED BY <1>5, <1>6

\* Requests that are dropped leave what they have written.
LEMMA PlatformCrashKeeps ==
    ASSUME KnowledgeAssumption, IndexInv, PlatformCrash
    PROVE  IndexInv'
<1> DEFINE f(v) == [k \in Attempts(v) |-> [attempts[v][k] EXCEPT !.submit = "done"]]
<1>1. /\ attempts' = [v \in Versions |-> f(v)]
      /\ poll' = [t \in Tabs |-> Idle]
      /\ release' = [r \in DOMAIN release |-> [release[r] EXCEPT !.step = "done"]]
      /\ rollback' = [u \in DOMAIN rollback |-> [rollback[u] EXCEPT !.step = "done"]]
      /\ faults' = faults + 1 /\ UNCHANGED <<plan, version, batch, indexed, held, current, pointer>>
  BY DEF PlatformCrash
<1>2. ASSUME NEW v \in Versions
      PROVE  /\ f(v) \in Seq(Attempt) /\ DOMAIN f(v) = Attempts(v)
             /\ \A k \in Attempts(v) : f(v)[k].job = attempts[v][k].job
             /\ attempts[v] = <<>> => f(v) = <<>>
  <2>1. attempts[v] \in Seq(Attempt)
    BY DEF IndexInv, TypeOK
  <2>2. \A k \in Attempts(v) : attempts[v][k] \in Attempt
    BY <2>1, Positions DEF Attempts
  <2>3. \A k \in Attempts(v) : f(v)[k] \in Attempt /\ f(v)[k].job = attempts[v][k].job
    BY <2>2 DEF Attempt
  <2>4. f(v) \in Seq(Attempt) /\ DOMAIN f(v) = Attempts(v)
    <3>1. f(v) = [i \in DOMAIN attempts[v] |-> f(v)[i]]
      BY DEF Attempts
    <3>2. \A i \in DOMAIN attempts[v] : f(v)[i] \in Attempt
      BY <2>3 DEF Attempts
    <3> HIDE DEF f
    <3> QED BY <2>1, <3>1, <3>2, Rewritten DEF Attempts
  <2>5. ASSUME attempts[v] = <<>> PROVE f(v) = <<>>
    <3>1. DOMAIN attempts[v] = {} /\ DOMAIN f(v) = {}
      BY <2>4, <2>5 DEF Attempts
    <3> HIDE DEF f
    <3> QED BY <2>4, <3>1, EmptySeq, LenProperties
  <2> QED BY <2>3, <2>4, <2>5
<1> HIDE DEF f
<1>3. AttemptsKept
  <2>1. \A v \in Versions : attempts'[v] = f(v)
    BY <1>1
  <2>2. attempts' \in [Versions -> Seq(Attempt)]
    BY <1>1, <1>2
  <2>3. \A v \in Versions : Attempts(v) \subseteq DOMAIN attempts'[v]
    BY <1>2, <2>1
  <2>4. \A v \in Versions : version'[v] = "none" => attempts'[v] = <<>>
    BY <1>1, <1>2, <2>1 DEF IndexInv, Unsent
  <2>5. \A v \in Versions : \A k \in DOMAIN attempts'[v] :
           attempts'[v][k].job = "SUCCEEDED" => v \in indexed'
    BY <1>1, <1>2, <2>1 DEF IndexInv, JobsStored
  <2> QED BY <2>2, <2>3, <2>4, <2>5 DEF AttemptsKept
<1>4. PollsKept
  <2>1. Idle \in Question /\ Idle.step = "idle"
    BY DEF Idle, Question, TaskStatus
  <2> QED BY <1>1, <2>1 DEF PollsKept
<1>5. \A r \in DOMAIN release :
         /\ release'[r] \in Release /\ release'[r].step = "done"
         /\ release'[r].status = release[r].status
         /\ release'[r].members = release[r].members /\ release'[r].base = release[r].base
  BY <1>1, ReleaseType DEF IndexInv, Release
<1>6. ReleasesKept
  <2>1. release' = [r \in DOMAIN release |-> release'[r]] /\ release \in Seq(Release)
    BY <1>1 DEF IndexInv, TypeOK
  <2>2. release' \in Seq(Release) /\ DOMAIN release' = DOMAIN release
    BY <1>5, <2>1, Rewritten
  <2> QED BY <1>5, <2>2 DEF ReleasesKept
<1>7. /\ rollback' \in Seq(Rollback) /\ DOMAIN rollback' = DOMAIN rollback
      /\ \A u \in DOMAIN rollback : rollback'[u].target = rollback[u].target
  <2>1. \A u \in DOMAIN rollback :
           rollback'[u] \in Rollback /\ rollback'[u].target = rollback[u].target
    BY <1>1, ReleaseType DEF IndexInv, Rollback
  <2>2. rollback' = [u \in DOMAIN rollback |-> rollback'[u]] /\ rollback \in Seq(Rollback)
    BY <1>1 DEF IndexInv, TypeOK
  <2> QED BY <2>1, <2>2, Rewritten
<1>8. Formed' /\ \A x \in DOMAIN release \cup {None} : Members(x)' = Members(x)
  BY <1>6, FormKept DEF IndexInv
<1>9. TypeOK' /\ Unsent' /\ JobsStored'
  <2>1. /\ version' \in [Versions -> VersionStatus] /\ plan' = plan /\ faults' \in Nat
        /\ batch' \in [Versions -> {"none", "RUNNING", "PARTIAL_FAILED"} \cup Terminal]
        /\ indexed' \subseteq Versions /\ pointer' \in [Docs -> Versions \cup {None}]
    BY <1>1 DEF IndexInv, TypeOK
  <2>2. /\ release' \in Seq(Release) /\ held' \subseteq DOMAIN release'
        /\ current' \in DOMAIN release' \cup {None}
    BY <1>1, <1>6 DEF IndexInv, TypeOK, ReleasesKept
  <2> QED BY <1>3, <1>4, <1>7, <2>1, <2>2, TypesKept DEF IndexInv
<1>10. Verified'
  <2>1. \A r \in held : r \in DOMAIN release
    BY DEF IndexInv, TypeOK
  <2>2. \A r \in held' : release'[r].members \subseteq indexed'
    BY <1>1, <1>5, <2>1 DEF IndexInv, Verified
  <2>3. \A u \in DOMAIN rollback' : Past(rollback[u].target) /\ rollback[u].target \in held
    BY <1>7 DEF IndexInv, Verified, Past
  <2>4. \A u \in DOMAIN rollback' :
           /\ rollback'[u].target \in held'
           /\ release'[rollback'[u].target].step \notin {"verify", "verified"}
    <3>1. \A u \in DOMAIN rollback' : rollback'[u].target \in held
      BY <1>7, <2>3
    <3> QED BY <1>1, <1>5, <2>1, <3>1
  <2>5. \A r \in DOMAIN release' : release'[r].step = "done"
    BY <1>5, <1>6 DEF ReleasesKept
  <2> QED BY <2>2, <2>4, <2>5 DEF Verified, Past
<1>11. ServedIsShown'
  <2>1. \A r \in DOMAIN release' : release'[r].status = "PUBLISHED" <=> r = current'
    BY <1>1, <1>5, <1>6 DEF IndexInv, ServedIsShown, ReleasesKept
  <2>2. current \in DOMAIN release \cup {None} /\ Members(current)' = Members(current)
    <3>1. current \in DOMAIN release \cup {None}
      BY DEF IndexInv, TypeOK
    <3> QED BY <1>1, <1>8, <3>1 DEF Members
  <2> QED BY <1>1, <2>1, <2>2 DEF IndexInv, ServedIsShown
<1>12. Answerable'
  BY <1>1, <1>5, <1>6 DEF IndexInv, Answerable, ReleasesKept
<1> QED BY <1>8, <1>9, <1>10, <1>11, <1>12 DEF IndexInv

-----------------------------------------------------------------------------
(* The theorems.                                                            *)

LEMMA InitEstablishes == ASSUME KnowledgeAssumption, Init PROVE IndexInv
<1>1. Processed \in Attempt /\ <<Processed>> \in Seq(Attempt)
      /\ DOMAIN <<Processed>> = {1} /\ <<>> \in Seq(Attempt) /\ DOMAIN <<>> = {}
  <2>1. Processed \in Attempt
    BY DEF Processed, Attempt, TaskStatus, Terminal
  <2> QED BY <2>1
<1>2. plan.ready \subseteq Versions
  BY DEF Init, KnowledgeAssumption, Plan
<1>3. Idle \in Question /\ Idle.step = "idle"
  BY DEF Idle, Question, TaskStatus
<1>4. release = <<>> /\ rollback = <<>> /\ DOMAIN release = {} /\ DOMAIN rollback = {}
      /\ release \in Seq(Release) /\ rollback \in Seq(Rollback)
  BY DEF Init
<1>5. TypeOK
  BY <1>1, <1>2, <1>3, <1>4 DEF Init, TypeOK, VersionStatus, Terminal
<1>6. Unsent /\ JobsStored
  BY <1>1, <1>3 DEF Init, Unsent, JobsStored, Attempts
<1>7. Formed /\ Verified /\ ServedIsShown
  BY <1>4 DEF Init, Formed, Verified, ServedIsShown, Members
<1>8. Answerable
  BY <1>4 DEF Init, Answerable
<1> QED BY <1>5, <1>6, <1>7, <1>8 DEF IndexInv

LEMMA StepKeeps == ASSUME KnowledgeAssumption, IndexInv, [Next]_vars PROVE IndexInv'
<1>0. TypeOK /\ Unsent /\ JobsStored
  BY DEF IndexInv
<1>1. ASSUME NEW v \in Versions, Upload(v) \/ Retry(v) PROVE IndexInv'
  BY <1>0, <1>1, UploadIngests, RetryIngests, IngestingKeeps
<1>2. ASSUME NEW v \in Versions, NEW k \in Attempts(v), Submission(v, k) PROVE IndexInv'
  BY <1>0, <1>2, NoReadUrlIngests, AcceptIngests, SaveReplyIngests, SubmitFailedIngests,
     FailVersionIngests, FinishBatchIngests, IngestingKeeps DEF Submission
<1>3. ASSUME NEW v \in Versions, NEW k \in Attempts(v), Job(v, k) PROVE IndexInv'
  BY <1>0, <1>3, JobDoneIngests, JobFailedIngests, IngestingKeeps DEF Job
<1>4. ASSUME NEW v \in Versions, NEW k \in Attempts(v), NEW t \in Tabs, PollAsk(t, v, k)
      PROVE  IndexInv'
  BY <1>0, <1>4, PollAskIngests, IngestingKeeps
<1>5. ASSUME NEW t \in Tabs, Answered(t) PROVE IndexInv'
  BY <1>0, <1>5, PollSaveIngests, PollProjectIngests, IngestingKeeps DEF Answered
<1>6. ASSUME NEW v \in Versions, Build(v) PROVE IndexInv'
  BY <1>6, BuildKeeps
<1>7. ASSUME NEW r \in DOMAIN release, Publication(r) PROVE IndexInv'
  BY <1>7, VerifyKeeps, VerifyFailedKeeps, MarkReadyKeeps, ActivateKeeps, AbandonKeeps DEF Publication
<1>8. ASSUME NEW r \in DOMAIN release, RollbackCheck(r) PROVE IndexInv'
  BY <1>8, RollbackCheckKeeps
<1>9. ASSUME NEW u \in DOMAIN rollback, RollbackRead(u) \/ RollbackSwitch(u) PROVE IndexInv'
  BY <1>9, RollbackReadKeeps, RollbackSwitchKeeps
<1>10. ASSUME PlatformCrash \/ AgentRestart PROVE IndexInv'
  BY <1>0, <1>10, PlatformCrashKeeps, AgentRestartIngests, IngestingKeeps
<1>11. ASSUME UNCHANGED vars PROVE IndexInv'
  <2>1. UNCHANGED <<plan, version, attempts, batch, poll, indexed, held, release, current, pointer,
                    rollback, faults>>
    BY <1>11 DEF vars, ingestVars, releaseVars
  <2>2. rollback' \in Seq(Rollback) /\ \A u \in DOMAIN rollback' : Past(rollback'[u].target)
    BY <2>1 DEF IndexInv, TypeOK, Verified
  <2> QED BY <2>1, <2>2, LookingKeeps
<1> QED BY <1>1, <1>2, <1>3, <1>4, <1>5, <1>6, <1>7, <1>8, <1>9, <1>10, <1>11 DEF Next

\* The inductive invariant: whatever is served or may be served again was
\* verified, and its chunks stay.
THEOREM IndexInvariance == Spec => []IndexInv
BY KnowledgeAssumption, InitEstablishes, StepKeeps, PTL DEF Spec

\* One index is served, and releases, versions and documents show it, in the
\* transaction of activate and rollback as in every step of the processing.
THEOREM ServedAgrees == Spec => []IndexInvariant
<1>1. IndexInv => IndexInvariant
  BY DEF IndexInv, IndexInvariant
<1> QED BY <1>1, IndexInvariance, PTL

\* The Agent can answer from whatever the platform may serve: nothing
\* replaces the chunks of a version or drops the members of a release.
THEOREM AnswersPossible == Spec => []Answerable
<1>1. IndexInv => Answerable
  BY DEF IndexInv
<1> QED BY <1>1, IndexInvariance, PTL

\* Who finishes a publication that was about to switch the index does it by
\* the switch, on the index the candidate was built from.
LEMMA SwitchReplaces ==
    ASSUME KnowledgeAssumption, IndexInv, Next, NEW r \in DOMAIN release,
           release[r].step = "activate", release'[r].step = "done", faults' = faults
    PROVE  Replaces(release[r].members, Members(current))
<1>0. release[r] \in Release /\ release \in Seq(Release) /\ faults \in Nat
  BY ReleaseType DEF IndexInv, TypeOK
<1>1. ASSUME release'[r] = release[r] PROVE FALSE
  BY <1>1
<1>2. ASSUME UNCHANGED release PROVE FALSE
  BY <1>1, <1>2
<1>3. ASSUME NEW v \in Versions, Upload(v) \/ Retry(v) PROVE FALSE
  BY <1>2, <1>3 DEF Upload, Retry, releaseVars
<1>4. ASSUME NEW v \in Versions, NEW k \in Attempts(v), Submission(v, k) \/ Job(v, k) PROVE FALSE
  BY <1>2, <1>4 DEF Submission, NoReadUrl, Accept, SaveReply, SubmitFailed, FailVersion, FinishBatch,
     Job, JobDone, JobFailed, releaseVars
<1>5. ASSUME NEW v \in Versions, NEW k \in Attempts(v), NEW t \in Tabs, PollAsk(t, v, k)
      PROVE  FALSE
  BY <1>2, <1>5 DEF PollAsk, releaseVars
<1>6. ASSUME NEW t \in Tabs, Answered(t) PROVE FALSE
  BY <1>2, <1>6 DEF Answered, PollSave, PollProject, releaseVars
<1>7. ASSUME NEW v \in Versions, Build(v) PROVE FALSE
  BY <1>0, <1>1, <1>7, LenProperties DEF Build
<1>8. ASSUME NEW q \in DOMAIN release, Verify(q) \/ VerifyFailed(q) \/ MarkReady(q) \/ Abandon(q)
      PROVE  FALSE
  <2>1. q # r
    BY <1>8 DEF Verify, VerifyFailed, MarkReady, Abandon
  <2> QED BY <1>0, <1>1, <1>8, <2>1 DEF Verify, VerifyFailed, MarkReady, Abandon
<1>9. ASSUME NEW q \in DOMAIN release, Activate(q)
      PROVE  Replaces(release[r].members, Members(current))
  <2>1. CASE ~Expected(release[q].base)
    <3>1. release' = [release EXCEPT ![q].step = "failing"]
      BY <1>9, <2>1 DEF Activate
    <3> QED BY <1>0, <3>1
  <2>2. CASE Expected(release[q].base) /\ q = r
    BY <2>2 DEF Expected, IndexInv, Formed
  <2>3. CASE Expected(release[q].base) /\ q # r
    <3> DEFINE rs == [release EXCEPT ![q].step = "done"]
               status(p) == CASE p = q -> "PUBLISHED"
                              [] p # q /\ p = release[q].base /\ rs[p].status = "PUBLISHED" -> "RETIRED"
                              [] OTHER -> rs[p].status
    <3>1. release' = [p \in DOMAIN rs |-> [rs[p] EXCEPT !.status = status(p)]]
      BY <1>9, <2>3 DEF Activate, Switch
    <3>2. r \in DOMAIN rs /\ rs[r] = release[r]
      BY <1>0, <2>3
    <3> HIDE DEF rs, status
    <3>3. release'[r] = [release[r] EXCEPT !.status = status(r)]
      BY <3>1, <3>2
    <3> QED BY <1>0, <3>3 DEF Release
  <2> QED BY <2>1, <2>2, <2>3
<1>10. ASSUME NEW q \in DOMAIN release, RollbackCheck(q) PROVE FALSE
  BY <1>2, <1>10 DEF RollbackCheck
<1>11. ASSUME NEW u \in DOMAIN rollback, RollbackRead(u) \/ RollbackSwitch(u) PROVE FALSE
  <2>1. CASE RollbackRead(u)
    BY <1>2, <2>1 DEF RollbackRead
  <2>2. CASE RollbackSwitch(u)
    BY <1>0, <2>2 DEF RollbackSwitch, Switch, Release
  <2> QED BY <1>11, <2>1, <2>2
<1>12. ASSUME PlatformCrash \/ AgentRestart PROVE FALSE
  BY <1>0, <1>12 DEF PlatformCrash, AgentRestart
<1> QED BY <1>3, <1>4, <1>5, <1>6, <1>7, <1>8, <1>9, <1>10, <1>11, <1>12 DEF Next, Publication

\* No publication loses what another one, or a rollback, put into the index
\* since its candidate was built: activate compares the pointer under the lock.
THEOREM NoPublicationLost == Spec => NothingLost
<1> DEFINE Step == \A r \in DOMAIN release :
                      release[r].step = "activate" /\ release'[r].step = "done" /\ faults' = faults
                        => \E v \in release[r].members :
                             release[r].members = {m \in Members(current) : DocOf[m] # DocOf[v]} \cup {v}
<1>1. ASSUME IndexInv, [Next]_vars PROVE [Step]_vars
  BY <1>1, KnowledgeAssumption, SwitchReplaces DEF Replaces
<1> QED BY <1>1, IndexInvariance, PTL DEF Spec, NothingLost

=============================================================================
