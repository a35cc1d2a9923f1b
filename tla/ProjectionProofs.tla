-------------------------- MODULE ProjectionProofs --------------------------
(***************************************************************************)
(* For any pages, sessions, limits and failures: the platform's row claims  *)
(* neither a success that is not stored nor a cancellation the Agent does   *)
(* not follow (RowInvariant), no writer of it undoes another (NeverUndone),   *)
(* and it reads the Agent's stream as OrderedDelivery says.                  *)
(***************************************************************************)
EXTENDS RunProjection, SequenceTheorems, TLAPS

\* The transaction that holds the row finds it as it was read, and the Agent
\* has done what it answered.
Held ==
    /\ call.by = "submit" => row.status = "submitting" /\ call.reply \in {"none", "queued"}
    /\ call.by = "cancel" =>
          /\ row = call.snap /\ row.status \notin Terminal
          /\ call.reply \in {"none", "running", "cancelled"}
          /\ call.reply = "cancelled" => agent.status = "cancelled"
          /\ call.reply = "running" => agent.stop

\* A Run that is asked to stop runs or has been cancelled.
Stopping == agent.stop => agent.status \in {"running", "cancelled"}

\* The end of the Run is the last event, and says what the Run has become.
Ending ==
    /\ \A i \in DOMAIN stream : stream[i] \in Terminal =>
          agent.status = stream[i] /\ i = Len(stream) /\ agent.due = <<>>
    /\ \A i \in DOMAIN agent.due : agent.due[i] \in Terminal =>
          agent.status = agent.due[i] /\ i = Len(agent.due)

\* Until the row has its final status nobody is ahead of it, and what was
\* delivered up to its position is stored.
Behind(s) == session[s].pos <= IF session[s].at = "failing" THEN row.seq + 1 ELSE row.seq
Seen ==
    row.status \notin Terminal =>
        /\ row.seq <= Len(stream)
        /\ \A i \in DOMAIN stream : i <= row.seq /\ stream[i] = "deliverable" => i \in saved
        /\ \A s \in Sessions : Behind(s)
        /\ \A t \in Tabs : tab[t].got <= row.seq

\* After a success nothing is to come.
Quiet == row.status = "succeeded" => agent.due = <<>>

\* A page that follows a session has not used up its tries.
Trying == \A t \in Tabs : tab[t].session # None => tab[t].tries <= MaxReconnects

RowInv == RowInvariant /\ Held /\ Stopping /\ Ending /\ Seen /\ Quiet /\ Trying

-----------------------------------------------------------------------------
(* The Agent's events.                                                      *)

LEMMA Statuses ==
    /\ Terminal \subseteq Done /\ Done \subseteq Kind /\ Done \subseteq AgentStatus
    /\ AgentStatus \subseteq RowStatus
    /\ "run_started" \in Kind \ Done /\ "clarification_required" \in Kind \ Done
    /\ "deliverable" \in Kind \ Done /\ "waiting_input" \in Done \ Terminal
    /\ {"none", "queued", "running"} \cap Done = {}
BY DEF Terminal, Done, Kind, AgentStatus, RowStatus

\* An event is appended to a list of events.
LEMMA OneMore ==
    ASSUME NEW q \in Seq(Kind), NEW e \in Kind
    PROVE  /\ Append(q, e) \in Seq(Kind) /\ Len(Append(q, e)) = Len(q) + 1 /\ Len(q) \in Nat
           /\ DOMAIN q = 1..Len(q) /\ DOMAIN Append(q, e) = 1..(Len(q) + 1)
           /\ Append(q, e)[Len(q) + 1] = e
           /\ \A i \in DOMAIN q : Append(q, e)[i] = q[i]
           /\ Append(q, e) # <<>>
<1>1. Len(q) \in Nat /\ DOMAIN q = 1..Len(q) /\ Append(q, e) \in Seq(Kind)
      /\ Len(Append(q, e)) = Len(q) + 1
  BY LenProperties
<1>2. DOMAIN Append(q, e) = 1..(Len(q) + 1)
  BY <1>1, LenProperties
<1>3. Append(q, e) # <<>>
  BY <1>1, EmptySeq
<1> QED BY <1>1, <1>2, <1>3

\* What the Agent has to publish when a graph returns, after what is due.
EndEvents(status) ==
    CASE status = "succeeded" -> <<"deliverable", status>>
      [] status = "waiting_input" -> <<"clarification_required", status>>
      [] OTHER -> <<status>>

LEMMA EndsLast ==
    ASSUME NEW q \in Seq(Kind), NEW status \in Done,
           \A i \in DOMAIN q : q[i] \notin Terminal
    PROVE  LET d == q \o EndEvents(status)
           IN  /\ d \in Seq(Kind)
               /\ \A i \in DOMAIN d : d[i] \in Terminal => d[i] = status /\ i = Len(d)
<1> DEFINE e == EndEvents(status)
           d == q \o e
<1>1. /\ e \in Seq(Kind) /\ Len(e) \in Nat
      /\ \A i \in 1..Len(e) : e[i] \in Terminal => e[i] = status /\ i = Len(e)
  <2>1. CASE status = "succeeded"
    <3>1. e = <<"deliverable", status>>
      BY <2>1 DEF EndEvents
    <3>2. "deliverable" \in Kind /\ status \in Kind /\ "deliverable" \notin Terminal
      BY DEF Kind, Done, Terminal
    <3> QED BY <3>1, <3>2
  <2>2. CASE status = "waiting_input"
    <3>1. e = <<"clarification_required", status>>
      BY <2>2 DEF EndEvents
    <3>2. "clarification_required" \in Kind /\ status \in Kind /\ "clarification_required" \notin Terminal
      BY <2>2 DEF Kind, Terminal
    <3> QED BY <3>1, <3>2
  <2>3. CASE status \notin {"succeeded", "waiting_input"}
    <3>1. e = <<status>>
      BY <2>3 DEF EndEvents
    <3> QED BY <2>3, <3>1 DEF Kind, Done, Terminal
  <2> QED BY <2>1, <2>2, <2>3
<1> HIDE DEF e
<1>2. Len(q) \in Nat /\ DOMAIN q = 1..Len(q)
  BY LenProperties
<1>3. /\ d \in Seq(Kind) /\ Len(d) = Len(q) + Len(e) /\ DOMAIN d = 1..Len(d)
      /\ \A i \in 1..(Len(q) + Len(e)) : d[i] = IF i <= Len(q) THEN q[i] ELSE e[i - Len(q)]
  BY <1>1, ConcatProperties, LenProperties
<1> HIDE DEF d
<1>4. ASSUME NEW i \in DOMAIN d, d[i] \in Terminal PROVE d[i] = status /\ i = Len(d)
  <2>1. i \notin 1..Len(q)
    BY <1>2, <1>3, <1>4
  <2>2. i - Len(q) \in 1..Len(e) /\ d[i] = e[i - Len(q)]
    BY <1>1, <1>2, <1>3, <2>1
  <2> QED BY <1>1, <1>2, <1>3, <1>4, <2>2
<1> QED BY <1>3, <1>4 DEF d, e

-----------------------------------------------------------------------------
(* Steps that leave the row alone: sessions and pages.                      *)

LEMMA LookingKeeps ==
    ASSUME RowInv, UNCHANGED <<agent, stream, row, saved, call>>,
           session' \in [Sessions -> Session], tab' \in [Tabs -> Tab], drops' \in 0 .. MaxDrops,
           row.status \notin Terminal =>
              /\ \A s \in Sessions : session'[s].pos
                    <= IF session'[s].at = "failing" THEN row.seq + 1 ELSE row.seq
              /\ \A t \in Tabs : tab'[t].got <= row.seq,
           \A t \in Tabs : tab'[t].session # None => tab'[t].tries <= MaxReconnects
    PROVE  RowInv'
<1>1. TypeOK'
  BY DEF RowInv, RowInvariant, TypeOK
<1>2. SucceededComplete' /\ CancelledStops'
  BY DEF RowInv, RowInvariant, SucceededComplete, CancelledStops
<1>3. Held' /\ Stopping' /\ Ending' /\ Quiet'
  BY DEF RowInv, Held, Stopping, Ending, Quiet
<1>4. Seen' /\ Trying'
  BY DEF RowInv, Seen, Behind, Trying
<1> QED BY <1>1, <1>2, <1>3, <1>4 DEF RowInv, RowInvariant

\* One session goes on, the pages see nothing of it yet.
LEMMA OneSession ==
    ASSUME RowInv, NEW s \in Sessions, NEW e \in Session,
           session' = [session EXCEPT ![s] = e],
           UNCHANGED <<agent, stream, row, saved, call, tab>>, drops' \in 0 .. MaxDrops,
           row.status \notin Terminal =>
              e.pos <= IF e.at = "failing" THEN row.seq + 1 ELSE row.seq
    PROVE  RowInv'
<1>1. session \in [Sessions -> Session]
  BY DEF RowInv, RowInvariant, TypeOK
<1>2. \A x \in Sessions : session'[x] = IF x = s THEN e ELSE session[x]
  BY <1>1
<1>3. session' \in [Sessions -> Session]
  BY <1>1
<1>4. row.status \notin Terminal =>
         \A x \in Sessions : session'[x].pos
            <= IF session'[x].at = "failing" THEN row.seq + 1 ELSE row.seq
  BY <1>2 DEF RowInv, Seen, Behind
<1>5. row.status \notin Terminal => \A t \in Tabs : tab'[t].got <= row.seq
  BY DEF RowInv, Seen
<1> QED BY <1>3, <1>4, <1>5, LookingKeeps DEF RowInv, RowInvariant, TypeOK, Trying

LEMMA NoSessionIs == NoSession \in Session /\ NoSession.at = "off" /\ NoSession.pos = 0
BY DEF NoSession, Session

LEMMA SessionStepsKeep ==
    ASSUME ProjectionAssumption, RowInv, NEW s \in Sessions,
           ProjectionFails(s) \/ SendEvent(s) \/ Complete(s) \/ StreamLost(s) \/ Dispose(s)
    PROVE  RowInv'
<1>1. session \in [Sessions -> Session] /\ session[s] \in Session /\ row \in Row
      /\ stream \in Seq(Kind) /\ drops \in 0 .. MaxDrops
  BY DEF RowInv, RowInvariant, TypeOK
<1>2. row.status \notin Terminal => Behind(s)
  BY DEF RowInv, Seen
<1>3. CASE ProjectionFails(s)
  <2> DEFINE e == [session[s] EXCEPT !.at = "failing", !.pos = session[s].pos + 1]
  <2>1. session' = [session EXCEPT ![s] = e]
    BY <1>1, <1>3 DEF ProjectionFails, Session
  <2>2. e \in Session /\ e.at = "failing" /\ e.pos = session[s].pos + 1
    <3>1. session[s].pos + 1 \in Nat
      BY <1>1 DEF Session
    <3> QED BY <1>1, <3>1 DEF Session
  <2>3. row.status \notin Terminal => session[s].pos + 1 <= row.seq + 1
    BY <1>1, <1>2, <1>3 DEF ProjectionFails, Behind, Session, Row
  <2>4. UNCHANGED <<agent, stream, row, saved, call, tab, drops>>
    BY <1>3 DEF ProjectionFails
  <2> HIDE DEF e
  <2> QED BY <1>1, <2>1, <2>2, <2>3, <2>4, OneSession
<1>4. CASE SendEvent(s)
  <2>1. PICK at \in {"open", "failing"} : session' = [session EXCEPT ![s].at = at]
    BY <1>4 DEF SendEvent
  <2> DEFINE e == [session[s] EXCEPT !.at = at]
  <2>2. session' = [session EXCEPT ![s] = e] /\ e \in Session /\ e.at = at
        /\ e.pos = session[s].pos /\ session[s].pos \in Nat
    BY <1>1, <2>1 DEF Session
  <2>3. row.status \notin Terminal => session[s].pos <= row.seq /\ row.seq \in Nat
    BY <1>1, <1>2, <1>4 DEF SendEvent, Behind, Row
  <2>4. UNCHANGED <<agent, stream, row, saved, call, tab, drops>>
    BY <1>4 DEF SendEvent
  <2> HIDE DEF e
  <2>5. row.status \notin Terminal => e.pos <= IF e.at = "failing" THEN row.seq + 1 ELSE row.seq
    BY <2>2, <2>3
  <2> QED BY <1>1, <2>2, <2>4, <2>5, OneSession
<1>5. CASE Complete(s) \/ StreamLost(s)
  <2>1. PICK at \in {"off", "ended"} : session' = [session EXCEPT ![s].at = at]
    BY <1>5 DEF Complete, StreamLost
  <2> DEFINE e == [session[s] EXCEPT !.at = at]
  <2>2. session' = [session EXCEPT ![s] = e] /\ e \in Session /\ e.at = at
        /\ e.pos = session[s].pos
    BY <1>1, <2>1 DEF Session
  <2>3. row.status \notin Terminal => session[s].pos <= row.seq
    BY <1>1, <1>2, <1>5 DEF Complete, StreamLost, Behind
  <2>4. UNCHANGED <<agent, stream, row, saved, call, tab>>
    BY <1>5 DEF Complete, StreamLost
  <2>5. drops' \in 0 .. MaxDrops
    BY <1>1, <1>5 DEF Complete, StreamLost, ProjectionAssumption
  <2> HIDE DEF e
  <2> QED BY <2>1, <2>2, <2>3, <2>4, <2>5, OneSession
<1>6. CASE Dispose(s)
  <2>1. session' = [session EXCEPT ![s] = NoSession]
        /\ UNCHANGED <<agent, stream, row, saved, call, tab, drops>>
    BY <1>6 DEF Dispose
  <2>2. 0 <= IF NoSession.at = "failing" THEN row.seq + 1 ELSE row.seq
    <3>1. row.seq \in Nat
      BY <1>1 DEF Row
    <3> QED BY <3>1
  <2>3. row.status \notin Terminal =>
           NoSession.pos <= IF NoSession.at = "failing" THEN row.seq + 1 ELSE row.seq
    BY <2>2, NoSessionIs
  <2> QED BY <1>1, <2>1, <2>3, NoSessionIs, OneSession
<1> QED BY <1>3, <1>4, <1>5, <1>6

\* One page goes on, and with it at most one session.
LEMMA OnePage ==
    ASSUME RowInv, NEW t \in Tabs, NEW e \in Tab, tab' = [tab EXCEPT ![t] = e],
           NEW s \in Sessions, NEW k \in Session,
           session' \in {session, [session EXCEPT ![s] = k]},
           UNCHANGED <<agent, stream, row, saved, call>>, drops' \in 0 .. MaxDrops,
           row.status \notin Terminal =>
              e.got <= row.seq /\ k.pos <= IF k.at = "failing" THEN row.seq + 1 ELSE row.seq,
           e.session # None => e.tries <= MaxReconnects
    PROVE  RowInv'
<1>1. session \in [Sessions -> Session] /\ tab \in [Tabs -> Tab]
  BY DEF RowInv, RowInvariant, TypeOK
<1>2. \A x \in Sessions : session'[x] = session[x] \/ session'[x] = k
  BY <1>1
<1>3. \A u \in Tabs : tab'[u] = IF u = t THEN e ELSE tab[u]
  BY <1>1
<1>4. session' \in [Sessions -> Session] /\ tab' \in [Tabs -> Tab]
  BY <1>1
<1>5. row.status \notin Terminal =>
         /\ \A x \in Sessions : session'[x].pos
               <= IF session'[x].at = "failing" THEN row.seq + 1 ELSE row.seq
         /\ \A u \in Tabs : tab'[u].got <= row.seq
  BY <1>2, <1>3 DEF RowInv, Seen, Behind
<1>6. \A u \in Tabs : tab'[u].session # None => tab'[u].tries <= MaxReconnects
  BY <1>3 DEF RowInv, Trying
<1> QED BY <1>4, <1>5, <1>6, LookingKeeps

LEMMA LargerIs == ASSUME NEW a \in Nat, NEW b \in Nat
                  PROVE  /\ Larger(a, b) \in Nat /\ a <= Larger(a, b) /\ b <= Larger(a, b)
                         /\ \A c \in Nat : a <= c /\ b <= c => Larger(a, b) <= c
BY DEF Larger

LEMMA ConnectKeeps ==
    ASSUME ProjectionAssumption, RowInv, NEW t \in Tabs, Connect(t)
    PROVE  RowInv'
<1>1. /\ tab \in [Tabs -> Tab] /\ tab[t] \in Tab /\ row.seq \in Nat /\ drops \in 0 .. MaxDrops
      /\ session \in [Sessions -> Session]
  BY DEF RowInv, RowInvariant, TypeOK, Row
<1>2. PICK s \in Sessions :
         /\ session' = [session EXCEPT ![s] = [at |-> "open", pos |-> ResumeAt(t),
                                              read |-> ResumeAt(t),
                                              replay |-> Replayed(ResumeAt(t)), alive |-> TRUE]]
         /\ tab' = [tab EXCEPT ![t].session = s]
  BY DEF Connect
<1> DEFINE k == [at |-> "open", pos |-> ResumeAt(t), read |-> ResumeAt(t),
                 replay |-> Replayed(ResumeAt(t)), alive |-> TRUE]
           e == [tab[t] EXCEPT !.session = s]
<1>3. ResumeAt(t) \in Nat /\ (tab[t].got <= row.seq => ResumeAt(t) <= row.seq)
  <2>1. tab[t].got \in Nat
    BY <1>1 DEF Tab
  <2> QED BY <1>1, <2>1 DEF ResumeAt, Larger
<1>4. k \in Session /\ k.pos = ResumeAt(t) /\ k.at = "open"
  <2>1. Len(stream) \in Nat
    BY LenProperties DEF RowInv, RowInvariant, TypeOK
  <2> QED BY <1>3, <2>1 DEF Session, Replayed
<1>5. e \in Tab /\ e.got = tab[t].got /\ e.tries = tab[t].tries /\ tab' = [tab EXCEPT ![t] = e]
  BY <1>1, <1>2 DEF Tab
<1>6. session' = [session EXCEPT ![s] = k]
  BY <1>2
<1> HIDE DEF k, e
<1>7. row.status \notin Terminal =>
         e.got <= row.seq /\ k.pos <= IF k.at = "failing" THEN row.seq + 1 ELSE row.seq
  BY <1>3, <1>4, <1>5 DEF RowInv, Seen
<1>8. e.tries <= MaxReconnects
  BY <1>5 DEF Connect, MayReconnect
<1>9. UNCHANGED <<agent, stream, row, saved, call, drops>>
  BY DEF Connect
<1> QED BY <1>1, <1>4, <1>5, <1>6, <1>7, <1>8, <1>9, OnePage

LEMMA ReadEventKeeps ==
    ASSUME ProjectionAssumption, RowInv, NEW t \in Tabs, ReadEvent(t)
    PROVE  RowInv'
<1> DEFINE s == tab[t].session
           n == session[s].read + 1
           last == stream[n] \in Done \cup {"clarification_required"}
           k == [session[s] EXCEPT !.read = n, !.alive = ~last]
           e == [at |-> IF last THEN "finished" ELSE "following", session |-> IF last THEN None ELSE s,
                 got |-> Larger(tab[t].got, n), tries |-> tab[t].tries]
<1>1. /\ tab \in [Tabs -> Tab] /\ tab[t] \in Tab /\ row.seq \in Nat /\ drops \in 0 .. MaxDrops
      /\ session \in [Sessions -> Session]
  BY DEF RowInv, RowInvariant, TypeOK, Row
<1>2. s \in Sessions /\ session[s] \in Session
  BY <1>1 DEF ReadEvent, Tab
<1>3. n \in Nat /\ n <= SentOn(s)
  BY <1>2, SMTT(30) DEF ReadEvent, Session
<1>4. session' = [session EXCEPT ![s] = k] /\ tab' = [tab EXCEPT ![t] = e]
  BY <1>1, <1>2 DEF ReadEvent, Session
<1>5. k \in Session /\ k.pos = session[s].pos /\ k.at = session[s].at
  BY <1>2, <1>3 DEF Session
<1>6. Larger(tab[t].got, n) \in Nat /\ tab[t].tries \in 0 .. (MaxReconnects + 1) /\ tab[t].got \in Nat
  BY <1>1, <1>3, LargerIs DEF Tab
<1>7. e \in Tab /\ e.got = Larger(tab[t].got, n) /\ e.tries = tab[t].tries
  BY <1>2, <1>6 DEF Tab
<1>8. tab[t].tries <= MaxReconnects
  BY DEF RowInv, Trying, ReadEvent
<1>9. ASSUME row.status \notin Terminal PROVE n <= row.seq /\ Behind(s) /\ tab[t].got <= row.seq
  <2>1. Behind(s) /\ tab[t].got <= row.seq
    BY <1>2, <1>9 DEF RowInv, Seen
  <2>2. SentOn(s) <= row.seq
    BY <1>1, <1>2, <2>1 DEF Behind, SentOn, Session
  <2> QED BY <1>1, <1>2, <1>3, <2>1, <2>2 DEF SentOn, Session
<1>10. UNCHANGED <<agent, stream, row, saved, call, drops>>
  BY DEF ReadEvent
<1> HIDE DEF k, e, n
<1>11. row.status \notin Terminal =>
         e.got <= row.seq /\ k.pos <= IF k.at = "failing" THEN row.seq + 1 ELSE row.seq
  <2> SUFFICES ASSUME row.status \notin Terminal
               PROVE  e.got <= row.seq /\ k.pos <= IF k.at = "failing" THEN row.seq + 1 ELSE row.seq
    OBVIOUS
  <2>1. n <= row.seq /\ Behind(s) /\ tab[t].got <= row.seq
    BY <1>9
  <2>2. e.got <= row.seq
    <3>1. row.seq \in Nat /\ tab[t].got \in Nat /\ tab[t].got <= row.seq /\ n <= row.seq /\ n \in Nat
      BY <1>1, <1>3, <1>6, <2>1
    <3>2. \A a, b, c \in Nat : a <= c /\ b <= c => Larger(a, b) <= c
      BY LargerIs
    <3>3. Larger(tab[t].got, n) <= row.seq
      BY <3>1, <3>2
    <3> QED BY <1>7, <3>3
  <2> QED BY <1>5, <2>1, <2>2, Zenon DEF Behind
<1> QED BY <1>1, <1>2, <1>4, <1>5, <1>7, <1>8, <1>10, <1>11, OnePage

\* A page lets go of its session, broken or ended.
LEMMA LetGoKeeps ==
    ASSUME ProjectionAssumption, RowInv, NEW t \in Tabs, EndOfStream(t) \/ Drop(t)
    PROVE  RowInv'
<1> DEFINE s == tab[t].session
           k == [session[s] EXCEPT !.alive = FALSE]
           e == [tab[t] EXCEPT !.session = None, !.tries = @ + 1]
<1>1. /\ tab \in [Tabs -> Tab] /\ tab[t] \in Tab /\ row.seq \in Nat /\ drops \in 0 .. MaxDrops
      /\ session \in [Sessions -> Session]
  BY DEF RowInv, RowInvariant, TypeOK, Row
<1>2. s # None /\ s \in Sessions /\ session[s] \in Session
  BY <1>1 DEF EndOfStream, Drop, Tab
<1>3. session' = [session EXCEPT ![s] = k] /\ tab' = [tab EXCEPT ![t] = e]
  BY <1>1 DEF EndOfStream, Drop
<1>4. k \in Session /\ k.pos = session[s].pos /\ k.at = session[s].at
  BY <1>2 DEF Session
<1>5. tab[t].tries + 1 \in 0 .. (MaxReconnects + 1)
  BY <1>1, <1>2 DEF Tab, RowInv, Trying, ProjectionAssumption
<1>6. e \in Tab /\ e.got = tab[t].got /\ e.session = None
  BY <1>1, <1>5 DEF Tab
<1>7. UNCHANGED <<agent, stream, row, saved, call>> /\ drops' \in 0 .. MaxDrops
  BY <1>1 DEF EndOfStream, Drop, ProjectionAssumption
<1> HIDE DEF k, e
<1>8. row.status \notin Terminal =>
         e.got <= row.seq /\ k.pos <= IF k.at = "failing" THEN row.seq + 1 ELSE row.seq
  BY <1>2, <1>4, <1>6 DEF RowInv, Seen, Behind
<1> QED BY <1>2, <1>3, <1>4, <1>6, <1>7, <1>8, OnePage

LEMMA ReloadKeeps ==
    ASSUME ProjectionAssumption, RowInv, NEW t \in Tabs, Reload(t)
    PROVE  RowInv'
<1> DEFINE s == tab[t].session
           k == [session[s] EXCEPT !.alive = FALSE]
           e == [at |-> "following", session |-> None, got |-> row.seq, tries |-> 0]
<1>1. /\ tab \in [Tabs -> Tab] /\ tab[t] \in Tab /\ row.seq \in Nat /\ drops \in 0 .. MaxDrops
      /\ session \in [Sessions -> Session]
  BY DEF RowInv, RowInvariant, TypeOK, Row
<1>2. e \in Tab
  BY <1>1 DEF Tab, ProjectionAssumption
<1>3. UNCHANGED <<agent, stream, row, saved, call>> /\ drops' \in 0 .. MaxDrops
      /\ tab' = [tab EXCEPT ![t] = e]
  BY <1>1 DEF Reload, ProjectionAssumption
<1>4. CASE s # None
  <2>1. s \in Sessions /\ session[s] \in Session
    BY <1>1, <1>4 DEF Tab
  <2>2. k \in Session /\ k.pos = session[s].pos /\ k.at = session[s].at
        /\ session' = [session EXCEPT ![s] = k]
    BY <1>4, <2>1 DEF Reload, Session
  <2>3. row.status \notin Terminal =>
           e.got <= row.seq /\ k.pos <= IF k.at = "failing" THEN row.seq + 1 ELSE row.seq
    BY <1>1, <2>1, <2>2 DEF RowInv, Seen, Behind
  <2> HIDE DEF k
  <2>4. e.session = None
    OBVIOUS
  <2> QED BY <1>2, <1>3, <2>1, <2>2, <2>3, <2>4, OnePage
<1>5. CASE s = None
  <2>1. session' = session
    BY <1>5 DEF Reload
  <2>2. \A u \in Tabs : tab'[u] = IF u = t THEN e ELSE tab[u]
    BY <1>1, <1>3
  <2>3. session' \in [Sessions -> Session] /\ tab' \in [Tabs -> Tab]
    BY <1>1, <1>2, <1>3, <2>1
  <2>4. row.status \notin Terminal =>
           /\ \A x \in Sessions : session'[x].pos
                 <= IF session'[x].at = "failing" THEN row.seq + 1 ELSE row.seq
           /\ \A u \in Tabs : tab'[u].got <= row.seq
    BY <1>1, <2>1, <2>2 DEF RowInv, Seen, Behind
  <2>5. \A u \in Tabs : tab'[u].session # None => tab'[u].tries <= MaxReconnects
    BY <2>2 DEF RowInv, Trying
  <2> QED BY <1>3, <2>3, <2>4, <2>5, LookingKeeps
<1> QED BY <1>4, <1>5

-----------------------------------------------------------------------------
(* Steps of the Agent's Run.                                                *)

LEMMA AgentKeeps ==
    ASSUME RowInv, row.status # "succeeded",
           agent' \in [status : AgentStatus, stop : BOOLEAN, due : Seq(Kind)],
           stream' \in Seq(Kind), Len(stream) <= Len(stream'),
           \A i \in DOMAIN stream : stream'[i] = stream[i],
           call' \in [by : {"nobody", "submit", "cancel"}, snap : Row, reply : AgentStatus],
           UNCHANGED <<row, saved, session, tab, drops>>,
           CancelledStops', Held', Stopping', Ending'
    PROVE  RowInv'
<1>1. /\ Len(stream) \in Nat /\ DOMAIN stream = 1..Len(stream)
      /\ Len(stream') \in Nat /\ DOMAIN stream' = 1..Len(stream')
      /\ row.seq \in Nat /\ saved \subseteq DOMAIN stream
  BY LenProperties DEF RowInv, RowInvariant, TypeOK, Row
<1>2. DOMAIN stream \subseteq DOMAIN stream'
  BY <1>1
<1>3. TypeOK'
  BY <1>1, <1>2 DEF RowInv, RowInvariant, TypeOK
<1>4. SucceededComplete' /\ Quiet'
  BY DEF SucceededComplete, Quiet
<1>5. Seen'
  <2>1. SUFFICES ASSUME row.status \notin Terminal
                 PROVE  /\ row.seq <= Len(stream')
                        /\ \A i \in DOMAIN stream' :
                              i <= row.seq /\ stream'[i] = "deliverable" => i \in saved
    BY DEF Seen, RowInv, Behind
  <2>2. /\ row.seq <= Len(stream)
        /\ \A i \in DOMAIN stream : i <= row.seq /\ stream[i] = "deliverable" => i \in saved
    BY <2>1 DEF RowInv, Seen
  <2>3. \A i \in DOMAIN stream' : i <= row.seq => i \in DOMAIN stream
    BY <1>1, <2>2
  <2> QED BY <1>1, <2>2, <2>3
<1>6. Trying'
  BY DEF RowInv, Trying
<1> QED BY <1>3, <1>4, <1>5, <1>6 DEF RowInv, RowInvariant

\* What the invariant says of a Run that has not ended.
LEMMA NotEnded ==
    ASSUME RowInv, agent.status \notin Terminal
    PROVE  /\ \A i \in DOMAIN stream : stream[i] \notin Terminal
           /\ \A i \in DOMAIN agent.due : agent.due[i] \notin Terminal
           /\ row.status # "succeeded"
           /\ row.status = "cancelled" => agent.status = "running" /\ agent.stop
           /\ ~(call.by = "cancel" /\ call.reply = "cancelled")
<1>1. \A i \in DOMAIN stream : stream[i] \notin Terminal
  BY DEF RowInv, Ending
<1>2. \A i \in DOMAIN agent.due : agent.due[i] \notin Terminal
  BY DEF RowInv, Ending
<1>3. row.status # "succeeded" /\ (row.status = "cancelled" => agent.status = "running" /\ agent.stop)
  BY DEF RowInv, RowInvariant, SucceededComplete, CancelledStops, Terminal
<1>4. ~(call.by = "cancel" /\ call.reply = "cancelled")
  BY DEF RowInv, Held, Terminal
<1> QED BY <1>1, <1>2, <1>3, <1>4

LEMMA AgentTypes ==
    ASSUME RowInv
    PROVE  /\ agent \in [status : AgentStatus, stop : BOOLEAN, due : Seq(Kind)]
           /\ agent.status \in AgentStatus /\ agent.stop \in BOOLEAN /\ agent.due \in Seq(Kind)
           /\ stream \in Seq(Kind) /\ Len(stream) \in Nat
           /\ call \in [by : {"nobody", "submit", "cancel"}, snap : Row, reply : AgentStatus]
BY LenProperties DEF RowInv, RowInvariant, TypeOK

LEMMA AgentStartKeeps == ASSUME RowInv, AgentStart PROVE RowInv'
<1>1. agent.status = "queued" /\ agent.status \notin Terminal /\ ~agent.stop
  BY DEF AgentStart, Terminal, RowInv, Stopping
<1>2. agent' = [agent EXCEPT !.status = "running", !.due = Append(@, "run_started")]
      /\ UNCHANGED <<stream, row, saved, call, session, tab, drops>>
  BY DEF AgentStart
<1>3. Append(agent.due, "run_started") \in Seq(Kind)
  BY AgentTypes, OneMore DEF Kind
<1>4. /\ agent' \in [status : AgentStatus, stop : BOOLEAN, due : Seq(Kind)]
      /\ agent'.status = "running" /\ agent'.stop = agent.stop
      /\ agent'.due = Append(agent.due, "run_started")
  BY <1>2, <1>3, AgentTypes DEF AgentStatus
<1>5. \A i \in DOMAIN agent'.due : agent'.due[i] \notin Terminal
  <2>1. \A i \in DOMAIN agent.due : agent.due[i] \notin Terminal
    BY <1>1, NotEnded
  <2>2. "run_started" \in Kind /\ "run_started" \notin Terminal
    BY DEF Kind, Terminal
  <2> QED BY <1>4, <2>1, <2>2, AgentTypes, OneMore
<1>6. CancelledStops' /\ Held' /\ Stopping'
  BY <1>1, <1>2, <1>4, NotEnded DEF CancelledStops, Held, Stopping, RowInv
<1>7. Ending'
  BY <1>1, <1>2, <1>5, NotEnded DEF Ending
<1> QED BY <1>1, <1>2, <1>4, <1>6, <1>7, NotEnded, AgentTypes, AgentKeeps

LEMMA AgentEndKeeps == ASSUME RowInv, NEW status \in Done, AgentEnd(status) PROVE RowInv'
<1>1. agent.status = "running" /\ agent.status \notin Terminal /\ (agent.stop => status = "cancelled")
  BY DEF AgentEnd, Terminal
<1>2. agent' = [agent EXCEPT !.status = status, !.due = @ \o EndEvents(status)]
      /\ UNCHANGED <<stream, row, saved, call, session, tab, drops>>
  BY DEF AgentEnd, EndEvents
<1>3. /\ agent.due \o EndEvents(status) \in Seq(Kind)
      /\ \A i \in DOMAIN (agent.due \o EndEvents(status)) :
            (agent.due \o EndEvents(status))[i] \in Terminal =>
                (agent.due \o EndEvents(status))[i] = status
                /\ i = Len(agent.due \o EndEvents(status))
  BY <1>1, NotEnded, AgentTypes, EndsLast
<1>4. /\ agent' \in [status : AgentStatus, stop : BOOLEAN, due : Seq(Kind)]
      /\ agent'.status = status /\ agent'.stop = agent.stop
      /\ agent'.due = agent.due \o EndEvents(status)
  BY <1>2, <1>3, AgentTypes, Statuses
<1>5. CancelledStops' /\ Held' /\ Stopping'
  BY <1>1, <1>2, <1>4, NotEnded DEF CancelledStops, Held, Stopping, RowInv
<1>6. Ending'
  BY <1>1, <1>2, <1>3, <1>4, NotEnded DEF Ending
<1> QED BY <1>1, <1>2, <1>4, <1>5, <1>6, NotEnded, AgentTypes, AgentKeeps

LEMMA AgentPublishKeeps == ASSUME RowInv, AgentPublish PROVE RowInv'
<1> DEFINE e == Head(agent.due)
<1>1. /\ agent.due # <<>> /\ stream' = Append(stream, e)
      /\ agent' = [agent EXCEPT !.due = Tail(@)]
      /\ UNCHANGED <<row, saved, call, session, tab, drops>>
  BY DEF AgentPublish
<1>2. /\ e \in Kind /\ e = agent.due[1] /\ 1 \in DOMAIN agent.due
      /\ Tail(agent.due) \in Seq(Kind) /\ Len(agent.due) \in Nat \ {0}
      /\ Len(Tail(agent.due)) = Len(agent.due) - 1
      /\ DOMAIN agent.due = 1..Len(agent.due)
      /\ DOMAIN Tail(agent.due) = 1..(Len(agent.due) - 1)
      /\ \A i \in 1..(Len(agent.due) - 1) : Tail(agent.due)[i] = agent.due[i + 1]
  <2>1. /\ e \in Kind /\ Tail(agent.due) \in Seq(Kind)
        /\ Len(Tail(agent.due)) = Len(agent.due) - 1
        /\ \A i \in 1..Len(Tail(agent.due)) : Tail(agent.due)[i] = agent.due[i + 1]
    BY <1>1, AgentTypes, HeadTailProperties
  <2>2. Len(agent.due) \in Nat \ {0} /\ DOMAIN agent.due = 1..Len(agent.due)
        /\ DOMAIN Tail(agent.due) = 1..Len(Tail(agent.due))
    BY <1>1, <2>1, AgentTypes, LenProperties, EmptySeq
  <2> QED BY <2>1, <2>2
<1> HIDE DEF e
<1>3. /\ agent' \in [status : AgentStatus, stop : BOOLEAN, due : Seq(Kind)]
      /\ agent'.status = agent.status /\ agent'.stop = agent.stop /\ agent'.due = Tail(agent.due)
  BY <1>1, <1>2, AgentTypes
<1>4. /\ stream' \in Seq(Kind) /\ Len(stream') = Len(stream) + 1
      /\ DOMAIN stream = 1..Len(stream) /\ DOMAIN stream' = 1..(Len(stream) + 1)
      /\ stream'[Len(stream) + 1] = e /\ \A i \in DOMAIN stream : stream'[i] = stream[i]
  BY <1>1, <1>2, AgentTypes, OneMore
<1>5. \A i \in DOMAIN stream : stream[i] \notin Terminal
  BY <1>1 DEF RowInv, Ending
<1>6. e \in Terminal => agent.status = e /\ Len(agent.due) = 1
  BY <1>2 DEF RowInv, Ending
<1>7. Ending'
  <2>1. ASSUME NEW i \in DOMAIN stream', stream'[i] \in Terminal
        PROVE  agent'.status = stream'[i] /\ i = Len(stream') /\ agent'.due = <<>>
    <3>1. i = Len(stream) + 1 /\ stream'[i] = e
      BY <1>4, <1>5, <2>1, AgentTypes
    <3>2. agent'.due = <<>>
      BY <1>2, <1>3, <1>6, <2>1, <3>1, EmptySeq
    <3> QED BY <1>3, <1>4, <1>6, <2>1, <3>1, <3>2
  <2>2. ASSUME NEW i \in DOMAIN agent'.due, agent'.due[i] \in Terminal
        PROVE  agent'.status = agent'.due[i] /\ i = Len(agent'.due)
    <3>1. i \in 1..(Len(agent.due) - 1) /\ agent'.due[i] = agent.due[i + 1]
          /\ i + 1 \in DOMAIN agent.due
      BY <1>2, <1>3, <2>2
    <3>2. agent.status = agent.due[i + 1] /\ i + 1 = Len(agent.due)
      BY <2>2, <3>1 DEF RowInv, Ending
    <3> QED BY <1>2, <1>3, <3>1, <3>2
  <2> QED BY <2>1, <2>2 DEF Ending
<1>8. row.status # "succeeded"
  BY <1>1 DEF RowInv, Quiet
<1>9. CancelledStops' /\ Held' /\ Stopping'
  BY <1>1, <1>3 DEF CancelledStops, Held, Stopping, RowInv, RowInvariant
<1>10. Len(stream) <= Len(stream')
  BY <1>4, AgentTypes
<1> QED BY <1>1, <1>3, <1>4, <1>7, <1>8, <1>9, <1>10, AgentTypes, AgentKeeps

LEMMA AgentAcceptKeeps == ASSUME RowInv, AgentAccept PROVE RowInv'
<1>1. /\ call.by = "submit" /\ agent.status = "none" /\ agent.status \notin Terminal /\ ~agent.stop
      /\ agent' = [agent EXCEPT !.status = "queued"] /\ call' = [call EXCEPT !.reply = "queued"]
      /\ UNCHANGED <<stream, row, saved, session, tab, drops>>
  BY DEF AgentAccept, Terminal, RowInv, Stopping
<1>2. /\ agent' \in [status : AgentStatus, stop : BOOLEAN, due : Seq(Kind)]
      /\ agent'.status = "queued" /\ agent'.stop = agent.stop /\ agent'.due = agent.due
      /\ call' \in [by : {"nobody", "submit", "cancel"}, snap : Row, reply : AgentStatus]
      /\ call'.by = "submit" /\ call'.reply = "queued"
  BY <1>1, AgentTypes DEF AgentStatus
<1>3. CancelledStops' /\ Held' /\ Stopping'
  BY <1>1, <1>2, NotEnded DEF CancelledStops, Held, Stopping, RowInv
<1>4. Ending'
  BY <1>1, <1>2, NotEnded DEF Ending
<1> QED BY <1>1, <1>2, <1>3, <1>4, NotEnded, AgentTypes, AgentKeeps

LEMMA AgentCancelKeeps == ASSUME RowInv, AgentCancel PROVE RowInv'
<1>1. /\ call.by = "cancel" /\ row = call.snap /\ row.status \notin Terminal
      /\ UNCHANGED <<stream, row, saved, session, tab, drops>>
  BY DEF AgentCancel, RowInv, Held
<1>2. CancelledStops' /\ row.status # "succeeded"
  BY <1>1 DEF CancelledStops, Terminal
<1>3. CASE /\ agent.status \in {"queued", "waiting_input"}
           /\ agent' = [agent EXCEPT !.status = "cancelled", !.stop = TRUE,
                                     !.due = Append(@, "cancelled")]
           /\ call' = [call EXCEPT !.reply = "cancelled"]
  <2>1. agent.status \notin Terminal
    BY <1>3 DEF Terminal
  <2>2. "cancelled" \in Kind /\ "cancelled" \in AgentStatus
    BY DEF Kind, Done, Terminal, AgentStatus
  <2>3. /\ agent' \in [status : AgentStatus, stop : BOOLEAN, due : Seq(Kind)]
        /\ agent'.status = "cancelled" /\ agent'.stop = TRUE
        /\ agent'.due = Append(agent.due, "cancelled")
    BY <1>3, <2>2, AgentTypes, OneMore
  <2>4. /\ call' \in [by : {"nobody", "submit", "cancel"}, snap : Row, reply : AgentStatus]
        /\ call'.by = "cancel" /\ call'.reply = "cancelled" /\ call'.snap = call.snap
    BY <1>1, <1>3, <2>2, AgentTypes
  <2>5. Ending'
    <3>1. \A i \in DOMAIN agent'.due : agent'.due[i] \in Terminal =>
             agent'.status = agent'.due[i] /\ i = Len(agent'.due)
      <4>1. \A i \in DOMAIN agent.due : agent.due[i] \notin Terminal
        BY <2>1, NotEnded
      <4> QED BY <2>2, <2>3, <4>1, AgentTypes, OneMore
    <3> QED BY <1>1, <2>1, <3>1, NotEnded DEF Ending
  <2>6. Held' /\ Stopping'
    BY <1>1, <2>3, <2>4 DEF Held, Stopping
  <2> QED BY <1>1, <1>2, <2>3, <2>4, <2>5, <2>6, AgentTypes, AgentKeeps
<1>4. CASE /\ agent.status = "running"
           /\ agent' = [agent EXCEPT !.stop = TRUE]
           /\ call' = [call EXCEPT !.reply = "running"]
  <2>1. agent.status \notin Terminal
    BY <1>4 DEF Terminal
  <2>2. /\ agent' \in [status : AgentStatus, stop : BOOLEAN, due : Seq(Kind)]
        /\ agent'.status = "running" /\ agent'.stop = TRUE /\ agent'.due = agent.due
    BY <1>4, AgentTypes
  <2>3. /\ call' \in [by : {"nobody", "submit", "cancel"}, snap : Row, reply : AgentStatus]
        /\ call'.by = "cancel" /\ call'.reply = "running" /\ call'.snap = call.snap
    BY <1>1, <1>4, AgentTypes DEF AgentStatus
  <2>4. Ending'
    BY <1>1, <2>1, <2>2, NotEnded DEF Ending
  <2>5. Held' /\ Stopping'
    BY <1>1, <2>2, <2>3 DEF Held, Stopping
  <2> QED BY <1>1, <1>2, <2>2, <2>3, <2>4, <2>5, AgentTypes, AgentKeeps
<1>5. CASE /\ agent.status = "cancelled"
           /\ call' = [call EXCEPT !.reply = "cancelled"]
           /\ UNCHANGED agent
  <2>1. /\ call' \in [by : {"nobody", "submit", "cancel"}, snap : Row, reply : AgentStatus]
        /\ call'.by = "cancel" /\ call'.reply = "cancelled" /\ call'.snap = call.snap
    BY <1>1, <1>5, AgentTypes
  <2>2. Ending' /\ Stopping'
    BY <1>1, <1>5 DEF RowInv, Ending, Stopping
  <2>3. Held'
    BY <1>1, <1>5, <2>1 DEF Held
  <2> QED BY <1>1, <1>2, <1>5, <2>1, <2>2, <2>3, AgentTypes, AgentKeeps
<1> QED BY <1>3, <1>4, <1>5 DEF AgentCancel

-----------------------------------------------------------------------------
(* The transactions around a call to the Agent.                             *)

\* A row that keeps its position takes a status that is neither a success nor
\* one that what it showed forbids.
LEMMA CallKeeps ==
    ASSUME RowInv, row' \in Row, row'.seq = row.seq,
           row.status \notin Terminal \/ row' = row,
           call' \in [by : {"nobody", "submit", "cancel"}, snap : Row, reply : AgentStatus],
           UNCHANGED <<agent, stream, saved, session, tab, drops>>,
           row' = row \/ row'.status # "succeeded",
           CancelledStops', Held'
    PROVE  RowInv'
<1>1. TypeOK'
  BY DEF RowInv, RowInvariant, TypeOK
<1>2. SucceededComplete' /\ Quiet'
  BY DEF RowInv, RowInvariant, SucceededComplete, Quiet
<1>3. Stopping' /\ Ending' /\ Trying'
  BY DEF RowInv, Stopping, Ending, Trying
<1>4. Seen'
  BY DEF RowInv, Seen, Behind
<1> QED BY <1>1, <1>2, <1>3, <1>4 DEF RowInv, RowInvariant

LEMMA NoCallIs ==
    /\ NoCall \in [by : {"nobody", "submit", "cancel"}, snap : Row, reply : AgentStatus]
    /\ NoCall.by = "nobody" /\ NoCall.reply = "none"
BY DEF NoCall, Row, RowStatus, AgentStatus

LEMMA SubmitKeeps ==
    ASSUME RowInv, SubmitMessage \/ SubmitReturns \/ SubmitFails
    PROVE  RowInv' /\ row.status \notin Terminal /\ row'.seq = row.seq
<1>1. row \in Row /\ call \in [by : {"nobody", "submit", "cancel"}, snap : Row, reply : AgentStatus]
  BY DEF RowInv, RowInvariant, TypeOK
<1>2. CASE SubmitMessage
  <2>1. /\ row.status = "none" /\ row' = [row EXCEPT !.status = "submitting"]
        /\ call' = [NoCall EXCEPT !.by = "submit"]
        /\ UNCHANGED <<agent, stream, saved, session, tab, drops>>
    BY <1>2 DEF SubmitMessage
  <2>2. row' \in Row /\ row'.status = "submitting" /\ row'.seq = row.seq
    BY <1>1, <2>1 DEF Row, RowStatus
  <2>3. /\ call' \in [by : {"nobody", "submit", "cancel"}, snap : Row, reply : AgentStatus]
        /\ call'.by = "submit" /\ call'.reply = "none"
    BY <2>1, NoCallIs
  <2>4. Held' /\ CancelledStops' /\ row.status \notin Terminal
    BY <2>1, <2>2, <2>3 DEF Held, CancelledStops, Terminal
  <2> QED BY <2>1, <2>2, <2>3, <2>4, CallKeeps
<1>3. CASE SubmitReturns \/ SubmitFails
  <2>1. row.status = "submitting" /\ row.status \notin Terminal /\ call.reply \in {"none", "queued"}
    BY <1>3 DEF SubmitReturns, SubmitFails, RowInv, Held, Terminal
  <2>2. /\ row' \in Row /\ row'.status \in {"queued", "failed"} /\ row'.seq = row.seq
        /\ call' = NoCall /\ UNCHANGED <<agent, stream, saved, session, tab, drops>>
    BY <1>1, <1>3, <2>1 DEF SubmitReturns, SubmitFails, Row, RowStatus, AgentStatus, Done, Terminal
  <2>3. Held' /\ CancelledStops' /\ row'.status # "succeeded"
    BY <2>2, NoCallIs DEF Held, CancelledStops
  <2> QED BY <2>1, <2>2, <2>3, NoCallIs, CallKeeps
<1> QED BY <1>2, <1>3

LEMMA CancelKeeps ==
    ASSUME RowInv, CancelRun \/ CancelReturns \/ CancelFails
    PROVE  RowInv' /\ row'.seq = row.seq /\ (row' = row \/ row.status \notin Terminal)
<1>1. row \in Row /\ call \in [by : {"nobody", "submit", "cancel"}, snap : Row, reply : AgentStatus]
      /\ CancelledStops
  BY DEF RowInv, RowInvariant, TypeOK
<1>2. CASE CancelRun
  <2>1. /\ row.status \notin Terminal /\ call' = [by |-> "cancel", snap |-> row, reply |-> "none"]
        /\ UNCHANGED <<agent, stream, row, saved, session, tab, drops>>
    BY <1>2 DEF CancelRun
  <2>2. call' \in [by : {"nobody", "submit", "cancel"}, snap : Row, reply : AgentStatus]
    BY <1>1, <2>1 DEF AgentStatus
  <2>3. Held' /\ CancelledStops'
    BY <1>1, <2>1 DEF Held, CancelledStops
  <2> QED BY <1>1, <2>1, <2>2, <2>3, CallKeeps
<1>3. CASE CancelReturns
  <2>1. /\ row = call.snap /\ row.status \notin Terminal /\ call.reply \in {"running", "cancelled"}
        /\ call.reply = "cancelled" => agent.status = "cancelled"
        /\ call.reply = "running" => agent.stop
    BY <1>3 DEF CancelReturns, RowInv, Held
  <2>2. row' = [row EXCEPT !.status = "cancelled"] /\ call' = NoCall
        /\ UNCHANGED <<agent, stream, saved, session, tab, drops>>
    BY <1>3, <2>1 DEF CancelReturns, Terminal
  <2>3. row' \in Row /\ row'.status = "cancelled" /\ row'.seq = row.seq
    BY <1>1, <2>2 DEF Row, RowStatus, AgentStatus, Done, Terminal
  <2>4. CancelledStops'
    BY <2>1, <2>2, <2>3 DEF CancelledStops, RowInv, Stopping
  <2>5. Held'
    BY <2>2, NoCallIs DEF Held
  <2> QED BY <2>1, <2>2, <2>3, <2>4, <2>5, NoCallIs, CallKeeps
<1>4. CASE CancelFails
  <2>1. call' = NoCall /\ UNCHANGED <<agent, stream, row, saved, session, tab, drops>>
    BY <1>4 DEF CancelFails
  <2>2. Held' /\ CancelledStops'
    BY <1>1, <2>1, NoCallIs DEF Held, CancelledStops
  <2> QED BY <1>1, <2>1, <2>2, NoCallIs, CallKeeps
<1> QED BY <1>2, <1>3, <1>4

-----------------------------------------------------------------------------
(* The transactions of a session.                                           *)

\* A session that has read an event.
LEMMA AtIs ==
    ASSUME NEW k \in Session
    PROVE  LET e == At(k, k.pos + 1)
           IN  e \in Session /\ e.at = "sending" /\ e.pos = k.pos + 1
<1>1. k.pos + 1 \in Nat /\ k.replay \in Nat
  BY DEF Session
<1>2. (IF k.pos + 1 <= k.replay THEN k.replay ELSE 0) \in Nat
  BY <1>1
<1> QED BY <1>1, <1>2 DEF At, Session

\* An event that is already seen, or comes after the end, is only sent.
LEMMA IgnoredKeeps ==
    ASSUME RowInv, NEW s \in Sessions, ProjectEvent(s), Ignored(session[s].pos + 1)
    PROVE  RowInv' /\ row' = row
<1> DEFINE n == session[s].pos + 1
           e == At(session[s], n)
<1>1. session \in [Sessions -> Session] /\ session[s] \in Session /\ drops \in 0 .. MaxDrops
  BY DEF RowInv, RowInvariant, TypeOK
<1>2. e \in Session /\ e.at = "sending" /\ e.pos = n
  BY <1>1, AtIs
<1>3. session' = [session EXCEPT ![s] = e]
  BY DEF ProjectEvent
<1>4. UNCHANGED <<agent, stream, row, saved, call, tab, drops>>
  BY DEF ProjectEvent
<1>5. row.status \notin Terminal => n <= row.seq
  BY DEF Ignored
<1> HIDE DEF n, e
<1> QED BY <1>1, <1>2, <1>3, <1>4, <1>5, OneSession

\* An event that is not: it is the next one the row has not seen.
LEMMA ProjectedKeeps ==
    ASSUME RowInv, NEW s \in Sessions, ProjectEvent(s), ~Ignored(session[s].pos + 1)
    PROVE  RowInv' /\ row.status \notin Terminal /\ row'.seq >= row.seq
<1> DEFINE n == session[s].pos + 1
           e == At(session[s], n)
<1>1. /\ session \in [Sessions -> Session] /\ session[s] \in Session
      /\ row \in Row /\ row.seq \in Nat /\ saved \subseteq DOMAIN stream
      /\ stream \in Seq(Kind) /\ Len(stream) \in Nat /\ DOMAIN stream = 1..Len(stream)
  BY LenProperties DEF RowInv, RowInvariant, TypeOK, Row
<1>2. /\ session[s].at = "open" /\ n <= Len(stream) /\ call.by = "nobody"
      /\ row' = [row EXCEPT !.seq = n, !.status = StatusAfter(stream[n], @)]
      /\ saved' = IF stream[n] = "deliverable" THEN saved \cup {n} ELSE saved
      /\ session' = [session EXCEPT ![s] = e]
      /\ UNCHANGED <<agent, stream, call, tab, drops>>
  BY <1>1 DEF ProjectEvent, RowFree, Session
<1>3. e \in Session /\ e.at = "sending" /\ e.pos = n /\ session[s].pos \in Nat /\ n \in Nat
  <2>1. session[s].pos \in Nat /\ n \in Nat
    BY <1>1 DEF Session
  <2>2. e \in Session /\ e.at = "sending" /\ e.pos = n
    BY <1>1, AtIs
  <2> QED BY <2>1, <2>2
<1>4. row.status \notin Terminal /\ n > row.seq
  BY <1>1, <1>3 DEF Ignored
<1>5. /\ row.seq <= Len(stream)
      /\ \A i \in DOMAIN stream : i <= row.seq /\ stream[i] = "deliverable" => i \in saved
      /\ \A x \in Sessions : Behind(x)
      /\ \A t \in Tabs : tab[t].got <= row.seq
  BY <1>4 DEF RowInv, Seen
<1>6. n = row.seq + 1
  BY <1>1, <1>2, <1>3, <1>4, <1>5 DEF Behind
<1>7. n \in DOMAIN stream /\ stream[n] \in Kind
  BY <1>1, <1>2, <1>3, <1>6
<1> HIDE DEF n, e
<1>8. /\ StatusAfter(stream[n], row.status) \in RowStatus
      /\ StatusAfter(stream[n], row.status) \in Terminal =>
            stream[n] \in Terminal /\ StatusAfter(stream[n], row.status) = stream[n]
  <2>1. row.status \in RowStatus
    BY <1>1 DEF Row
  <2>2. CASE stream[n] \in Done
    BY <2>2, Statuses DEF StatusAfter
  <2>3. CASE stream[n] \notin Done
    <3>1. stream[n] \in {"run_started", "clarification_required", "deliverable"}
      BY <1>7, <2>3 DEF Kind
    <3> QED BY <1>4, <2>1, <3>1 DEF StatusAfter, RowStatus, AgentStatus, Done, Terminal
  <2> QED BY <2>2, <2>3
<1>9. /\ row' \in Row /\ row'.seq = n
      /\ row'.status = StatusAfter(stream[n], row.status)
  BY <1>1, <1>2, <1>3, <1>8 DEF Row
<1>10. TypeOK'
  <2>1. saved' \subseteq DOMAIN stream
    BY <1>1, <1>2, <1>7
  <2>2. session' \in [Sessions -> Session]
    BY <1>1, <1>2, <1>3
  <2> QED BY <1>2, <1>9, <2>1, <2>2 DEF RowInv, RowInvariant, TypeOK
<1>11. \A i \in DOMAIN stream : i <= n /\ stream[i] = "deliverable" => i \in saved'
  BY <1>1, <1>2, <1>5, <1>6
<1>12. row'.status \in Terminal =>
          agent.status = row'.status /\ n = Len(stream) /\ agent.due = <<>>
  BY <1>7, <1>8, <1>9 DEF RowInv, Ending
<1>13. SucceededComplete' /\ Quiet' /\ CancelledStops'
  <2>1. ASSUME row'.status = "succeeded"
        PROVE  /\ agent.status = "succeeded" /\ agent.due = <<>>
               /\ \A i \in DOMAIN stream : stream[i] = "deliverable" => i \in saved'
    BY <1>1, <1>11, <1>12, <2>1 DEF Terminal
  <2>2. row'.status = "cancelled" => agent.status = "cancelled"
    BY <1>12 DEF Terminal
  <2> QED BY <1>2, <2>1, <2>2 DEF SucceededComplete, Quiet, CancelledStops
<1>14. Held' /\ Stopping' /\ Ending' /\ Trying'
  BY <1>2 DEF RowInv, Held, Stopping, Ending, Trying
<1>15. Seen'
  <2>1. \A x \in Sessions : session'[x] = IF x = s THEN e ELSE session[x]
    BY <1>1, <1>2
  <2>2. ASSUME NEW x \in Sessions PROVE Behind(x)'
    <3>1. CASE x = s
      BY <1>3, <1>9, <2>1, <3>1 DEF Behind
    <3>2. CASE x # s
      <4>1. session'[x] = session[x] /\ session[x].pos \in Nat
        BY <1>1, <2>1, <3>2 DEF Session
      <4> QED BY <1>1, <1>5, <1>6, <1>9, <4>1 DEF Behind
    <3> QED BY <3>1, <3>2
  <2>3. \A t \in Tabs : tab'[t].got <= row'.seq
    <3>1. \A t \in Tabs : tab[t].got \in Nat
      BY DEF RowInv, RowInvariant, TypeOK, Tab
    <3> QED BY <1>1, <1>2, <1>5, <1>6, <1>9, <3>1
  <2> QED BY <1>2, <1>9, <1>11, <2>2, <2>3 DEF Seen
<1> QED BY <1>1, <1>4, <1>6, <1>9, <1>10, <1>13, <1>14, <1>15 DEF RowInv, RowInvariant

\* The row takes the failure unless it already has its final status.
LEMMA FailureKeeps ==
    ASSUME RowInv, NEW s \in Sessions, FailEventProjection(s)
    PROVE  RowInv' /\ row'.seq >= row.seq /\ (row' = row \/ row.status \notin Terminal)
<1>1. session \in [Sessions -> Session] /\ session[s] \in Session /\ session[s].pos \in Nat
      /\ row \in Row /\ row.seq \in Nat /\ drops \in 0 .. MaxDrops
  BY DEF RowInv, RowInvariant, TypeOK, Row, Session
<1>2. /\ call.by = "nobody" /\ row' = Failed(session[s].pos)
      /\ session' = [session EXCEPT ![s] = NoSession]
      /\ UNCHANGED <<agent, stream, saved, call, tab, drops>>
  BY DEF FailEventProjection, RowFree
<1>3. CASE row.status \in Terminal
  <2>1. row' = row
    BY <1>2, <1>3 DEF Failed
  <2>2. RowInv'
    BY <1>1, <1>2, <1>3, <2>1, NoSessionIs, OneSession
  <2> QED BY <1>1, <2>1, <2>2
<1>4. CASE row.status \notin Terminal
  <2>1. Larger(row.seq, session[s].pos) \in Nat /\ Larger(row.seq, session[s].pos) >= row.seq
    BY <1>1, LargerIs
  <2>2. row' \in Row /\ row'.status = "failed" /\ row'.seq >= row.seq
    BY <1>1, <1>2, <1>4, <2>1 DEF Failed, Row, RowStatus, AgentStatus, Done, Terminal
  <2>3. session' \in [Sessions -> Session]
    BY <1>1, <1>2, NoSessionIs
  <2>4. TypeOK'
    BY <1>1, <1>2, <2>2, <2>3 DEF RowInv, RowInvariant, TypeOK
  <2>5. SucceededComplete' /\ CancelledStops' /\ Quiet' /\ Seen'
    BY <2>2 DEF SucceededComplete, CancelledStops, Quiet, Seen, Terminal
  <2>6. Held' /\ Stopping' /\ Ending' /\ Trying'
    BY <1>2 DEF RowInv, Held, Stopping, Ending, Trying
  <2> QED BY <1>4, <2>2, <2>4, <2>5, <2>6 DEF RowInv, RowInvariant
<1> QED BY <1>3, <1>4

-----------------------------------------------------------------------------
(* The theorems.                                                            *)

LEMMA InitHolds == ASSUME ProjectionAssumption, Init PROVE RowInv
<1>1. /\ agent = [status |-> "none", stop |-> FALSE, due |-> <<>>] /\ stream = <<>>
      /\ row = [status |-> "none", seq |-> 0, bound |-> FALSE] /\ saved = {} /\ call = NoCall
      /\ session = [s \in Sessions |-> NoSession]
      /\ tab = [t \in Tabs |-> [at |-> "following", session |-> None, got |-> 0, tries |-> 0]]
      /\ drops = 0
  BY DEF Init
<1>2. <<>> \in Seq(Kind) /\ DOMAIN stream = {} /\ Len(stream) = 0 /\ DOMAIN agent.due = {}
  BY <1>1
<1>3. agent \in [status : AgentStatus, stop : BOOLEAN, due : Seq(Kind)] /\ row \in Row
  BY <1>1, <1>2 DEF AgentStatus, Row, RowStatus
<1>4. session \in [Sessions -> Session] /\ tab \in [Tabs -> Tab]
  <2>1. session \in [Sessions -> Session]
    BY <1>1, NoSessionIs
  <2> QED BY <1>1, <2>1 DEF Tab, ProjectionAssumption
<1>5. TypeOK
  BY <1>1, <1>2, <1>3, <1>4, NoCallIs DEF TypeOK, ProjectionAssumption
<1>6. SucceededComplete /\ CancelledStops /\ Quiet /\ Stopping /\ Ending
  BY <1>1, <1>2 DEF SucceededComplete, CancelledStops, Quiet, Stopping, Ending
<1>7. Held /\ Trying
  BY <1>1, NoCallIs DEF Held, Trying
<1>8. Seen
  <2>1. \A s \in Sessions : session[s].pos = 0 /\ session[s].at = "off"
    BY <1>1, NoSessionIs
  <2> QED BY <1>1, <1>2, <2>1 DEF Seen, Behind
<1> QED BY <1>5, <1>6, <1>7, <1>8 DEF RowInv, RowInvariant

\* Every step keeps the invariant, and changes the row forwards only.
LEMMA StepKeeps ==
    ASSUME ProjectionAssumption, RowInv, [Next]_vars
    PROVE  RowInv' /\ row'.seq >= row.seq /\ (row' = row \/ row.status \notin Terminal)
<1>1. row.seq \in Nat
  BY DEF RowInv, RowInvariant, TypeOK, Row
<1>2. CASE SubmitMessage \/ SubmitReturns \/ SubmitFails
  BY <1>1, <1>2, SubmitKeeps
<1>3. CASE CancelRun \/ CancelReturns \/ CancelFails
  BY <1>1, <1>3, CancelKeeps
<1>4. CASE AgentAccept \/ AgentCancel
  <2>1. row' = row
    BY <1>4 DEF AgentAccept, AgentCancel
  <2> QED BY <1>1, <1>4, <2>1, AgentAcceptKeeps, AgentCancelKeeps
<1>5. CASE Agent
  <2>1. row' = row
    BY <1>5 DEF Agent, AgentStart, AgentPublish, AgentEnd
  <2> QED BY <1>1, <1>5, <2>1, AgentStartKeeps, AgentPublishKeeps, AgentEndKeeps DEF Agent
<1>6. ASSUME NEW s \in Sessions, Serve(s) \/ StreamLost(s)
      PROVE  RowInv' /\ row'.seq >= row.seq /\ (row' = row \/ row.status \notin Terminal)
  <2>1. CASE ProjectEvent(s)
    BY <1>1, <2>1, IgnoredKeeps, ProjectedKeeps
  <2>2. CASE FailEventProjection(s)
    BY <2>2, FailureKeeps
  <2>3. CASE ProjectionFails(s) \/ SendEvent(s) \/ Complete(s) \/ StreamLost(s) \/ Dispose(s)
    <3>1. row' = row
      BY <2>3 DEF ProjectionFails, SendEvent, Complete, StreamLost, Dispose
    <3> QED BY <1>1, <2>3, <3>1, SessionStepsKeep
  <2> QED BY <1>6, <2>1, <2>2, <2>3 DEF Serve
<1>7. ASSUME NEW t \in Tabs, Page(t) \/ Drop(t) \/ Reload(t)
      PROVE  RowInv' /\ row'.seq >= row.seq /\ (row' = row \/ row.status \notin Terminal)
  <2>1. row' = row
    BY <1>7 DEF Page, Connect, ReadEvent, EndOfStream, Drop, Reload
  <2> QED BY <1>1, <1>7, <2>1, ConnectKeeps, ReadEventKeeps, LetGoKeeps, ReloadKeeps DEF Page
<1>8. CASE UNCHANGED vars
  <2>1. UNCHANGED <<agent, stream, row, saved, call, session, tab, drops>>
    BY <1>8 DEF vars
  <2>2. session \in [Sessions -> Session] /\ tab \in [Tabs -> Tab] /\ drops \in 0 .. MaxDrops
    BY DEF RowInv, RowInvariant, TypeOK
  <2>3. RowInv'
    BY <2>1, <2>2, LookingKeeps DEF RowInv, Seen, Behind, Trying
  <2> QED BY <1>1, <2>1, <2>3
<1> QED BY <1>2, <1>3, <1>4, <1>5, <1>6, <1>7, <1>8 DEF Next, Calls

\* The row, the calls that hold it, the Agent's events and the pages' positions
\* fit together in every reachable state.
THEOREM RowInvariance == Spec => []RowInv
<1>1. Init => RowInv
  BY InitHolds, ProjectionAssumption
<1>2. RowInv /\ [Next]_vars => RowInv'
  BY StepKeeps, ProjectionAssumption
<1> QED BY <1>1, <1>2, PTL DEF Spec

\* The row never claims a success of which something is not stored, nor a
\* cancellation that the Agent does not follow.
THEOREM RowTrue == Spec => []RowInvariant
<1>1. RowInv => RowInvariant
  BY DEF RowInv
<1> QED BY <1>1, RowInvariance, PTL

\* A final status and a position that was reached are never undone, whoever
\* writes the row.
THEOREM RowNeverUndone == Spec => NeverUndone
<1> DEFINE Step == /\ row'.seq >= row.seq
                   /\ row.status \in Terminal => row'.status = row.status
<1>1. ASSUME RowInv, [Next]_vars PROVE [Step]_vars
  BY <1>1, StepKeeps, ProjectionAssumption
<1> QED BY <1>1, RowInvariance, PTL DEF Spec, NeverUndone

-----------------------------------------------------------------------------
(* The row as a reader of the Agent's stream.                               *)

\* What OrderedDelivery promises a reader, of the one reader that the database
\* is, however many sessions read for it: an event counts for it once it is
\* stored, or has ended the projection.
Delivery == INSTANCE OrderedDelivery
            WITH Clients   <- {"row"},
                 published <- Len(stream),
                 received  <- [reader \in {"row"} |-> row.seq]

\* A session that fails does so over an event there is.
FailsOver ==
    row.status \notin Terminal =>
        \A s \in Sessions : session[s].at = "failing" => session[s].pos <= Len(stream)

LEMMA StreamStep ==
    ASSUME RowInv, [Next]_vars
    PROVE  /\ Len(stream) \in Nat
           /\ stream' = stream \/ (Len(stream') = Len(stream) + 1 /\ UNCHANGED <<row, session>>)
<1>1. Len(stream) \in Nat
  BY AgentTypes
<1>2. CASE AgentPublish
  <2>1. Len(stream') = Len(stream) + 1
    <3>1. agent.due \in Seq(Kind) /\ agent.due # <<>> /\ stream' = Append(stream, Head(agent.due))
      BY <1>2, AgentTypes DEF AgentPublish
    <3>2. Head(agent.due) \in Kind
      BY <3>1
    <3> QED BY <3>1, <3>2, AgentTypes, OneMore
  <2>2. UNCHANGED <<row, session>>
    BY <1>2 DEF AgentPublish
  <2> QED BY <1>1, <2>1, <2>2
<1>3. CASE UNCHANGED stream
  BY <1>1, <1>3
<1>4. AgentPublish \/ UNCHANGED stream
  <2>1. CASE \/ SubmitMessage \/ SubmitFails \/ CancelRun \/ CancelFails
             \/ Calls \/ UNCHANGED vars
    BY <2>1 DEF SubmitMessage, SubmitFails, CancelRun, CancelFails, Calls, AgentAccept,
                SubmitReturns, AgentCancel, CancelReturns, vars
  <2>2. CASE Agent
    BY <2>2 DEF Agent, AgentStart, AgentEnd
  <2>3. ASSUME NEW s \in Sessions, Serve(s) \/ StreamLost(s) PROVE UNCHANGED stream
    BY <2>3 DEF Serve, ProjectEvent, ProjectionFails, SendEvent, FailEventProjection,
                Complete, Dispose, StreamLost
  <2>4. ASSUME NEW t \in Tabs, Page(t) \/ Drop(t) \/ Reload(t) PROVE UNCHANGED stream
    BY <2>4 DEF Page, Connect, ReadEvent, EndOfStream, Drop, Reload
  <2> QED BY <2>1, <2>2, <2>3, <2>4 DEF Next
<1> QED BY <1>2, <1>3, <1>4

\* A session that fails has failed before, or fails over the event it reads now.
LEMMA FailingStep ==
    ASSUME RowInv, [Next]_vars, NEW s \in Sessions, session'[s].at = "failing"
    PROVE  session'[s].pos = session[s].pos \/ session'[s].pos <= Len(stream)
<1>1. session \in [Sessions -> Session] /\ tab \in [Tabs -> Tab] /\ session[s] \in Session
  BY DEF RowInv, RowInvariant, TypeOK
<1>2. CASE session' = session
  BY <1>2
<1>3. ASSUME NEW x \in Sessions, Serve(x) \/ StreamLost(x)
      PROVE  session'[s].pos = session[s].pos \/ session'[s].pos <= Len(stream)
  <2>1. CASE s # x
    <3>1. session'[s] = session[s]
      BY <1>1, <1>3, <2>1 DEF Serve, ProjectEvent, ProjectionFails, SendEvent, FailEventProjection,
                Complete, Dispose, StreamLost
    <3> QED BY <3>1
  <2>2. CASE s = x
    <3>1. CASE ProjectEvent(s) \/ FailEventProjection(s) \/ Dispose(s)
      <4>1. session'[s] = At(session[s], session[s].pos + 1) \/ session'[s] = NoSession
        BY <1>1, <3>1 DEF ProjectEvent, FailEventProjection, Dispose
      <4>2. session'[s].at \in {"sending", "off"}
        BY <1>1, <4>1, AtIs, NoSessionIs
      <4> QED BY <4>2
    <3>2. CASE ProjectionFails(s)
      <4>1. session'[s].pos = session[s].pos + 1 /\ session[s].pos + 1 <= Len(stream)
        BY <1>1, <3>2 DEF ProjectionFails, Session
      <4> QED BY <4>1
    <3>3. CASE SendEvent(s) \/ Complete(s) \/ StreamLost(s)
      BY <1>1, <3>3 DEF SendEvent, Complete, StreamLost, Session
    <3> QED BY <1>3, <2>2, <3>1, <3>2, <3>3 DEF Serve
  <2> QED BY <2>1, <2>2
<1>4. ASSUME NEW t \in Tabs, Page(t) \/ Drop(t) \/ Reload(t)
      PROVE  session'[s].pos = session[s].pos
  <2>1. CASE Connect(t)
    <3>1. PICK x \in Sessions :
             session' = [session EXCEPT ![x] = [at |-> "open", pos |-> ResumeAt(t),
                                                read |-> ResumeAt(t),
                                                replay |-> Replayed(ResumeAt(t)), alive |-> TRUE]]
      BY <2>1 DEF Connect
    <3>2. s # x
      BY <1>1, <3>1
    <3> QED BY <1>1, <3>1, <3>2
  <2>2. CASE ReadEvent(t) \/ EndOfStream(t) \/ Drop(t) \/ Reload(t)
    <3>1. CASE session' = session
      BY <3>1
    <3>2. CASE session' = [session EXCEPT ![tab[t].session].alive = FALSE]
      BY <1>1, <3>2 DEF Session
    <3>3. CASE ReadEvent(t)
      <4>1. PICK n, alive : session' = [session EXCEPT ![tab[t].session].read = n,
                                                       ![tab[t].session].alive = alive]
        BY <3>3 DEF ReadEvent
      <4> QED BY <1>1, <4>1 DEF Session
    <3> QED BY <2>2, <3>1, <3>2, <3>3 DEF EndOfStream, Drop, Reload
  <2> QED BY <1>4, <2>1, <2>2 DEF Page
<1>5. CASE \/ SubmitMessage \/ SubmitFails \/ CancelRun \/ CancelFails
           \/ Calls \/ Agent \/ UNCHANGED vars
  <2>1. session' = session
    BY <1>5 DEF SubmitMessage, SubmitFails, CancelRun, CancelFails, Calls, AgentAccept,
                SubmitReturns, AgentCancel, CancelReturns, Agent, AgentStart, AgentPublish,
                AgentEnd, vars
  <2> QED BY <1>2, <2>1
<1> QED BY <1>3, <1>4, <1>5 DEF Next

\* The row moves one event on at a time, and only to an event there is.
LEMMA RowMoves ==
    ASSUME RowInv, FailsOver, [Next]_vars
    PROVE  row'.seq = row.seq \/ (row'.seq = row.seq + 1 /\ row.seq < Len(stream))
<1>1. row \in Row /\ row.seq \in Nat /\ session \in [Sessions -> Session] /\ Len(stream) \in Nat
  BY AgentTypes DEF RowInv, RowInvariant, TypeOK, Row
<1>2. CASE row' = row
  BY <1>2
<1>3. CASE SubmitMessage \/ SubmitReturns \/ SubmitFails
  BY <1>3, SubmitKeeps, ProjectionAssumption
<1>4. CASE CancelRun \/ CancelReturns \/ CancelFails
  BY <1>4, CancelKeeps
<1>5. ASSUME NEW s \in Sessions, Serve(s) \/ StreamLost(s)
      PROVE  row'.seq = row.seq \/ (row'.seq = row.seq + 1 /\ row.seq < Len(stream))
  <2>1. session[s] \in Session /\ session[s].pos \in Nat
    BY <1>1 DEF Session
  <2>2. row.status \notin Terminal =>
           session[s].pos <= IF session[s].at = "failing" THEN row.seq + 1 ELSE row.seq
    BY DEF RowInv, Seen, Behind
  <2>3. CASE ProjectEvent(s) /\ row' # row
    <3>1. session[s].at = "open" /\ session[s].pos + 1 <= Len(stream)
      BY <2>3 DEF ProjectEvent
    <3>2. ~Ignored(session[s].pos + 1) /\ row' = [row EXCEPT !.seq = session[s].pos + 1,
                                     !.status = StatusAfter(stream[session[s].pos + 1], @)]
      BY <2>3 DEF ProjectEvent
    <3>3. row.status \notin Terminal /\ ~(session[s].pos + 1 <= row.seq)
      BY <3>2 DEF Ignored
    <3>4. session[s].pos = row.seq
      BY <1>1, <2>1, <2>2, <3>1, <3>3
    <3>5. row'.seq = session[s].pos + 1
      BY <1>1, <3>2 DEF Row
    <3> QED BY <1>1, <3>1, <3>4, <3>5
  <2>4. CASE FailEventProjection(s) /\ row.status \notin Terminal
    <3>1. session[s].at = "failing" /\ row'.seq = Larger(row.seq, session[s].pos)
      BY <1>1, <2>4 DEF FailEventProjection, Failed, Row
    <3>2. session[s].pos <= row.seq + 1 /\ session[s].pos <= Len(stream)
      BY <2>2, <2>4, <3>1 DEF FailsOver
    <3> QED BY <1>1, <2>1, <3>1, <3>2 DEF Larger
  <2>5. CASE FailEventProjection(s) /\ row.status \in Terminal
    BY <2>5 DEF FailEventProjection, Failed
  <2>6. CASE ProjectionFails(s) \/ SendEvent(s) \/ Complete(s) \/ StreamLost(s) \/ Dispose(s)
    BY <2>6 DEF ProjectionFails, SendEvent, Complete, StreamLost, Dispose
  <2> QED BY <1>2, <1>5, <2>3, <2>4, <2>5, <2>6 DEF Serve
<1>6. ASSUME NEW t \in Tabs, Page(t) \/ Drop(t) \/ Reload(t) PROVE row' = row
  BY <1>6 DEF Page, Connect, ReadEvent, EndOfStream, Drop, Reload
<1>7. CASE AgentAccept \/ AgentCancel \/ Agent \/ UNCHANGED vars
  <2>1. row' = row
    BY <1>7 DEF AgentAccept, AgentCancel, Agent, AgentStart, AgentPublish, AgentEnd, vars
  <2> QED BY <2>1, <1>2
<1> QED BY <1>2, <1>3, <1>4, <1>5, <1>6, <1>7 DEF Next, Calls

LEMMA FailsOverKept ==
    ASSUME RowInv, RowInv', FailsOver, [Next]_vars
    PROVE  FailsOver'
<1> SUFFICES ASSUME row'.status \notin Terminal, NEW s \in Sessions, session'[s].at = "failing"
             PROVE  session'[s].pos <= Len(stream')
  BY DEF FailsOver
<1>1. /\ session \in [Sessions -> Session] /\ session[s].pos \in Nat /\ row.seq \in Nat
      /\ Len(stream) \in Nat /\ Len(stream) <= Len(stream')
  <2>1. session \in [Sessions -> Session] /\ session[s].pos \in Nat /\ row.seq \in Nat
    BY DEF RowInv, RowInvariant, TypeOK, Session, Row
  <2>2. Len(stream) \in Nat /\ Len(stream) <= Len(stream')
    BY StreamStep
  <2> QED BY <2>1, <2>2
<1>2. row.status \notin Terminal
  <2>1. row' = row \/ row.status \notin Terminal
    BY StepKeeps, ProjectionAssumption
  <2> QED BY <2>1
<1>3. session[s].pos <= Len(stream)
  <2>1. CASE session[s].at = "failing"
    BY <1>2, <2>1 DEF FailsOver
  <2>2. CASE session[s].at # "failing"
    <3>1. session[s].pos <= row.seq /\ row.seq <= Len(stream)
      BY <1>2, <2>2 DEF RowInv, Seen, Behind
    <3> QED BY <1>1, <3>1
  <2> QED BY <2>1, <2>2
<1>4. session'[s].pos = session[s].pos \/ session'[s].pos <= Len(stream)
  BY FailingStep
<1>5. session'[s].pos \in Nat /\ Len(stream') \in Nat
  <2>1. session' \in [Sessions -> Session] /\ stream' \in Seq(Kind)
    BY DEF RowInv, RowInvariant, TypeOK
  <2> QED BY <2>1, LenProperties DEF Session
<1> QED BY <1>1, <1>3, <1>4, <1>5

\* The platform's row is a reader of the Agent's stream like any other: through
\* whichever sessions, failures, lost calls and calls under way, it takes every
\* event once and in order and skips none (projectEvent, failEventProjection).
THEOREM RowInOrder == Spec => Delivery!Spec
<1>1. Init => FailsOver /\ Delivery!Init
  <2> SUFFICES ASSUME Init PROVE FailsOver /\ Delivery!Init
    OBVIOUS
  <2>1. stream = <<>> /\ row.seq = 0 /\ \A s \in Sessions : session[s].at = "off"
    BY NoSessionIs DEF Init
  <2> QED BY <2>1 DEF FailsOver, Delivery!Init
<1>2. RowInv /\ RowInv' /\ FailsOver /\ [Next]_vars => FailsOver' /\ [Delivery!Next]_(Delivery!dvars)
  <2> SUFFICES ASSUME RowInv, RowInv', FailsOver, [Next]_vars
               PROVE  FailsOver' /\ [Delivery!Next]_(Delivery!dvars)
    OBVIOUS
  <2>1. row.seq \in Nat /\ Len(stream) \in Nat
    BY AgentTypes DEF RowInv, RowInvariant, TypeOK, Row
  <2>2. ASSUME Len(stream') = Len(stream) + 1, row' = row PROVE Delivery!Next
    BY <2>1, <2>2 DEF Delivery!Next, Delivery!Publish
  <2>3. ASSUME stream' = stream, row'.seq = row.seq + 1, row.seq < Len(stream)
        PROVE  Delivery!Next
    <3>1. [reader \in {"row"} |-> row'.seq] = [reader \in {"row"} |-> row.seq + 1]
      BY <2>3
    <3>2. Delivery!Receive("row")
      BY <2>1, <2>3, <3>1 DEF Delivery!Receive
    <3> QED BY <3>2 DEF Delivery!Next
  <2>4. ASSUME stream' = stream, row'.seq = row.seq PROVE UNCHANGED Delivery!dvars
    BY <2>4 DEF Delivery!dvars
  <2>5. FailsOver'
    BY FailsOverKept
  <2> QED BY <2>2, <2>3, <2>4, <2>5, StreamStep, RowMoves
<1> QED BY <1>1, <1>2, RowInvariance, PTL DEF Spec, Delivery!Spec

=============================================================================
