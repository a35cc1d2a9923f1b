---------------------------- MODULE RunProjection ----------------------------
(***************************************************************************)
(* How one Run of the Agent becomes a row of the platform's database and a  *)
(* page in the browser (OperationAssistantService, OperationAssistantController, *)
(* operation-chat).  The platform learns of events only through the SSE     *)
(* sessions of its readers: each session reads the Agent's stream, projects  *)
(* an event into the row and then sends it on.  The Agent's own stream is    *)
(* gapless (EventStream), so an event is its index.                          *)
(***************************************************************************)
EXTENDS Naturals, Sequences, FiniteSets

CONSTANTS
    Tabs,           \* pages that follow the Run
    Sessions,       \* SSE sessions the platform can hold
    None,           \* no session
    MaxReconnects,  \* of one call of connectRunStream
    MaxDrops,       \* bound: connections that break, pages that are loaded anew
    StoreFails      \* whether storing a deliverable may fail

ASSUME ProjectionAssumption ==
    None \notin Sessions /\ MaxReconnects \in Nat /\ MaxDrops \in Nat /\ StoreFails \in BOOLEAN

VARIABLES
    agent,      \* [status, stop, due]: the Agent's Run, and the events it has still to publish
    stream,     \* Seq(Kind): the events it has published
    row,        \* [status, seq, bound]: the platform's Run
    saved,      \* the deliverable events whose artifacts are stored
    call,       \* [by, snap, reply]: the transaction that holds the row's lock over a call
    session,    \* [Sessions -> [at, pos, read, replay, alive]]
    tab,        \* [Tabs -> [at, session, got, tries]]
    drops

vars == <<agent, stream, row, saved, call, session, tab, drops>>

Terminal == {"succeeded", "failed", "cancelled"}     \* timed_out goes the way of failed
Done     == Terminal \cup {"waiting_input"}          \* stream_done with that status
Kind     == Done \cup {"run_started", "clarification_required", "deliverable"}

AgentStatus == {"none", "queued", "running"} \cup Done
RowStatus   == AgentStatus \cup {"submitting"}
Row         == [status : RowStatus, seq : Nat, bound : BOOLEAN]
NoCall      == [by |-> "nobody", snap |-> [status |-> "none", seq |-> 0, bound |-> FALSE],
                reply |-> "none"]

NoSession   == [at |-> "off", pos |-> 0, read |-> 0, replay |-> 0, alive |-> FALSE]

Larger(a, b) == IF a > b THEN a ELSE b

(* An operator Faulty... is a slip the code could have made in the operator *)
(* that follows it: the properties below are known to notice them.          *)

\* The row is read FOR UPDATE: no one else has it in a transaction.
FaultyRowFree == call.by # "submit"
RowFree       == call.by = "nobody"

\* The cursor a session asks the Agent for.
FaultyResumeAt(t) == Larger(tab[t].got, row.seq + 1)
ResumeAt(t)       == Larger(tab[t].got, row.seq)

MayReconnect(t)       == tab[t].tries <= MaxReconnects

\* The Agent's stream is closed.
Closed == \E i \in DOMAIN stream : stream[i] \in Terminal

\* The last event that the Agent's connection replays from an open stream when it
\* starts behind event n, or 0.
Replayed(n) == IF n < Len(stream) /\ ~Closed THEN Len(stream) ELSE 0

\* A session has read event n and sends it.
At(k, n) == [k EXCEPT !.at = "sending", !.pos = n,
                      !.replay = IF n <= k.replay THEN k.replay ELSE 0]

\* projectEvent leaves the row alone.
Ignored(n) == row.status \in Terminal \/ n <= row.seq

StatusAfter(kind, status) ==
    CASE kind = "run_started"            -> "running"
      [] kind = "clarification_required" -> "waiting_input"
      [] kind = "deliverable"            -> status
      [] kind \in Done                   -> kind

\* What failEventProjection makes of the row.
Failed(n) ==
    IF row.status \in Terminal THEN row
    ELSE [row EXCEPT !.status = "failed", !.seq = Larger(@, n)]

Init ==
    /\ agent = [status |-> "none", stop |-> FALSE, due |-> <<>>]
    /\ stream = <<>>
    /\ row = [status |-> "none", seq |-> 0, bound |-> FALSE]
    /\ saved = {}
    /\ call = NoCall
    /\ session = [s \in Sessions |-> NoSession]
    /\ tab = [t \in Tabs |-> [at |-> "following", session |-> None, got |-> 0, tries |-> 0]]
    /\ drops = 0

-----------------------------------------------------------------------------
(* The Agent's Run, as the platform sees it.                                  *)

AgentStart ==
    /\ agent.status = "queued"
    /\ agent' = [agent EXCEPT !.status = "running", !.due = Append(@, "run_started")]
    /\ UNCHANGED <<stream, row, saved, call, session, tab, drops>>

\* A result is saved first and announced then; after a cancellation only that.
AgentEnd(status) ==
    /\ agent.status = "running" /\ (agent.stop => status = "cancelled")
    /\ agent' = [agent EXCEPT !.status = status,
                              !.due = @ \o CASE status = "succeeded" -> <<"deliverable", status>>
                                             [] status = "waiting_input" ->
                                                    <<"clarification_required", status>>
                                             [] OTHER -> <<status>>]
    /\ UNCHANGED <<stream, row, saved, call, session, tab, drops>>

AgentPublish ==
    /\ agent.due # <<>>
    /\ stream' = Append(stream, Head(agent.due))
    /\ agent' = [agent EXCEPT !.due = Tail(@)]
    /\ UNCHANGED <<row, saved, call, session, tab, drops>>

-----------------------------------------------------------------------------
(* Submitting and cancelling: a transaction around a call to the Agent.       *)

SubmitMessage ==
    /\ row.status = "none"
    /\ row' = [row EXCEPT !.status = "submitting"]
    /\ call' = [NoCall EXCEPT !.by = "submit"]
    /\ UNCHANGED <<agent, stream, saved, session, tab, drops>>

AgentAccept ==
    /\ call.by = "submit" /\ agent.status = "none"
    /\ agent' = [agent EXCEPT !.status = "queued"]
    /\ call' = [call EXCEPT !.reply = "queued"]
    /\ UNCHANGED <<stream, row, saved, session, tab, drops>>

SubmitReturns ==
    /\ call.by = "submit" /\ call.reply # "none"
    /\ row' = [row EXCEPT !.status = call.reply, !.bound = TRUE]
    /\ call' = NoCall
    /\ UNCHANGED <<agent, stream, saved, session, tab, drops>>

\* The call fails or its answer is lost: the exception does not roll back.
SubmitFails ==
    /\ call.by = "submit"
    /\ row' = [row EXCEPT !.status = "failed"]
    /\ call' = NoCall
    /\ UNCHANGED <<agent, stream, saved, session, tab, drops>>

CancelRun ==
    /\ RowFree /\ row.bound /\ row.status \notin Terminal
    /\ call' = [by |-> "cancel", snap |-> row, reply |-> "none"]
    /\ UNCHANGED <<agent, stream, row, saved, session, tab, drops>>

\* A running Run is asked to stop, a finished one refuses.
AgentCancel ==
    /\ call.by = "cancel" /\ call.reply = "none"
    /\ \/ /\ agent.status \in {"queued", "waiting_input"}
          /\ agent' = [agent EXCEPT !.status = "cancelled", !.stop = TRUE,
                                    !.due = Append(@, "cancelled")]
          /\ call' = [call EXCEPT !.reply = "cancelled"]
       \/ /\ agent.status = "running"
          /\ agent' = [agent EXCEPT !.stop = TRUE]
          /\ call' = [call EXCEPT !.reply = "running"]
       \/ /\ agent.status = "cancelled"
          /\ call' = [call EXCEPT !.reply = "cancelled"]
          /\ UNCHANGED agent
    /\ UNCHANGED <<stream, row, saved, session, tab, drops>>

\* The whole row read before the call is written back.
CancelReturns ==
    /\ call.by = "cancel" /\ call.reply # "none"
    /\ row' = [call.snap EXCEPT
                 !.status = IF call.reply \in Terminal THEN call.reply ELSE "cancelled"]
    /\ call' = NoCall
    /\ UNCHANGED <<agent, stream, saved, session, tab, drops>>

\* The Agent refuses, or the answer is lost: the transaction rolls back.
FaultyCancelFails ==
    /\ call.by = "cancel"
    /\ row' = [call.snap EXCEPT !.status = "cancelled"]
    /\ call' = NoCall
    /\ UNCHANGED <<agent, stream, saved, session, tab, drops>>
CancelFails ==
    /\ call.by = "cancel"
    /\ call' = NoCall
    /\ UNCHANGED <<agent, stream, row, saved, session, tab, drops>>

-----------------------------------------------------------------------------
(* A session of the platform.                                                 *)

\* projectEvent commits, then the event is sent.
ProjectEvent(s) ==
    LET n == session[s].pos + 1 IN
    /\ session[s].at = "open" /\ n <= Len(stream) /\ RowFree
    /\ IF Ignored(n) THEN UNCHANGED <<row, saved>>
       ELSE /\ row' = [row EXCEPT !.seq = n, !.status = StatusAfter(stream[n], @)]
            /\ saved' = IF stream[n] = "deliverable" THEN saved \cup {n} ELSE saved
    /\ session' = [session EXCEPT ![s] = At(session[s], n)]
    /\ UNCHANGED <<agent, stream, call, tab, drops>>

\* Its transaction rolls back: a deliverable that is invalid or cannot be stored.
ProjectionFails(s) ==
    LET n == session[s].pos + 1 IN
    /\ session[s].at = "open" /\ n <= Len(stream) /\ RowFree
    /\ StoreFails /\ stream[n] = "deliverable" /\ ~Ignored(n)
    /\ session' = [session EXCEPT ![s].at = "failing", ![s].pos = n]
    /\ UNCHANGED <<agent, stream, row, saved, call, tab, drops>>

\* Sending to a browser that is gone raises, unless the network hides it.
SendEvent(s) ==
    /\ session[s].at = "sending"
    /\ \/ session' = [session EXCEPT ![s].at = "open"]
       \/ ~session[s].alive /\ session' = [session EXCEPT ![s].at = "failing"]
    /\ UNCHANGED <<agent, stream, row, saved, call, tab, drops>>

\* Any exception of the two ends the Run's projection and the session.
FailEventProjection(s) ==
    /\ session[s].at = "failing" /\ RowFree
    /\ row' = Failed(session[s].pos)
    /\ session' = [session EXCEPT ![s] = NoSession]
    /\ UNCHANGED <<agent, stream, saved, call, tab, drops>>

\* The Agent's stream ends after a stream_done.  Once it is closed it also ends
\* when nothing is to come, and early, behind the last event that it replays,
\* when it was closed during the replay (the rest takes another connection).
Complete(s) ==
    LET n == session[s].pos IN
    /\ session[s].at = "open"
    /\ \/ n \in DOMAIN stream /\ stream[n] \in Done
       \/ Closed /\ n >= Len(stream)
       \/ Closed /\ n # 0 /\ n = session[s].replay
    /\ session' = [session EXCEPT ![s].at = "ended"]
    /\ UNCHANGED <<agent, stream, row, saved, call, tab, drops>>

\* The connection to the Agent breaks: the session ends with an error.
StreamLost(s) ==
    /\ session[s].at = "open" /\ drops < MaxDrops
    /\ drops' = drops + 1
    /\ session' = [session EXCEPT ![s].at = "off"]
    /\ UNCHANGED <<agent, stream, row, saved, call, tab>>

\* The platform notices that the browser is gone.
Dispose(s) ==
    /\ session[s].at \in {"open", "ended"} /\ ~session[s].alive
    /\ session' = [session EXCEPT ![s] = NoSession]
    /\ UNCHANGED <<agent, stream, row, saved, call, tab, drops>>

-----------------------------------------------------------------------------
(* A page.                                                                    *)

Connect(t) ==
    /\ tab[t].at = "following" /\ tab[t].session = None /\ MayReconnect(t) /\ row.bound
    /\ \E s \in Sessions :
         /\ session[s].at = "off" /\ \A u \in Tabs : tab[u].session # s
         /\ session' = [session EXCEPT ![s] = [at |-> "open", pos |-> ResumeAt(t),
                                               read |-> ResumeAt(t),
                                               replay |-> Replayed(ResumeAt(t)),
                                               alive |-> TRUE]]
         /\ tab' = [tab EXCEPT ![t].session = s]
    /\ UNCHANGED <<agent, stream, row, saved, call, drops>>

\* What has been sent on a session and can be read.
SentOn(s) == IF session[s].at \in {"sending", "failing"} THEN session[s].pos - 1 ELSE session[s].pos

\* The page stops at a stream_done, and already at a question.
ReadEvent(t) ==
    LET s == tab[t].session  n == session[s].read + 1
        last == stream[n] \in Done \cup {"clarification_required"} IN
    /\ s # None /\ session[s].alive /\ n <= SentOn(s)
    /\ session' = [session EXCEPT ![s].read = n, ![s].alive = ~last]
    /\ tab' = [tab EXCEPT ![t] = [at |-> IF last THEN "finished" ELSE "following",
                                  session |-> IF last THEN None ELSE s,
                                  got |-> Larger(tab[t].got, n), tries |-> tab[t].tries]]
    /\ UNCHANGED <<agent, stream, row, saved, call, drops>>

EndOfStream(t) ==
    LET s == tab[t].session IN
    /\ s # None
    /\ session[s].at = "off" \/ (session[s].at = "ended" /\ session[s].read = session[s].pos)
    /\ session' = [session EXCEPT ![s].alive = FALSE]
    /\ tab' = [tab EXCEPT ![t].session = None, ![t].tries = @ + 1]
    /\ UNCHANGED <<agent, stream, row, saved, call, drops>>

\* A connection breaks, or its ten minutes are over; the page sees it at once.
Drop(t) ==
    LET s == tab[t].session IN
    /\ s # None /\ session[s].alive /\ drops < MaxDrops
    /\ drops' = drops + 1
    /\ session' = [session EXCEPT ![s].alive = FALSE]
    /\ tab' = [tab EXCEPT ![t].session = None, ![t].tries = @ + 1]
    /\ UNCHANGED <<agent, stream, row, saved, call>>

\* The page is loaded anew: what the row holds is history, the rest is followed.
Reload(t) ==
    LET s == tab[t].session IN
    /\ row.status \in {"queued", "running"} /\ row.bound /\ drops < MaxDrops
    /\ drops' = drops + 1
    /\ session' = IF s = None THEN session ELSE [session EXCEPT ![s].alive = FALSE]
    /\ tab' = [tab EXCEPT ![t] = [at |-> "following", session |-> None,
                                  got |-> row.seq, tries |-> 0]]
    /\ UNCHANGED <<agent, stream, row, saved, call>>

-----------------------------------------------------------------------------

Agent    == AgentStart \/ AgentPublish \/ \E status \in Done : AgentEnd(status)
Calls    == AgentAccept \/ SubmitReturns \/ AgentCancel \/ CancelReturns
Serve(s) == \/ ProjectEvent(s) \/ ProjectionFails(s) \/ SendEvent(s)
            \/ FailEventProjection(s) \/ Complete(s) \/ Dispose(s)
Page(t)  == Connect(t) \/ ReadEvent(t) \/ EndOfStream(t)

Next ==
    \/ SubmitMessage \/ SubmitFails \/ CancelRun \/ CancelFails
    \/ Agent \/ Calls
    \/ \E s \in Sessions : Serve(s) \/ StreamLost(s)
    \/ \E t \in Tabs : Page(t) \/ Drop(t) \/ Reload(t)

Spec == Init /\ [][Next]_vars

\* Threads, event loops and HTTP time limits: what is under way goes on; the
\* database grants the row in turn, so that cancellations cannot starve a session.
Fairness ==
    /\ WF_vars(Agent) /\ WF_vars(Calls) /\ WF_vars(CancelFails)
    /\ \A s \in Sessions : SF_vars(Serve(s))
    /\ \A t \in Tabs : WF_vars(Page(t))

FairSpec == Spec /\ Fairness

-----------------------------------------------------------------------------
(* Properties. *)

Session == [at : {"off", "open", "sending", "failing", "ended"},
            pos : Nat, read : Nat, replay : Nat, alive : BOOLEAN]
Tab     == [at : {"following", "finished"}, session : Sessions \cup {None},
            got : Nat, tries : 0 .. (MaxReconnects + 1)]

TypeOK ==
    /\ agent \in [status : AgentStatus, stop : BOOLEAN, due : Seq(Kind)]
    /\ stream \in Seq(Kind)
    /\ row \in Row
    /\ saved \subseteq DOMAIN stream
    /\ call \in [by : {"nobody", "submit", "cancel"}, snap : Row, reply : AgentStatus]
    /\ session \in [Sessions -> Session]
    /\ tab \in [Tabs -> Tab]
    /\ drops \in 0 .. MaxDrops

\* A Run is shown as succeeded only when the Agent's Run has and everything it
\* delivered is stored: no session skips an event the row has not seen.
SucceededComplete ==
    row.status = "succeeded" =>
        /\ agent.status = "succeeded"
        /\ \A n \in DOMAIN stream : stream[n] = "deliverable" => n \in saved

\* A Run is shown as cancelled only when the Agent's Run is, or is going to be.
CancelledStops ==
    row.status = "cancelled" =>
        agent.status = "cancelled" \/ (agent.status = "running" /\ agent.stop)

\* The row is well-formed and claims neither a success nor a cancellation that
\* is not so.
RowInvariant == TypeOK /\ SucceededComplete /\ CancelledStops

\* No writer of the row undoes another one: neither the final status nor the
\* position in the stream is lost to a row read before a call to the Agent.
NeverUndone ==
    [][/\ row'.seq >= row.seq
       /\ row.status \in Terminal => row'.status = row.status]_vars

\* The end of a Run that was accepted reaches the row (a Run whose question is
\* shown may end unseen, by a cancellation whose answer is lost), unless
\* connections break more often than a page retries: one of its retries may go
\* to a connection that the Agent ended early.
RowSettles ==
    agent.status \in Terminal /\ row.bound ~> row.status \in Done \/ drops > MaxReconnects - 1

\* States are shown correctly (MVP design, acceptance 9): an accepted Run is
\* shown as failed only when the Agent's Run has failed.
FailedMeansFailed == row.status = "failed" /\ row.bound => agent.status = "failed"

=============================================================================
