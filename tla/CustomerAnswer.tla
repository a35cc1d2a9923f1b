--------------------------- MODULE CustomerAnswer ---------------------------
(***************************************************************************)
(* One question to the customer service, from the page to the stored        *)
(* answer.  The Agent keeps the Run and its event log in memory.  Java      *)
(* keeps the Run's row and the assistant message in the database, and has   *)
(* nobody of its own who follows the log: the events a page subscribes to   *)
(* pass through Java, which projects each into the database on the way.     *)
(* Several pages may look at once, and a page that went away leaves its     *)
(* subscription behind, which goes on projecting until a send fails.        *)
(*                                                                          *)
(* A piece of the answer is named by the sequence number of its event; what *)
(* it says, citations, titles and stages are left out: their events are     *)
(* "step".  A database transaction is one step but for project, whose reads *)
(* come before its conditional update.                                      *)
(***************************************************************************)
EXTENDS Naturals, Sequences, SequencesExt

CONSTANTS
    Pages,          \* browser pages at which the question is looked at
    Sessions,       \* bound: subscriptions open at a time
    MaxReconnects,  \* connectCustomerServiceRun: maxReconnects
    MaxLog,         \* bound: events before the result is published
    Nobody

ASSUME CustomerAssumption ==
    /\ MaxReconnects \in Nat /\ MaxLog \in Nat
    /\ Nobody \notin Pages

VARIABLES
    agent,  \* [status, log]: the Agent's Run; "none" before, "lost" after a restart
    call,   \* [pc, tries, reply, by]: the submission under way in Java
    row,    \* [status, last, bound]: ai_customer_service_run
    msg,    \* [status, text]: the assistant message
    sess,   \* [Sessions -> [pc, at, upto, owner, seen, text]]: subscriptions
    page    \* [Pages -> [pc, shows, cursor, text, tries]]

vars == <<agent, call, row, msg, sess, page>>

Terminal == {"SUCCEEDED", "FAILED", "CANCELLED"}
Over(x)  == x.status \in Terminal

\* The status an event carries, by its kind.
StatusOf(kind) ==
    CASE kind = "accepted"  -> "PENDING"
      [] kind = "completed" -> "SUCCEEDED"
      [] kind = "failed"    -> "FAILED"
      [] kind = "cancelled" -> "CANCELLED"
      [] OTHER              -> "RUNNING"

\* The pieces of the answer among the events from..to, in their order.
Pieces(from, to) ==
    LET read[n \in 0..to] == IF n = 0 THEN <<>>
                             ELSE IF n >= from /\ agent.log[n] = "delta" THEN Append(read[n - 1], n)
                             ELSE read[n - 1]
    IN  read[to]

Free   == [pc |-> "free", at |-> 0, upto |-> 0, owner |-> Nobody, seen |-> 0, text |-> <<>>]
Closed == [pc |-> "closed", shows |-> "IDLE", cursor |-> 0, text |-> <<>>, tries |-> 0]

(* An operator Faulty... is a slip the code could have made in the operator *)
(* that follows it: the properties below are known to notice them.          *)

----------------------------------------------------------------------------
(* The Agent's Run.  One task appends its events; _append and the change of *)
(* status before it are one step, as nothing is awaited between them.       *)

Logged(status, kinds) == agent' = [status |-> status, log |-> agent.log \o kinds]

Start ==
    /\ agent.status = "PENDING"
    /\ Logged("RUNNING", <<"started">>)
    /\ UNCHANGED <<call, row, msg, sess, page>>

\* The graph's callbacks: a stage, a title, or a block of the answer.
Work ==
    /\ agent.status = "RUNNING" /\ Len(agent.log) < MaxLog
    /\ \E kind \in {"step", "delta"} : Logged("RUNNING", <<kind>>)
    /\ UNCHANGED <<call, row, msg, sess, page>>

\* _publish_result: the whole answer at once if no block was streamed, else
\* the blocks that remain; then the end.
Remaining == IF Contains(agent.log, "delta") THEN {<<>>, <<"delta">>} ELSE {<<"delta">>}

Publish ==
    /\ agent.status = "RUNNING"
    /\ \E rest \in Remaining : Logged("SUCCEEDED", rest \o <<"completed">>)
    /\ UNCHANGED <<call, row, msg, sess, page>>

Fail ==
    /\ agent.status = "RUNNING"
    /\ Logged("FAILED", <<"failed">>)
    /\ UNCHANGED <<call, row, msg, sess, page>>

\* The stream of these pages ends in an error: they show FAILED and ask for the
\* stored messages.
Erred(pages) ==
    page' = [p \in Pages |-> IF p \in pages
                             THEN [page[p] EXCEPT !.pc = "refreshing", !.shows = "FAILED"]
                             ELSE page[p]]

\* The Agent stops and starts again: Runs are in memory only.
Restart ==
    /\ agent.status \notin {"none", "lost"}
    /\ agent' = [agent EXCEPT !.status = "lost"]
    /\ sess' = [s \in Sessions |-> Free]
    /\ Erred({p \in Pages : page[p].pc = "live"})
    /\ UNCHANGED <<call, row, msg>>

----------------------------------------------------------------------------
(* Submitting: the pending rows first, then the Agent, then the binding.    *)

Submit(p) ==
    /\ call.pc = "idle" /\ page[p].pc = "closed"
    /\ call' = [call EXCEPT !.pc = "sending", !.by = p]
    /\ row' = [row EXCEPT !.status = "PENDING"]
    /\ msg' = [msg EXCEPT !.status = "PENDING"]
    /\ page' = [page EXCEPT ![p] = [Closed EXCEPT !.pc = "submitting", !.shows = "SUBMITTING"]]
    /\ UNCHANGED <<agent, sess>>

\* The Agent's submit, idempotent by request id: a new Run, or the one there
\* is as it stands now.
Accept ==
    /\ call.pc = "sending"
    /\ agent' = IF agent.status \in {"none", "lost"}
                THEN [status |-> "PENDING", log |-> <<"accepted">>] ELSE agent
    /\ call' = [call EXCEPT !.pc = "accepted", !.reply = agent'.status]
    /\ UNCHANGED <<row, msg, sess, page>>

\* The request or its answer is lost: exchange asks once more.
LoseAnswer ==
    /\ call.pc \in {"sending", "accepted"}
    /\ call' = IF call.tries = 0 THEN [call EXCEPT !.pc = "sending", !.tries = 1]
                                 ELSE [call EXCEPT !.pc = "failing"]
    /\ UNCHANGED <<agent, row, msg, sess, page>>

Done == [pc |-> "done", tries |-> 0, reply |-> "none", by |-> Nobody]

\* Only the page that asked waits for the answer, if it is still there.
Answered(view) ==
    page' = [p \in Pages |-> IF p = call.by /\ page[p].pc = "submitting" THEN view ELSE page[p]]

Bind ==
    /\ call.pc = "accepted"
    /\ row' = [row EXCEPT !.status = call.reply, !.bound = TRUE]
    /\ call' = Done
    /\ Answered([Closed EXCEPT !.pc = "opening", !.shows = "STREAMING"])
    /\ UNCHANGED <<agent, msg, sess>>

\* The Agent could not be reached: first the row, then the message.
FailRow ==
    /\ call.pc = "failing"
    /\ row' = IF row.last = 0 /\ ~Over(row) THEN [row EXCEPT !.status = "FAILED"] ELSE row
    /\ call' = [call EXCEPT !.pc = "failed"]
    /\ UNCHANGED <<agent, msg, sess, page>>

FailMessage ==
    /\ call.pc = "failed"
    /\ msg' = [status |-> "FAILED", text |-> <<>>]
    /\ call' = Done
    /\ Answered([Closed EXCEPT !.pc = "ended", !.shows = "FAILED"])
    /\ UNCHANGED <<agent, row, sess>>

----------------------------------------------------------------------------
(* The page. *)

\* The subscription of a page, given up by it or never there.
Orphaned(p) == [s \in Sessions |-> IF sess[s].owner = p THEN [sess[s] EXCEPT !.owner = Nobody]
                                                        ELSE sess[s]]

\* A page that reads no stream and waits for no answer.
Rests(p) == page[p].pc \in {"closed", "ended", "kept"}

Pending == IF msg.status \in {"PENDING", "STREAMING"} THEN "STREAMING" ELSE "IDLE"

\* selectConversation: the timeline is read in one transaction, and a Run that
\* is not over is subscribed to from the last event of the timeline on.
FaultyOpen(p) ==
    /\ Rests(p) /\ row.status # "none"
    /\ \E before \in 0..row.last :
        page' = [page EXCEPT ![p] = [pc |-> IF Over(row) THEN "ended" ELSE "opening",
            shows |-> Pending, cursor |-> before, text |-> msg.text, tries |-> 0]]
    /\ UNCHANGED <<agent, call, row, msg, sess>>
Open(p) ==
    /\ Rests(p) /\ row.status # "none"
    /\ page' = [page EXCEPT ![p] = [pc |-> IF Over(row) THEN "ended" ELSE "opening",
            shows |-> Pending, cursor |-> row.last, text |-> msg.text, tries |-> 0]]
    /\ UNCHANGED <<agent, call, row, msg, sess>>

\* The same when the timeline could not be read: the stored messages are shown,
\* and nothing is subscribed to.
OpenUnread(p) ==
    /\ Rests(p) /\ row.status # "none"
    /\ page' = [page EXCEPT ![p] = [pc |-> "ended", shows |-> Pending,
            cursor |-> 0, text |-> msg.text, tries |-> 0]]
    /\ UNCHANGED <<agent, call, row, msg, sess>>

\* An event number n of the given kind comes to a page that has read up to
\* its cursor.
Read(v, n, kind) ==
    IF n <= v.cursor THEN v
    ELSE [v EXCEPT !.cursor = n,
                   !.text  = IF kind = "delta" THEN Append(@, n) ELSE @,
                   !.shows = IF StatusOf(kind) \in Terminal THEN StatusOf(kind) ELSE @,
                   !.pc    = IF StatusOf(kind) \in Terminal THEN "refreshing" ELSE @]

\* The stream ended properly before the end of the Run: connect again.
Again(v) == IF v.tries < MaxReconnects
            THEN [v EXCEPT !.pc = "opening", !.tries = @ + 1]
            ELSE [v EXCEPT !.pc = "refreshing", !.shows = "FAILED"]

\* replay: the stored steps after the cursor, read as they were projected.
Replayed(v) ==
    LET ends == row.last > v.cursor /\ StatusOf(agent.log[row.last]) \in Terminal
    IN  IF ends THEN [v EXCEPT !.pc = "refreshing", !.shows = row.status, !.cursor = row.last,
                               !.text = @ \o Pieces(v.cursor + 1, row.last)]
                ELSE Again(v)

\* GET events: an ended Run is replayed from the database, one not bound is
\* refused, any other is subscribed to at the Agent.  What the Agent gives
\* first is the log as it is now.
Connect(p) ==
    /\ page[p].pc = "opening"
    /\ \/ /\ Over(row)
          /\ page' = [page EXCEPT ![p] = Replayed(@)]
          /\ UNCHANGED sess
       \/ /\ ~Over(row) /\ (~row.bound \/ agent.status = "lost")
          /\ Erred({p})
          /\ UNCHANGED sess
       \/ /\ ~Over(row) /\ row.bound /\ agent.status # "lost"
          /\ \E s \in {x \in Sessions : sess[x].pc = "free"} :
                sess' = [sess EXCEPT ![s] = [Free EXCEPT !.pc = "sending", !.owner = p,
                                 !.at = page[p].cursor, !.upto = Len(agent.log)]]
          /\ page' = [page EXCEPT ![p].pc = "live"]
    /\ UNCHANGED <<agent, call, row, msg>>

\* Reading the stream fails: that is not retried.
Break(p) ==
    /\ page[p].pc = "live"
    /\ Erred({p})
    /\ sess' = Orphaned(p)
    /\ UNCHANGED <<agent, call, row, msg>>

\* The end of consume: the Run and the messages are asked for once more.  A page
\* whose read of the messages failed keeps what it was sent; one whose read of
\* the Run failed, or came before its end, takes the messages alone.
Kept(v)          == [v EXCEPT !.pc = "kept"]
Taken(v, status) == [v EXCEPT !.pc = "ended", !.text = msg.text, !.shows = status]

Refresh(p) ==
    /\ page[p].pc = "refreshing"
    /\ \/ page' = [page EXCEPT ![p] = Kept(@)]
       \/ page' = [page EXCEPT ![p] = Taken(@, page[p].shows)]
       \/ /\ row.status = "SUCCEEDED"
          /\ page' = [page EXCEPT ![p] = Taken(@, "SUCCEEDED")]
    /\ UNCHANGED <<agent, call, row, msg, sess>>

Leave(p) ==
    /\ page[p].pc # "closed"
    /\ page' = [page EXCEPT ![p] = Closed]
    /\ sess' = Orphaned(p)
    /\ UNCHANGED <<agent, call, row, msg>>

\* cancel: Java passes it on if the row is bound and not over; the Agent stops
\* the task, which appends nothing more.  The page stops reading.
FaultyCancelled == ~(agent.status \in {"none", "lost", "CANCELLED"})
Cancelled == agent.status \notin {"none", "lost"} /\ ~Over(agent)

Cancel(p) ==
    /\ page[p].pc \in {"opening", "live"} \/ (page[p].pc = "ended" /\ page[p].shows = "STREAMING")
    /\ row.bound => agent.status # "lost"
    /\ IF row.bound /\ ~Over(row) /\ Cancelled THEN Logged("CANCELLED", <<"cancelled">>)
                                              ELSE UNCHANGED agent
    /\ page' = [page EXCEPT ![p].pc = "ended", ![p].shows = "CANCELLED"]
    /\ sess' = Orphaned(p)
    /\ UNCHANGED <<call, row, msg>>

----------------------------------------------------------------------------
(* A subscription: the Agent's generator, and Java's projection of what it  *)
(* gives.  The page learns what was sent to it, and how the stream ended.   *)

\* The generator has given all it took: it ends if the Run is over, even if
\* events came in the meantime, else it waits for the next one.
FaultyTurn(s) ==
    /\ sess[s].pc = "sending" /\ sess[s].at = sess[s].upto
    /\ sess' = [sess EXCEPT ![s].pc = "waiting", ![s].upto = Len(agent.log)]
    /\ UNCHANGED <<agent, call, row, msg, page>>
Turn(s) ==
    /\ sess[s].pc = "sending" /\ sess[s].at = sess[s].upto
    /\ IF Over(agent)
       THEN /\ sess' = [sess EXCEPT ![s] = Free]
            /\ page' = [p \in Pages |-> IF p = sess[s].owner THEN Again(page[p]) ELSE page[p]]
       ELSE /\ sess' = [sess EXCEPT ![s].pc = "waiting", ![s].upto = Len(agent.log)]
            /\ UNCHANGED page
    /\ UNCHANGED <<agent, call, row, msg>>

\* An event was appended while it waited: the rest of the log is taken.
Wake(s) ==
    /\ sess[s].pc = "waiting" /\ Len(agent.log) > sess[s].upto
    /\ sess' = [sess EXCEPT ![s].pc = "sending", ![s].upto = Len(agent.log)]
    /\ UNCHANGED <<agent, call, row, msg, page>>

\* project begins: what its transaction reads, the row and the message.
Locate(s) ==
    /\ sess[s].pc = "sending" /\ sess[s].at < sess[s].upto
    /\ sess' = [sess EXCEPT ![s].pc = "projecting", ![s].seen = row.last, ![s].text = msg.text]
    /\ UNCHANGED <<agent, call, row, msg, page>>

\* The message after an event of the given kind, the text read before.
Told(text, n, kind) ==
    CASE kind = "delta"     -> [status |-> "STREAMING", text |-> Append(text, n)]
      [] kind = "completed" -> [status |-> "COMPLETED", text |-> text]
      [] StatusOf(kind) \in {"FAILED", "CANCELLED"} -> [status |-> StatusOf(kind), text |-> text]
      [] OTHER              -> msg

\* advanceRun: its UPDATE applies to the row as it is.
FaultyAdvances(n) == ~Over(row)
Advances(n) == row.last = n - 1 /\ ~Over(row)

\* The event goes to the page that still reads; sending to a page that went
\* away may fail, which ends the subscription, or not yet.
Sent(s, n) ==
    LET to == sess[s].owner
    IN  IF to = Nobody
        THEN /\ sess' \in {[sess EXCEPT ![s] = Free],
                           [sess EXCEPT ![s] = [Free EXCEPT !.pc = "sending", !.at = n,
                                                            !.upto = sess[s].upto]]}
             /\ UNCHANGED page
        ELSE /\ page' = [page EXCEPT ![to] = Read(@, n, agent.log[n])]
             /\ sess' = [sess EXCEPT ![s] = [Free EXCEPT !.pc = "sending", !.at = n,
                   !.upto = sess[s].upto, !.owner = IF page'[to].pc = "live" THEN to ELSE Nobody]]

\* project ends: seen before, projected now, or lost to another subscription.
Project(s) ==
    LET n == sess[s].at + 1
    IN  /\ sess[s].pc = "projecting"
        /\ \/ /\ n <= sess[s].seen
              /\ Sent(s, n)
              /\ UNCHANGED <<row, msg>>
           \/ /\ n > sess[s].seen /\ Advances(n)
              /\ row' = [row EXCEPT !.last = n, !.status = StatusOf(agent.log[n])]
              /\ msg' = Told(sess[s].text, n, agent.log[n])
              /\ Sent(s, n)
           \/ /\ n > sess[s].seen /\ ~Advances(n)
              /\ sess' = [sess EXCEPT ![s].pc = "sending", ![s].at = n,
                                      ![s].seen = 0, ![s].text = <<>>]
              /\ UNCHANGED <<row, msg, page>>
        /\ UNCHANGED <<agent, call>>

\* The database refuses: nothing is stored, and the stream ends in an error.
ProjectFails(s) ==
    /\ sess[s].pc = "projecting"
    /\ sess' = [sess EXCEPT ![s] = Free]
    /\ Erred({sess[s].owner})
    /\ UNCHANGED <<agent, call, row, msg>>

----------------------------------------------------------------------------
Init ==
    /\ agent = [status |-> "none", log |-> <<>>]
    /\ call = [pc |-> "idle", tries |-> 0, reply |-> "none", by |-> Nobody]
    /\ row = [status |-> "none", last |-> 0, bound |-> FALSE]
    /\ msg = [status |-> "none", text |-> <<>>]
    /\ sess = [s \in Sessions |-> Free]
    /\ page = [p \in Pages |-> Closed]

Agent   == Start \/ Work \/ Publish \/ Fail \/ Restart
Calling == (\E p \in Pages : Submit(p)) \/ Accept \/ LoseAnswer \/ Bind \/ FailRow \/ FailMessage
Browser(p) == Open(p) \/ OpenUnread(p) \/ Connect(p) \/ Break(p) \/ Refresh(p) \/ Leave(p) \/ Cancel(p)
Stream(s) == Turn(s) \/ Wake(s) \/ Locate(s) \/ Project(s) \/ ProjectFails(s)

Next ==
    \/ Agent
    \/ Calling
    \/ \E p \in Pages : Browser(p)
    \/ \E s \in Sessions : Stream(s)

Spec == Init /\ [][Next]_vars

\* Subscriptions that have something to do go on, and so does a page.
Fairness ==
    /\ \A s \in Sessions : WF_vars(Turn(s) \/ Wake(s) \/ Locate(s) \/ Project(s))
    /\ SF_vars(\E s \in Sessions : Project(s))
    /\ \A p \in Pages : WF_vars(Refresh(p))

\* Somebody comes back to the question until it is answered, and stays long
\* enough to be subscribed.
Watched == \A p \in Pages : SF_vars(Open(p)) /\ SF_vars(Connect(p))

FairSpec == Spec /\ Fairness /\ Watched

----------------------------------------------------------------------------
TypeOK ==
    /\ agent.status \in {"none", "PENDING", "RUNNING", "lost"} \cup Terminal
    /\ row.status \in {"none", "PENDING", "RUNNING"} \cup Terminal
    /\ row.last \in 0..Len(agent.log) /\ row.bound \in BOOLEAN
    /\ \A s \in Sessions : /\ sess[s].owner \in Pages \cup {Nobody}
                           /\ sess[s].upto <= Len(agent.log)
    /\ \A p \in Pages : (page[p].pc = "live") <=> \E s \in Sessions : sess[s].owner = p

\* The stored answer is what the events up to the row's last one say, each
\* piece once and in order, however many subscriptions project them and
\* whatever is lost (the conditional update of advanceRun, the one
\* transaction of project).
AnswerWhole == msg.text = Pieces(1, row.last)

\* What is stored is well-formed and is the answer so far.
StoreInvariant == TypeOK /\ AnswerWhole

\* A Run that ended by its events ended as the Agent's did: the last event
\* was the last there is, and row and message say the same.
EndsAlike ==
    (Over(row) /\ row.last > 0) =>
        /\ row.last = Len(agent.log) /\ row.status = StatusOf(Last(agent.log))
        /\ msg.status = IF row.status = "SUCCEEDED" THEN "COMPLETED" ELSE row.status

\* A page shows every piece at most once and in order, whether it came with
\* the timeline, with the stream or after a new connection; and once it has
\* taken the stored messages of a Run it shows as succeeded, the whole answer,
\* though pieces projected by another subscription were kept from it.  A page
\* whose last read of the messages failed ("kept") may show less as succeeded
\* (selectConversation, consume).
ShownFaithful ==
    \A p \in Pages :
        /\ \A i, j \in DOMAIN page[p].text : i < j => page[p].text[i] < page[p].text[j]
        /\ (page[p].pc = "ended" /\ page[p].shows = "SUCCEEDED" /\ row.last > 0) =>
               page[p].text = Pieces(1, Len(agent.log))

\* An answer the Agent has finished is stored in the end, as long as somebody
\* keeps looking and the Agent is not restarted: no subscription waits for
\* an event that will not come.
AnswerStored == (Over(agent) /\ row.bound) ~> (Over(row) \/ agent.status = "lost")

=============================================================================
