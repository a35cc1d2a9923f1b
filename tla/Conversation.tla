---------------------------- MODULE Conversation ----------------------------
(***************************************************************************)
(* ConversationService: the front door of the Agent.  A message becomes one *)
(* Run; the service keeps, in memory, the futures of the submissions being  *)
(* created, the answers it has given (for repeated request ids), the        *)
(* context of each conversation, the slot of each Run and the hand-over of  *)
(* a prepared submission to the Run's graph.                                *)
(*                                                                          *)
(* asyncio switches tasks where an await suspends: here at a call of the    *)
(* Run repository, the cancellation signal, a model, an event listener, and *)
(* at a conversation's turn lock.  The service's own lock and the stores'   *)
(* are never held over such a call, so what is done under one is one step.  *)
(*                                                                          *)
(* A Run is named by its request: the repository has one Run per request id *)
(* (RunLifecycle).  What a message says, history and usage are left out.    *)
(***************************************************************************)
EXTENDS Naturals, Sequences, FiniteSets, FiniteSetsExt

CONSTANTS
    Requests,       \* request ids of one tenant
    Talks,          \* its conversations
    Placements,     \* bound: the ways its requests are spread over them
    MaxCalls,       \* bound: the calls of submit that are made
    Entries,        \* bound: _ContextEntry objects alive at a time
    MaxContexts, MaxRequests, MaxActive,
    None

ASSUME ConversationAssumption ==
    /\ Placements \subseteq [Requests -> Talks]
    /\ IsFiniteSet(Requests) /\ MaxCalls \in Nat
    /\ MaxContexts \in Nat \ {0} /\ MaxRequests \in Nat \ {0} /\ MaxActive \in Nat \ {0}
    /\ None \notin Requests \cup Entries \cup Talks

VARIABLES
    call,       \* [Calls -> [pc, request, entry, seen]]: submissions under way
    pending,    \* requests with a future: _pending
    cached,     \* requests answered lately, oldest first: _requests
    told,       \* requests some client has been told the Run of
    contexts,   \* entries in use, least recently used first: _contexts
    entry,      \* [Entries -> the fields of a _ContextEntry]
    active,     \* [Requests -> entry holding the Run's slot, or None]: _active_runs
    run,        \* [Requests -> [talk, status, cancel]]: the Run in the repository
    pipe,       \* [Requests -> [pc, entry]]: the background task of the Run
    due,        \* [Requests -> SUBSET news]: listener notifications on their way
    scenario, direct,   \* requests in the two hand-over stores
    astray      \* history: requests submit lost track of (see Submit and Register)

vars == <<call, pending, cached, told, contexts, entry, active, run, pipe, due,
          scenario, direct, astray>>

Calls  == 1..MaxCalls        \* numbered in the order they are made
Done   == [pc |-> "done", request |-> None, entry |-> None, seen |-> None]
Blank  == [talk |-> None, waiting |-> {}, turn |-> None, intent |-> "none"]
\* How a Run ended is RunLifecycle's concern; _is_cancelled is true from the
\* request to cancel on.
Over(r) == run[r].status = "over"
Stopped(r) == Over(r) \/ run[r].cancel

Elements(s) == {s[i] : i \in DOMAIN s}
Without(s, gone) ==
    LET left[n \in 0..Len(s)] == IF n = 0 THEN <<>>
                                 ELSE IF s[n] \in gone THEN left[n - 1]
                                 ELSE Append(left[n - 1], s[n])
    IN  left[Len(s)]

(* An operator Faulty... is a slip the code could have made in the operator *)
(* that follows it: the properties below are known to notice them.          *)
Touched(s, x) == Append(Without(s, {x}), x)

----------------------------------------------------------------------------
(* The contexts.  Only one that no Run waits in may be given up. *)

Unpinned(s) == SelectSeq(s, LAMBDA e : entry[e].waiting = {})
First(s, n) == {s[i] : i \in 1..(IF n < Len(s) THEN n ELSE Len(s))}

\* _evict_contexts, after the entries `pinned` got a Run that waits.
Evicted(s, pinned) ==
    LET idle == Without(Unpinned(s), pinned)
    IN  Without(s, First(idle, IF Len(s) > MaxContexts THEN Len(s) - MaxContexts ELSE 0))

Of(s, talk) == {e \in Elements(s) : entry[e].talk = talk}

\* _context_entry finds the conversation unknown, no room, and none to give up.
NoContext(s, talk) == Of(s, talk) = {} /\ Len(s) >= MaxContexts /\ Unpinned(s) = <<>>

\* An entry a collected one may be reused for: nothing refers to it any more.
Referred(ctx, act, pp, cl) ==
    Elements(ctx) \cup {act[r] : r \in Requests} \cup {pp[r].entry : r \in Requests}
                  \cup {cl[k].entry : k \in Calls}
Kept(f, alive) == [e \in Entries |-> IF e \in alive THEN f[e] ELSE Blank]
Spare == Entries \ Referred(contexts, active, pipe, call)
Fresh == CHOOSE e \in Spare : TRUE

\* _context_entry: the conversation's entry and the contexts afterwards.
Opened(s, talk) ==
    IF Of(s, talk) # {}
    THEN LET e == CHOOSE x \in Of(s, talk) : TRUE
         IN  [entry |-> e, contexts |-> Evicted(Touched(s, e), {})]
    ELSE LET room == IF Len(s) >= MaxContexts THEN Without(s, First(Unpinned(s), 1)) ELSE s
         IN  [entry |-> Fresh, contexts |-> Evicted(Append(room, Fresh), {})]

----------------------------------------------------------------------------
(* submit, up to its hand-over to the Harness.  Answers in _requests and    *)
(* contexts nobody waits in expire after an hour: `stale` and `aged` are    *)
(* those that did.  Nothing of a Run is on its way for that long: its       *)
(* budget is five minutes.                                                  *)

Quiet(r) == due[r] = {} /\ pipe[r].pc = "none"
Busy(e) == \/ entry[e].waiting # {}
           \/ \E r \in Requests : ~Quiet(r) /\ e \in {pipe[r].entry, active[r]}
           \/ \E k \in Calls : call[k].entry = e

FaultySlotFree(r) == Cardinality({x \in Requests : active[x] # None}) < MaxActive
SlotFree(r) == Cardinality(pending) + Cardinality({x \in Requests : active[x] # None}) < MaxActive

Submit(k, r) ==
    /\ call[k].pc = "idle" /\ \A j \in 1..(k - 1) : call[j].pc # "idle"
    /\ Spare # {}
    /\ \E stale \in SUBSET {x \in Elements(cached) : Quiet(x)},
          aged \in SUBSET {e \in Elements(contexts) : ~Busy(e)} :
        LET known == Without(cached, stale)
            open  == Without(contexts, aged)
            gone  == NoContext(open, run[r].talk)
            place == Opened(open, run[r].talk)
        IN  /\ \/ /\ r \in Elements(known)              \* the same answer again, or a conflict
                  /\ cached' \in {Touched(known, r), known}
                  /\ contexts' = open
                  /\ call' = [call EXCEPT ![k] = Done]
                  /\ UNCHANGED <<pending, astray>>
               \/ /\ r \notin Elements(known) \cup pending
                  /\ ~SlotFree(r)                       \* CONVERSATION_CAPACITY_EXCEEDED
                  /\ cached' = known /\ contexts' = open
                  /\ call' = [call EXCEPT ![k] = Done]
                  /\ UNCHANGED <<pending, astray>>
               \/ /\ r \notin Elements(known) \cup pending
                  /\ SlotFree(r)
                  /\ pending' = pending \cup {r}
                  /\ cached' = known
                  /\ IF gone                            \* refused; the future stays behind
                     THEN /\ contexts' = open
                          /\ astray' = astray \cup {r}
                          /\ call' = [call EXCEPT ![k] = Done]
                     ELSE /\ contexts' = place.contexts
                          /\ call' = [call EXCEPT ![k] = [pc |-> "creating", request |-> r,
                                         entry |-> place.entry, seen |-> None]]
                          /\ UNCHANGED astray
               \/ /\ r \in pending \ Elements(known)    \* another caller is the owner
                  /\ cached' = known
                  /\ IF gone
                     THEN contexts' = open /\ call' = [call EXCEPT ![k] = Done]
                     ELSE /\ contexts' = place.contexts
                          /\ call' = [call EXCEPT ![k] = [Done EXCEPT !.pc = "waiting", !.request = r]]
                  /\ UNCHANGED <<pending, astray>>
            /\ entry' = Kept([entry EXCEPT ![place.entry].talk =
                                 IF place.entry \in Elements(contexts') \/ call'[k].entry # None
                                 THEN run[r].talk ELSE @],
                             Referred(contexts', active, pipe, call'))
    /\ UNCHANGED <<told, active, run, pipe, due, scenario, direct>>

\* Everybody who waits for the future of r is answered, and its owner k returns.
Answered(k, r) == [c \in Calls |->
    IF c = k \/ (call[c].pc = "waiting" /\ call[c].request = r) THEN Done ELSE call[c]]

\* _create_queued: the Run of this request id, new or there already.
Create(k) ==
    LET r == call[k].request
    IN  /\ call[k].pc = "creating" /\ call[k].seen = None
        /\ IF run[r].status = "absent"
           THEN /\ run' = [run EXCEPT ![r].status = "queued"]
                /\ call' = [call EXCEPT ![k].seen = "new"]
           ELSE /\ call' = [call EXCEPT ![k].seen = IF Over(r) THEN "over" ELSE "live"]
                /\ UNCHANGED run
    /\ UNCHANGED <<pending, cached, told, contexts, entry, active, pipe, due, scenario,
                   direct, astray>>

\* The repository fails: the except branch of submit.
FaultyFailed(k) == call' = [call EXCEPT ![k] = Done]
Failed(k)       == call' = Answered(k, call[k].request)
CreateFails(k) ==
    /\ call[k].pc = "creating" /\ call[k].seen = None
    /\ pending' = pending \ {call[k].request}
    /\ Failed(k)
    /\ entry' = Kept(entry, Referred(contexts, active, pipe, call'))
    /\ UNCHANGED <<cached, told, contexts, active, run, pipe, due, scenario, direct, astray>>

\* on_queued, and for a new Run the start of its task.  A Run that was found
\* ended is announced once more, so that its slot is given back.
Announced(k, r) == [due EXCEPT ![r] = IF call[k].seen = "over" THEN @ \cup {"final"} ELSE @]
Register(k) ==
    LET r == call[k].request  e == call[k].entry  known == Touched(cached, r)
    IN  /\ call[k].pc = "creating" /\ call[k].seen # None
        /\ cached' = SubSeq(known, IF Len(known) > MaxRequests
                                   THEN Len(known) - MaxRequests + 1 ELSE 1, Len(known))
        /\ told' = told \cup {r}
        /\ active' = [active EXCEPT ![r] = e]
        /\ pending' = pending \ {r}
        /\ call' = Answered(k, r)
        /\ due' = Announced(k, r)
        /\ pipe' = IF call[k].seen = "new" THEN [pipe EXCEPT ![r] = [pc |-> "queued", entry |-> e]]
                                           ELSE pipe
        /\ entry' = Kept(entry, Referred(contexts, active', pipe', call'))
        /\ astray' = IF (call[k].seen = "live" /\ Over(r)) \/ active[r] \notin {None, e}
                     THEN astray \cup {r} ELSE astray
    /\ UNCHANGED <<contexts, run, scenario, direct>>

----------------------------------------------------------------------------
(* The background task of a Run: _prepare_pipeline under the conversation's *)
(* turn lock, then the graph, which takes the submission over.              *)

\* The end of the task's part under the turn lock.
Unlocked(f, r) == [f EXCEPT ![pipe[r].entry].turn = None]
Ended(r) == run' = [run EXCEPT ![r].status = "over", ![r].cancel = FALSE]
Settled(r) ==
    IF Over(r) THEN UNCHANGED <<run, due>>
    ELSE /\ Ended(r)
         /\ due' = [due EXCEPT ![r] = @ \cup {"final"}]
Gone(r) == pipe' = [pipe EXCEPT ![r] = [pc |-> "none", entry |-> None]]

TakeTurn(r) ==
    /\ pipe[r].pc = "queued"
    /\ ~Stopped(r)
    /\ entry[pipe[r].entry].turn = None
    /\ pipe' = [pipe EXCEPT ![r].pc = "preparing"]
    /\ entry' = [entry EXCEPT ![pipe[r].entry].turn = r]
    /\ UNCHANGED <<call, pending, cached, told, contexts, active, run, due, scenario,
                   direct, astray>>

\* The intent is known, the Run was not cancelled yet: what it becomes.  A
\* waiting clarification keeps its conversation from the local answers, and
\* one of the first interpreter from the second.
Decide(r) ==
    LET e == pipe[r].entry
    IN  /\ pipe[r].pc = "preparing"
        /\ \E kind \in {"direct", "scenario", "question", "brief"} :
              /\ kind # "brief" => ~Stopped(r)
              /\ kind = "brief" => entry[e].intent # "first"
              /\ pipe' = [pipe EXCEPT ![r].pc = kind]
    /\ UNCHANGED <<call, pending, cached, told, contexts, entry, active, run, due, scenario,
                   direct, astray>>

\* _prepare_direct: the submission and the context change under the lock the
\* listener takes, and only while the Run has its slot.
HasSlot(r) == active[r] # None
PutDirect(r) ==
    /\ pipe[r].pc = "direct" /\ HasSlot(r)
    /\ direct' = direct \cup {r}
    /\ entry' = Unlocked([entry EXCEPT ![pipe[r].entry].intent = "none"], r)
    /\ pipe' = [pipe EXCEPT ![r].pc = "ready"]
    /\ UNCHANGED <<call, pending, cached, told, contexts, active, run, due, scenario, astray>>

\* A scenario, with or without a question to the user, or the second
\* interpreter's research brief: stored whatever has become of the Run.
PutScenario(r) ==
    /\ pipe[r].pc \in {"scenario", "question", "brief"}
    /\ scenario' = scenario \cup {r}
    /\ \E by \in IF pipe[r].pc = "question" THEN {"first", "second"} ELSE {"none"} :
          entry' = Unlocked([entry EXCEPT ![pipe[r].entry].intent = by], r)
    /\ pipe' = [pipe EXCEPT ![r].pc = "ready"]
    /\ UNCHANGED <<call, pending, cached, told, contexts, active, run, due, direct, astray>>

\* The preparation fails, is refused or notices the cancellation, and
\* _settle_background_failure ends the Run if nobody has.
PrepareFails(r) ==
    /\ pipe[r].pc \in {"queued", "preparing", "direct"}
    /\ pipe[r].pc = "queued" => Stopped(r)
    /\ pipe[r].pc = "direct" => ~HasSlot(r)
    /\ Settled(r)
    /\ Gone(r)
    /\ entry' = Kept(IF pipe[r].pc = "queued" THEN entry ELSE Unlocked(entry, r),
                     Referred(contexts, active, pipe', call))
    /\ UNCHANGED <<call, pending, cached, told, contexts, active, scenario, direct, astray>>

\* The graph starts and resolves the submission; a Run cancelled meanwhile ends here.
StartGraph(r) ==
    /\ pipe[r].pc = "ready"
    /\ IF Stopped(r)
       THEN /\ Gone(r) /\ UNCHANGED <<run, scenario, direct>>
            /\ entry' = Kept(entry, Referred(contexts, active, pipe', call))
       ELSE /\ run' = [run EXCEPT ![r].status = "running"]
            /\ pipe' = [pipe EXCEPT ![r].pc = "graph"]
            /\ scenario' = scenario \ {r} /\ direct' = direct \ {r}
            /\ UNCHANGED entry
    /\ UNCHANGED <<call, pending, cached, told, contexts, active, due, astray>>

\* The graph's outcome is saved; its listeners hear of it later.
FinishGraph(r) ==
    /\ pipe[r].pc = "graph"
    /\ \/ Ended(r) /\ due' = [due EXCEPT ![r] = @ \cup {"final"}]
       \/ /\ ~run[r].cancel
          /\ run' = [run EXCEPT ![r].status = "waiting"]
          /\ due' = [due EXCEPT ![r] = @ \cup {"waiting"}]
    /\ Gone(r)
    /\ entry' = Kept(entry, Referred(contexts, active, pipe', call))
    /\ UNCHANGED <<call, pending, cached, told, contexts, active, scenario, direct, astray>>

----------------------------------------------------------------------------
(* What the user does to a Run, whose id he has from an answer of submit. *)

Cancel(r) ==
    /\ r \in told
    /\ run[r].status \in {"queued", "running", "waiting"} /\ ~run[r].cancel
    /\ IF run[r].status = "running"
       THEN run' = [run EXCEPT ![r].cancel = TRUE] /\ UNCHANGED due
       ELSE /\ Ended(r)
            /\ due' = [due EXCEPT ![r] = @ \cup {"final"}]
    /\ UNCHANGED <<call, pending, cached, told, contexts, entry, active, pipe, scenario,
                   direct, astray>>

Resume(r) ==
    /\ run[r].status = "waiting" /\ pipe[r].pc = "none"
    /\ run' = [run EXCEPT ![r].status = "running"]
    /\ pipe' = [pipe EXCEPT ![r] = [pc |-> "graph", entry |-> None]]
    /\ UNCHANGED <<call, pending, cached, told, contexts, entry, active, due, scenario,
                   direct, astray>>

----------------------------------------------------------------------------
(* on_run_state: the listener that keeps or releases what a Run holds. *)

\* A Run waits for its user: its own entry becomes its conversation's again.
HearWaiting(r) ==
    /\ "waiting" \in due[r]
    /\ due' = [due EXCEPT ![r] = @ \ {"waiting"}]
    /\ LET e == active[r]
       IN  IF e = None THEN UNCHANGED <<contexts, entry>>
           ELSE /\ contexts' = Evicted(Append(Without(contexts, Of(contexts, run[r].talk)), e), {e})
                /\ entry' = Kept([entry EXCEPT ![e].waiting = @ \cup {r}],
                                 Referred(contexts', active, pipe, call))
    /\ UNCHANGED <<call, pending, cached, told, active, run, pipe, scenario, direct, astray>>

\* A Run has ended: its slot, its hold on the context and its submissions go.
FaultyReleased(e, r) == entry
Released(e, r) == [entry EXCEPT ![e].waiting = @ \ {r}]
HearFinal(r) ==
    /\ "final" \in due[r]
    /\ due' = [due EXCEPT ![r] = @ \ {"final"}]
    /\ IF active[r] = None THEN UNCHANGED <<active, entry, scenario, direct>>
       ELSE /\ active' = [active EXCEPT ![r] = None]
            /\ entry' = Kept(Released(active[r], r), Referred(contexts, active', pipe, call))
            /\ scenario' = scenario \ {r} /\ direct' = direct \ {r}
    /\ UNCHANGED <<call, pending, cached, told, contexts, run, pipe, astray>>

----------------------------------------------------------------------------
Init ==
    /\ call = [k \in Calls |-> [Done EXCEPT !.pc = "idle"]]
    /\ pending = {} /\ cached = <<>> /\ contexts = <<>>
    /\ told = {}
    /\ entry = [e \in Entries |-> Blank]
    /\ active = [r \in Requests |-> None]
    /\ \E place \in Placements :
          run = [r \in Requests |-> [talk |-> place[r], status |-> "absent", cancel |-> FALSE]]
    /\ pipe = [r \in Requests |-> [pc |-> "none", entry |-> None]]
    /\ due = [r \in Requests |-> {}]
    /\ scenario = {} /\ direct = {} /\ astray = {}

Work(r) == TakeTurn(r) \/ Decide(r) \/ PutDirect(r) \/ PutScenario(r) \/ PrepareFails(r)
           \/ StartGraph(r) \/ FinishGraph(r)

Next ==
    \/ \E k \in Calls, r \in Requests : Submit(k, r)
    \/ \E k \in Calls : Create(k) \/ CreateFails(k) \/ Register(k)
    \/ \E r \in Requests : Work(r) \/ Cancel(r) \/ Resume(r) \/ HearWaiting(r) \/ HearFinal(r)

Spec == Init /\ [][Next]_vars

\* The event loop goes on with every task; clients and users do what they like.
Fairness ==
    /\ \A k \in Calls : WF_vars(Create(k) \/ Register(k))
    /\ \A r \in Requests : WF_vars(Work(r)) /\ WF_vars(HearWaiting(r)) /\ WF_vars(HearFinal(r))
FairSpec == Spec /\ Fairness

----------------------------------------------------------------------------
TypeOK ==
    /\ call \in [Calls -> [pc : {"idle", "creating", "waiting", "done"}, request : Requests \cup {None},
                             entry : Entries \cup {None}, seen : {None, "new", "live", "over"}]]
    /\ pending \subseteq Requests /\ told \subseteq Requests
    /\ run \in [Requests -> [talk : Talks, status : {"absent", "queued", "running", "waiting", "over"},
                             cancel : BOOLEAN]]
    /\ cached \in Seq(Requests) /\ Len(cached) <= MaxRequests
    /\ contexts \in Seq(Entries) /\ Cardinality(Elements(contexts)) = Len(contexts)
    /\ \A talk \in Talks : Cardinality(Of(contexts, talk)) <= 1
    /\ entry \in [Entries -> [talk : Talks \cup {None}, waiting : SUBSET Requests,
                              turn : Requests \cup {None}, intent : {"none", "first", "second"}]]
    /\ active \in [Requests -> Entries \cup {None}]
    /\ pipe \in [Requests -> [pc : {"none", "queued", "preparing", "direct", "scenario",
                                    "question", "brief", "ready", "graph"},
                              entry : Entries \cup {None}]]
    /\ due \in [Requests -> SUBSET {"waiting", "final"}]
    /\ scenario \subseteq Requests /\ direct \subseteq Requests /\ astray \subseteq Requests

\* However many submissions are being created at once, they and the Runs that
\* hold a slot are never more than the service admits (max_active_runs).
SlotsBounded ==
    Cardinality(pending) + Cardinality({r \in Requests : active[r] # None}) <= MaxActive

\* A direct submission never outlives its Run's slot: the preparation that
\* comes after the cancellation's clean-up is turned away (_prepare_direct).
DirectHandedOver == \A r \in direct : active[r] # None

\* The service's tables are well-formed, agree with each other and are within
\* its capacity.
SlotInvariant == TypeOK /\ SlotsBounded /\ DirectHandedOver

\* A context is kept from eviction only for Runs that still wait or whose end
\* is about to be heard: an ended Run pins no conversation, unless a repeated
\* submission registered it after that or moved it to a newer context.
PinnedForLive ==
    \A e \in Elements(contexts) :
        \A r \in entry[e].waiting \ astray : ~Over(r) \/ "final" \in due[r]

\* Whoever waits for a submission another caller makes is answered, unless that
\* one was refused for want of a context and left its future behind.
AnswersArrive ==
    \A k \in Calls :
        (call[k].pc = "waiting" /\ call[k].request \notin astray) ~> call[k].pc = "done"

\* The slot of a Run that has ended is given back, unless a repeated submission
\* read the Run alive and registered it after its end was heard.
SlotsFreed ==
    \A r \in Requests : (active[r] # None /\ Over(r) /\ r \notin astray) ~> active[r] = None

\* What a caller asks for comes to an end, and so does what it occupies.
RequestsEnd == AnswersArrive /\ SlotsFreed

\* "The same tenant and request_id submitted again returns the original Run"
\* (the conversation design, section 9.2), and a refusal for want of a context
\* is marked retryable: the repeated call is answered.
RetryAnswered == \A k \in Calls : call[k].pc = "waiting" ~> call[k].pc = "done"

=============================================================================
