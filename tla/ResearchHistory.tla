--------------------------- MODULE ResearchHistory ---------------------------
(* The inductive invariant of ResearchRun: what a stage finds when it begins, *)
(* and what the next one will find when the update of this one is taken.  The *)
(* state of the graph and the facts in the store tell the same evaluated      *)
(* round except while a new one is under way: from clustering to the next     *)
(* evaluation the ids in the state are ahead of the facts.                    *)
EXTENDS ResearchRun

Outcomes == [verdict : Verdicts, reason : Reasons, events : SUBSET Events,
             delivery : Deliveries \cup {None}]

Facts == [status : {"active", "completed", "failed", "cancelled", "timed_out"},
          complete : BOOLEAN, quality : (SUBSET Events) \cup {None}, gaps : SUBSET Gaps,
          claims : SUBSET Claims, draft : Deliveries \cup {None}, accepted : BOOLEAN,
          delivery : Deliveries \cup {None}, outcome : Outcomes \cup {None}]

Refusals == {"ended", "cancelled", "error", "control", "count", "unverified"}

Workers == [stage : Stages \cup {"materialize"},
            step : {"idle", "enter", "work", "leave", "done", "raised"},
            update : States \cup {None}, raised : Refusals \cup {None},
            outcome : Outcomes \cup {None}]

Types ==
    /\ brief \in Briefs /\ state \in States /\ facts \in Facts /\ worker \in Workers
    /\ snapshot \in Deliveries \cup {None}
    /\ runner \in {"start", "wait", "save", "ended"}
    /\ clock \in {"early", "soft", "hard"} /\ cancel \in {"no", "asked", "signalled"}

\* The events of the round that the facts f hold.
EvaluatedIn(f) == IF f.quality = None THEN {} ELSE f.quality

\* The delivery that follows from the facts f and the state s.
DraftOf(f, s) ==
    LET verified == [s EXCEPT !.verified = TRUE]
    IN [events |-> s.qualified, claims |-> f.claims,
        verdict |-> Verdict(verified), reason |-> StopReason(verified)]

Limited == Collection \cup {"validate", "quality"}
Last == {"finalize", "materialize"}

\* A state in which the graph may stand before stage g: the routes have led here.
Shape(g, s) ==
    /\ s \in States
    /\ g \notin Last => ~ControlStop(s)
    /\ g \in Limited => ~s.budget /\ ~s.soft /\ s.noGain <= 1
    /\ g \in Limited \cup {"compose", "verify"} => ~s.verified
    /\ g = "validate" => ~s.collected
    /\ g = "plan" /\ s.collected => s.refill < MaxRefill
    /\ g = "render" => s.verified
    /\ g \in Output => s.qualified # {} \/ s.emptyPlan
    /\ g = "materialize" => s.verdict = Verdict(s) /\ s.reason = StopReason(s)
    /\ s.verified => ~s.fatal

\* State s and facts f tell the same round, and the facts tell what it lacks.
SameRound(b, f, s) ==
    /\ f.quality = s.report /\ f.gaps = s.gaps
    /\ s.qualified = EvaluatedIn(f) /\ EventsOf(f.claims) = EvaluatedIn(f)
    /\ EvaluatedIn(f) # {} =>
         (f.gaps = {}) = (~(Cardinality(f.quality) < b.need)
                           /\ b.facets \subseteq KeysOf(f.claims))

\* How far the drafts have come.
Drafted(f, g, s) ==
    /\ g \in Output => f.quality # None
    /\ g \in {"verify", "render"} => f.draft = DraftOf(f, s)
    /\ g = "render" => f.accepted
    /\ g \in Last /\ s.verified =>
         /\ f.accepted /\ f.quality # None
         /\ f.draft = DraftOf(f, s) /\ f.delivery = DraftOf(f, s)
         /\ s.artifact = DraftOf(f, s)

\* What stage g finds in the facts.
Agree(b, f, g, s) ==
    \/ s.cancelled \/ s.hard
    \/ /\ SameRound(b, f, s) /\ Drafted(f, g, s)
       /\ g = "quality" \/ f.claims \subseteq s.claims
       /\ g \in {"claims", "quality"} \/ s.fatal \/ s.qualified \subseteq s.events

Found(b, f, g, s) == Shape(g, s) /\ (f.status = "active" => Agree(b, f, g, s))

\* What comes of an update u of stage g.
Onward(g, s, u) == Route(g, NodePatch(g, s, u))

\* An outcome with which the Run may be completed.
Honest(b, f, outcome) ==
    LET delivered == outcome.delivery
    IN /\ outcome \in Outcomes /\ delivered \in Deliveries
       /\ delivered.events = f.quality /\ delivered.events # {}
       /\ EventsOf(delivered.claims) = delivered.events
       /\ ~(Cardinality(delivered.events) > b.limit)
       /\ (outcome.verdict = "COMPLETE") =
            (~(Cardinality(delivered.events) < b.need)
              /\ b.facets \subseteq KeysOf(delivered.claims))

Begins ==
    /\ worker.step \in {"idle", "enter", "work"} =>
         Found(brief, facts, worker.stage, state)
    /\ worker.step \in {"work", "leave"} => worker.stage \in Stages

Leaves ==
    worker.step = "leave" =>
      /\ worker.update \in States /\ Shape(worker.stage, state)
      /\ ~Stopped => Found(brief, facts, Onward(worker.stage, state, worker.update),
                           NodePatch(worker.stage, state, worker.update))

Deliverable == worker.outcome.verdict \in {"COMPLETE", "PARTIAL"}

Ends ==
    /\ worker.step = "done" =>
         worker.outcome \in Outcomes
           /\ (Deliverable => Honest(brief, facts, worker.outcome))
    /\ runner = "start" => worker.step = "idle"
    /\ runner = "save" => worker.step = "done" /\ Deliverable
    /\ facts.status # "active" => runner = "ended"
    /\ facts.status = "completed" =>
         Honest(brief, facts, facts.outcome) /\ snapshot = facts.outcome.delivery

\* The inductive invariant.
History == Types /\ Begins /\ Leaves /\ Ends
=============================================================================
