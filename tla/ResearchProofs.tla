--------------------------- MODULE ResearchProofs ---------------------------
(***************************************************************************)
(* Theorems about ResearchRun: what every stage finds (HistoryKept), that no *)
(* output stage ever refuses what the graph hands it, that a completed Run   *)
(* is told honestly, and that an ended Run stays as it ended.  First come    *)
(* the routes and what the nodes add, then what the update of each stage     *)
(* leads to, then one lemma for each action.                                 *)
(***************************************************************************)
EXTENDS ResearchHistory, FiniteSetTheorems, TLAPS

(* Where each stage leads. *)
LEMMA RouteOfLast == \A s : Route("finalize", s) = "materialize"
  BY DEF Route

LEMMA RouteWhenStopped ==
  \A g, s : ControlStop(s) /\ g # "finalize" => Route(g, s) = "finalize"
  BY DEF Route

LEMMA RouteOfValidate ==
  \A s : ~ControlStop(s) => Route("validate", s) = "plan"
  BY DEF Route, Following

LEMMA RouteOfPlan ==
  \A s : ~ControlStop(s) =>
    Route("plan", s) = IF s.planExhausted \/ ~s.planned \/ s.budget \/ s.soft
                       THEN Conclude(s) ELSE "discover"
  BY DEF Route, RouteCollection, Following

LEMMA FollowingIs ==
  /\ DOMAIN Following = Collection \ {"plan"}
  /\ \A g \in Collection \ {"plan"} :
        /\ Following[g] \in (Collection \ {"plan", "discover"}) \cup {"quality"}
        /\ g = "claims" <=> Following[g] = "quality"
        /\ g = "cluster" <=> Following[g] = "claims"
  BY DEF Following, Collection

LEMMA RouteOfCollecting ==
  \A g \in Collection \ {"plan"} : \A s : ~ControlStop(s) =>
    Route(g, s) = IF s.budget \/ s.soft THEN Conclude(s) ELSE Following[g]
  <1> SUFFICES ASSUME NEW g \in Collection \ {"plan"}, NEW s, ~ControlStop(s)
               PROVE Route(g, s) = IF s.budget \/ s.soft THEN Conclude(s) ELSE Following[g]
    OBVIOUS
  <1>1. g \in DOMAIN Following
    BY FollowingIs
  <1>2. g \notin {"finalize", "render", "validate", "plan", "quality", "compose", "verify"}
    BY DEF Collection
  <1>3. Route(g, s) = RouteCollection(s, Following[g])
    BY <1>1, <1>2, FollowingIs DEF Route
  <1> QED
    BY <1>3 DEF RouteCollection

LEMMA RouteOfQuality ==
  \A s : ~ControlStop(s) =>
    Route("quality", s) =
      IF s.emptyPlan \/ (s.qualified # {} /\ s.gaps = {}) THEN "compose"
      ELSE IF BoundedStop(s) THEN Conclude(s) ELSE "plan"
  BY DEF Route, Following

LEMMA RouteOfOutput ==
  \A s : ~ControlStop(s) =>
    /\ Route("compose", s) = "verify"
    /\ Route("verify", s) = IF s.verified THEN "render" ELSE "finalize"
    /\ Route("render", s) = "finalize"
  BY DEF Route, Following

LEMMA ConcludeIs ==
  \A s : Conclude(s) = IF s.qualified # {} THEN "compose" ELSE "finalize"
  BY DEF Conclude

(* What the node adds. *)
LEMMA PatchOfPlan ==
  \A s, u : NodePatch("plan", s, u) = IF s.collected THEN [u EXCEPT !.refill = @ + 1] ELSE u
  BY DEF NodePatch

\* The rounds without gain after a quality stage.
Barren(s, u) == IF ~s.collected THEN u.noGain ELSE IF Gained(s, u) THEN 0 ELSE u.noGain + 1

LEMMA PatchOfQuality ==
  ASSUME NEW s, NEW u
  PROVE  NodePatch("quality", s, u) = [u EXCEPT !.collected = TRUE, !.noGain = Barren(s, u)]
  BY DEF NodePatch, Barren

LEMMA PatchOfFinalize ==
  \A s, u : NodePatch("finalize", s, u) =
    [u EXCEPT !.reason = StopReason(u), !.verdict = Verdict(u)]
  BY DEF NodePatch

LEMMA PatchOfOthers ==
  \A g, s, u : g \notin {"plan", "quality", "finalize"} => NodePatch(g, s, u) = u
  BY DEF NodePatch

LEMMA Judged ==
  ASSUME NEW s
  PROVE  Verdict(s) \in Verdicts /\ StopReason(s) \in Reasons
  <1>1. Verdict(s) \in Verdicts
    BY DEF Verdict, StoppedStatus, Verdicts
  <1>2. StopReason(s) \in Reasons
    BY DEF StopReason, Reasons
  <1> QED
    BY <1>1, <1>2

(* A stage that collects: what the update must leave alone. *)
LEMMA ShapeAfterCollecting ==
  ASSUME NEW g \in Collection \ {"plan"}, NEW s, NEW u \in States,
         ~u.cancelled, ~u.hard, ~u.verified, u.noGain <= 1
  PROVE  Shape(Onward(g, s, u), NodePatch(g, s, u))
  <1>1. NodePatch(g, s, u) = u
    BY PatchOfOthers DEF Collection
  <1>2. CASE u.fatal
    <2>1. Onward(g, s, u) = "finalize"
      BY <1>1, <1>2, RouteWhenStopped DEF Onward, ControlStop, Collection
    <2> QED
      BY <1>1, <2>1 DEF Shape, Last, Limited, Output, Collection
  <1>3. CASE ~u.fatal
    <2>1. ~ControlStop(u)
      BY <1>3 DEF ControlStop
    <2>2. Onward(g, s, u) = IF u.budget \/ u.soft THEN Conclude(u) ELSE Following[g]
      BY <1>1, <2>1, RouteOfCollecting DEF Onward
    <2>3. CASE u.budget \/ u.soft
      BY <1>1, <2>1, <2>2, <2>3, ConcludeIs, <1>3 DEF Shape, Last, Limited, Output, Collection
    <2>4. CASE ~(u.budget \/ u.soft)
      <3>1. Onward(g, s, u) = Following[g]
        BY <2>2, <2>4
      <3>2. Following[g] \in Limited \ {"validate", "plan"}
        BY FollowingIs DEF Limited, Collection
      <3>3. Following[g] \notin Output \cup {"materialize"} \cup {"finalize"}
        BY <3>2 DEF Limited, Collection, Output
      <3> QED
        BY <1>1, <3>1, <3>2, <3>3, <2>1, <2>4, <1>3 DEF Shape, Last, Output
    <2> QED
      BY <2>3, <2>4
  <1> QED
    BY <1>2, <1>3

LEMMA ShapeAfterPlan ==
  ASSUME NEW s, Shape("plan", s), NEW u \in States, u.collected = s.collected,
         u.refill = s.refill,
         ~u.cancelled, ~u.hard, ~u.verified, u.noGain <= 1
  PROVE  Shape(Onward("plan", s, u), NodePatch("plan", s, u))
  <1> DEFINE n == NodePatch("plan", s, u)
  <1>1. n \in States
    <2>1. CASE s.collected
      <3>1. s.refill < MaxRefill /\ s.refill \in 0 .. MaxRefill
        BY <2>1 DEF Shape, States
      <3>2. n = [u EXCEPT !.refill = u.refill + 1]
        BY <2>1, PatchOfPlan
      <3>3. u.refill + 1 \in 0 .. MaxRefill
        BY <3>1, BriefsAssumption
      <3> QED
        BY <3>2, <3>3 DEF States
    <2> QED
      BY <2>1, PatchOfPlan
  <1>2. /\ n.cancelled = u.cancelled /\ n.hard = u.hard /\ n.verified = u.verified
        /\ n.noGain = u.noGain /\ n.fatal = u.fatal /\ n.budget = u.budget
        /\ n.soft = u.soft /\ n.qualified = u.qualified
    BY PatchOfPlan DEF States
  <1> HIDE DEF n
  <1>3. CASE u.fatal
    <2>1. Onward("plan", s, u) = "finalize"
      BY <1>2, <1>3, RouteWhenStopped DEF Onward, ControlStop, n
    <2> QED
      BY <1>1, <1>2, <2>1 DEF Shape, Last, Limited, Output, Collection, n
  <1>4. CASE ~u.fatal
    <2>1. ~ControlStop(n)
      BY <1>2, <1>4 DEF ControlStop
    <2>2. Onward("plan", s, u) = IF n.planExhausted \/ ~n.planned \/ n.budget \/ n.soft
                                 THEN Conclude(n) ELSE "discover"
      BY <2>1, RouteOfPlan DEF Onward, n
    <2>3. CASE n.planExhausted \/ ~n.planned \/ n.budget \/ n.soft
      <3>1. Onward("plan", s, u) = IF n.qualified # {} THEN "compose" ELSE "finalize"
        BY <2>2, <2>3, ConcludeIs
      <3> QED
        BY <1>1, <1>2, <2>1, <3>1, <1>4 DEF Shape, Last, Limited, Output, Collection, n
    <2>4. CASE ~(n.planExhausted \/ ~n.planned \/ n.budget \/ n.soft)
      <3>1. Onward("plan", s, u) = "discover"
        BY <2>2, <2>4
      <3> QED
        BY <1>1, <1>2, <2>1, <2>4, <3>1, <1>4 DEF Shape, Last, Limited, Output, Collection, n
    <2> QED
      BY <2>3, <2>4
  <1> QED
    BY <1>3, <1>4

LEMMA ShapeAfterQuality ==
  ASSUME NEW s, Shape("quality", s), NEW u \in States, u.noGain = s.noGain,
         ~u.cancelled, ~u.hard, ~u.fatal, ~u.verified
  PROVE  Shape(Onward("quality", s, u), NodePatch("quality", s, u))
  <1> DEFINE m == Barren(s, u)
             n == NodePatch("quality", s, u)
  <1>1. n = [u EXCEPT !.collected = TRUE, !.noGain = m]
    BY PatchOfQuality
  <1>2. m \in 0 .. 2
    <2>1. s.noGain \in 0 .. 1 /\ u.noGain = s.noGain
      BY DEF Shape, States, Limited
    <2> QED
      BY <2>1 DEF Barren
  <1> HIDE DEF m
  <1>3. n \in States
    BY <1>1, <1>2, ZenonT(30) DEF States
  <1>4. /\ n.cancelled = u.cancelled /\ n.hard = u.hard /\ n.verified = u.verified
        /\ n.noGain = m /\ n.fatal = u.fatal /\ n.budget = u.budget
        /\ n.soft = u.soft /\ n.qualified = u.qualified /\ n.emptyPlan = u.emptyPlan
        /\ n.refill = u.refill
    BY <1>1, ZenonT(30) DEF States
  <1> HIDE DEF n
  <1>5. ~ControlStop(n)
    BY <1>4 DEF ControlStop
  <1>6. Onward("quality", s, u) =
          IF n.emptyPlan \/ (n.qualified # {} /\ n.gaps = {}) THEN "compose"
          ELSE IF BoundedStop(n) THEN Conclude(n) ELSE "plan"
    BY <1>5, RouteOfQuality DEF Onward, n
  <1>7. CASE n.emptyPlan \/ (n.qualified # {} /\ n.gaps = {})
    BY <1>3, <1>4, <1>5, <1>6, <1>7 DEF Shape, Last, Limited, Output, Collection, n
  <1>8. CASE ~(n.emptyPlan \/ (n.qualified # {} /\ n.gaps = {})) /\ BoundedStop(n)
    <2>1. Onward("quality", s, u) = IF n.qualified # {} THEN "compose" ELSE "finalize"
      BY <1>6, <1>8, ConcludeIs
    <2> QED
      BY <1>3, <1>4, <1>5, <2>1 DEF Shape, Last, Limited, Output, Collection, n
  <1>9. CASE ~(n.emptyPlan \/ (n.qualified # {} /\ n.gaps = {})) /\ ~BoundedStop(n)
    <2>1. Onward("quality", s, u) = "plan"
      BY <1>6, <1>9
    <2>2. ~n.soft /\ ~n.budget /\ n.noGain <= 1 /\ n.refill < MaxRefill
      BY <1>9, <1>3, BriefsAssumption DEF BoundedStop, States
    <2> QED
      BY <1>3, <1>4, <1>5, <2>1, <2>2 DEF Shape, Last, Limited, Output, Collection, n
  <1> QED
    BY <1>7, <1>8, <1>9

LEMMA ShapeAfterValidate ==
  ASSUME NEW s, Shape("validate", s)
  PROVE  Shape(Onward("validate", s, s), NodePatch("validate", s, s))
  <1>1. NodePatch("validate", s, s) = s
    BY PatchOfOthers
  <1>2. ~ControlStop(s)
    BY DEF Shape, Last
  <1>3. Onward("validate", s, s) = "plan"
    BY <1>1, <1>2, RouteOfValidate DEF Onward
  <1> QED
    BY <1>1, <1>3 DEF Shape, Last, Limited, Output, Collection

LEMMA ShapeAfterOutput ==
  ASSUME NEW g \in Output, NEW s, Shape(g, s), NEW u \in States,
         ~ControlStop(u), g = "compose" => ~u.verified, g = "render" => u.verified,
         u.qualified = s.qualified, u.emptyPlan = s.emptyPlan
  PROVE  Shape(Onward(g, s, u), NodePatch(g, s, u))
  <1>1. NodePatch(g, s, u) = u
    BY PatchOfOthers DEF Output
  <1>2. Onward(g, s, u) = CASE g = "compose" -> "verify"
                            [] g = "verify" -> IF u.verified THEN "render" ELSE "finalize"
                            [] g = "render" -> "finalize"
    BY <1>1, RouteOfOutput DEF Onward, Output
  <1> QED
    BY <1>1, <1>2 DEF Shape, Last, Limited, Output, Collection, ControlStop

LEMMA ShapeAfterFinalize ==
  ASSUME NEW s, NEW u \in States, u.verified => ~u.fatal
  PROVE  Shape(Onward("finalize", s, u), NodePatch("finalize", s, u))
  <1> DEFINE n == [u EXCEPT !.reason = StopReason(u), !.verdict = Verdict(u)]
  <1>1. NodePatch("finalize", s, u) = n
    BY PatchOfFinalize
  <1>2. Onward("finalize", s, u) = "materialize"
    BY RouteOfLast DEF Onward
  <1>3. n \in States
    BY Judged, ZenonT(30) DEF States
  <1>4. n.verdict = Verdict(u) /\ n.reason = StopReason(u)
    BY DEF States
  <1>5. Verdict(n) = Verdict(u) /\ StopReason(n) = StopReason(u)
    BY DEF States, Verdict, StopReason, StoppedStatus
  <1>6. n.verified = u.verified /\ n.fatal = u.fatal
    BY DEF States
  <1> HIDE DEF n
  <1> QED
    BY <1>1, <1>2, <1>3, <1>4, <1>5, <1>6 DEF Shape, Last, Limited, Output, Collection

(* A stop leads straight to the end. *)
LEMMA FoundAfterStop ==
  ASSUME NEW b, NEW f, NEW g \in Stages, NEW s, Shape(g, s),
         NEW u \in States, u.cancelled \/ u.hard,
         u.noGain = s.noGain, u.refill = s.refill, u.verified => ~u.fatal
  PROVE  Found(b, f, Onward(g, s, u), NodePatch(g, s, u))
  <1> DEFINE n == NodePatch(g, s, u)
  <1>1. n.cancelled = u.cancelled /\ n.hard = u.hard
    <2>1. CASE g = "plan"
      <3>1. n = IF s.collected THEN [u EXCEPT !.refill = @ + 1] ELSE u
        BY <2>1, PatchOfPlan
      <3> QED
        BY <3>1 DEF States
    <2>2. CASE g = "quality"
      <3>1. n = [u EXCEPT !.collected = TRUE, !.noGain = Barren(s, u)]
        BY <2>2, PatchOfQuality, Zenon
      <3> QED
        BY <3>1, ZenonT(30) DEF States
    <2>3. CASE g = "finalize"
      <3>1. n = [u EXCEPT !.reason = StopReason(u), !.verdict = Verdict(u)]
        BY <2>3, PatchOfFinalize
      <3> QED
        BY <3>1 DEF States
    <2> QED
      BY <2>1, <2>2, <2>3, PatchOfOthers
  <1>2. Agree(b, f, Onward(g, s, u), n)
    BY <1>1 DEF Agree
  <1>3. CASE g = "finalize"
    BY <1>2, <1>3, ShapeAfterFinalize DEF Found
  <1>4. CASE g # "finalize"
    <2>1. ControlStop(n)
      BY <1>1 DEF ControlStop
    <2>2. Onward(g, s, u) = "finalize"
      BY <2>1, <1>4, RouteWhenStopped DEF Onward
    <2>3. n \in States /\ (n.verified => ~n.fatal)
      <3>1. CASE g = "plan" /\ s.collected
        <4>1. s.refill < MaxRefill /\ s.refill \in 0 .. MaxRefill
          BY <3>1 DEF Shape, States
        <4>2. n = [u EXCEPT !.refill = u.refill + 1]
          BY <3>1, PatchOfPlan
        <4>3. u.refill + 1 \in 0 .. MaxRefill
          BY <4>1, BriefsAssumption
        <4> QED
          BY <4>2, <4>3 DEF States
      <3>2. CASE g = "plan" /\ ~s.collected
        BY <3>2, PatchOfPlan
      <3>3. CASE g = "quality"
        <4> DEFINE m == Barren(s, u)
        <4>1. n = [u EXCEPT !.collected = TRUE, !.noGain = m]
          BY <3>3, PatchOfQuality, Zenon
        <4>2. s.noGain \in 0 .. 1
          BY <3>3 DEF Shape, States, Limited
        <4>3. m \in 0 .. 2
          BY <4>2 DEF Barren
        <4> HIDE DEF m
        <4> QED
          BY <4>1, <4>3, ZenonT(30) DEF States
      <3> QED
        BY <3>1, <3>2, <3>3, <1>4, PatchOfOthers
    <2> QED
      BY <1>2, <2>2, <2>3 DEF Found, Shape, Last, Limited, Output, Collection
  <1> QED
    BY <1>3, <1>4

(* What the facts tell at the stages that follow. *)

\* The draft leaves out what the output stages and the final node set.
LEMMA DraftKept ==
  ASSUME NEW f, NEW s \in States, NEW u \in States,
         u.cancelled = s.cancelled, u.fatal = s.fatal, u.hard = s.hard,
         u.qualified = s.qualified, u.gaps = s.gaps, u.soft = s.soft,
         u.budget = s.budget, u.noGain = s.noGain, u.refill = s.refill,
         u.emptyPlan = s.emptyPlan
  PROVE  DraftOf(f, u) = DraftOf(f, s)
  <1> DEFINE x == [s EXCEPT !.verified = TRUE]
             y == [u EXCEPT !.verified = TRUE]
  <1>1. /\ x.cancelled = s.cancelled /\ x.fatal = s.fatal /\ x.hard = s.hard
        /\ x.qualified = s.qualified /\ x.gaps = s.gaps /\ x.soft = s.soft
        /\ x.budget = s.budget /\ x.noGain = s.noGain /\ x.refill = s.refill
        /\ x.emptyPlan = s.emptyPlan /\ x.verified
    BY DEF States
  <1>2. /\ y.cancelled = s.cancelled /\ y.fatal = s.fatal /\ y.hard = s.hard
        /\ y.qualified = s.qualified /\ y.gaps = s.gaps /\ y.soft = s.soft
        /\ y.budget = s.budget /\ y.noGain = s.noGain /\ y.refill = s.refill
        /\ y.emptyPlan = s.emptyPlan /\ y.verified
    BY DEF States
  <1> HIDE DEF x, y
  <1>3. Verdict(y) = Verdict(x)
    BY <1>1, <1>2 DEF Verdict, StoppedStatus
  <1>4. StopReason(y) = StopReason(x)
    BY <1>1, <1>2 DEF StopReason
  <1> QED
    BY <1>3, <1>4 DEF DraftOf, x, y

LEMMA SameRoundKept ==
  ASSUME NEW b, NEW f, NEW u, NEW n, SameRound(b, f, u),
         n.report = u.report, n.gaps = u.gaps, n.qualified = u.qualified
  PROVE  SameRound(b, f, n)
  BY DEF SameRound

LEMMA AgreeAfterCollecting ==
  ASSUME NEW b, NEW f, NEW g \in Collection \ {"plan"}, NEW s, NEW u \in States,
         SameRound(b, f, u), ~u.verified, ~u.cancelled, ~u.hard,
         \/ f.claims \subseteq u.claims
         \/ g = "claims" /\ ~u.fatal /\ ~u.budget /\ ~u.soft,
         \/ u.qualified \subseteq u.events
         \/ u.fatal
         \/ g \in {"cluster", "claims"} /\ ~u.budget /\ ~u.soft
  PROVE  Agree(b, f, Onward(g, s, u), NodePatch(g, s, u))
  <1>1. NodePatch(g, s, u) = u
    BY PatchOfOthers DEF Collection
  <1>2. CASE u.fatal
    <2>1. Onward(g, s, u) = "finalize"
      BY <1>1, <1>2, RouteWhenStopped DEF Onward, ControlStop, Collection
    <2>2. Drafted(f, "finalize", u)
      BY DEF Drafted, Last, Output
    <2> QED
      BY <1>1, <1>2, <2>1, <2>2 DEF Agree
  <1>3. CASE ~u.fatal
    <2>1. ~ControlStop(u)
      BY <1>3 DEF ControlStop
    <2>2. Onward(g, s, u) = IF u.budget \/ u.soft THEN Conclude(u) ELSE Following[g]
      BY <1>1, <2>1, RouteOfCollecting DEF Onward
    <2>3. CASE u.budget \/ u.soft
      <3>1. f.claims \subseteq u.claims /\ u.qualified \subseteq u.events
        BY <1>3, <2>3
      <3>2. CASE u.qualified # {}
        <4>1. Onward(g, s, u) = "compose"
          BY <2>2, <2>3, <3>2, ConcludeIs
        <4>2. f.quality # None
          BY <3>2 DEF SameRound, EvaluatedIn
        <4> QED
          BY <1>1, <3>1, <4>1, <4>2 DEF Agree, Drafted, Last, Output
      <3>3. CASE u.qualified = {}
        <4>1. Onward(g, s, u) = "finalize"
          BY <2>2, <2>3, <3>3, ConcludeIs
        <4> QED
          BY <1>1, <3>1, <4>1 DEF Agree, Drafted, Last, Output
      <3> QED
        BY <3>2, <3>3
    <2>4. CASE ~(u.budget \/ u.soft)
      <3>1. Onward(g, s, u) = Following[g]
        BY <2>2, <2>4
      <3>2. Following[g] \in (Collection \ {"plan", "discover"}) \cup {"quality"}
        BY FollowingIs
      <3>3. Following[g] \notin Output \cup Last
        BY <3>2 DEF Collection, Output, Last
      <3>4. Drafted(f, Following[g], u)
        BY <3>3 DEF Drafted, Output, Last
      <3>5. Following[g] = "quality" \/ f.claims \subseteq u.claims
        BY FollowingIs, <2>4
      <3>6. Following[g] \in {"claims", "quality"} \/ u.fatal \/ u.qualified \subseteq u.events
        BY FollowingIs
      <3> QED
        BY <1>1, <3>1, <3>4, <3>5, <3>6 DEF Agree
    <2> QED
      BY <2>3, <2>4
  <1> QED
    BY <1>2, <1>3

LEMMA AgreeAfterPlan ==
  ASSUME NEW b, NEW f, NEW s, NEW u \in States,
         SameRound(b, f, u), ~u.verified, ~u.cancelled, ~u.hard,
         f.claims \subseteq u.claims, u.qualified \subseteq u.events
  PROVE  Agree(b, f, Onward("plan", s, u), NodePatch("plan", s, u))
  <1> DEFINE n == NodePatch("plan", s, u)
  <1>1. n = IF s.collected THEN [u EXCEPT !.refill = @ + 1] ELSE u
    BY PatchOfPlan
  <1>2. /\ n.report = u.report /\ n.gaps = u.gaps /\ n.qualified = u.qualified
        /\ n.events = u.events /\ n.claims = u.claims /\ n.verified = u.verified
    BY <1>1 DEF States
  <1> HIDE DEF n
  <1>3. SameRound(b, f, n)
    BY <1>2, SameRoundKept
  <1>4. /\ Onward("plan", s, u) \in {"compose", "finalize", "discover"}
        /\ Onward("plan", s, u) = "compose" => n.qualified # {}
    <2>1. CASE ControlStop(n)
      BY <2>1, RouteWhenStopped DEF Onward, n
    <2>2. CASE ~ControlStop(n)
      BY <2>2, RouteOfPlan, ConcludeIs DEF Onward, n
    <2> QED
      BY <2>1, <2>2
  <1>5. n.qualified # {} => f.quality # None
    BY <1>3 DEF SameRound, EvaluatedIn
  <1>6. Drafted(f, Onward("plan", s, u), n)
    BY <1>2, <1>4, <1>5 DEF Drafted, Output, Last
  <1> QED
    BY <1>2, <1>3, <1>4, <1>6 DEF Agree, n

LEMMA AgreeAfterQuality ==
  ASSUME NEW b, NEW f, NEW s, NEW u \in States,
         SameRound(b, f, u), ~u.verified, f.quality # None,
         f.claims \subseteq u.claims, u.qualified \subseteq u.events
  PROVE  Agree(b, f, Onward("quality", s, u), NodePatch("quality", s, u))
  <1> DEFINE n == NodePatch("quality", s, u)
  <1>1. n = [u EXCEPT !.collected = TRUE, !.noGain = Barren(s, u)]
    BY PatchOfQuality
  <1>2. /\ n.report = u.report /\ n.gaps = u.gaps /\ n.qualified = u.qualified
        /\ n.events = u.events /\ n.claims = u.claims /\ n.verified = u.verified
    BY <1>1, ZenonT(30) DEF States
  <1> HIDE DEF n
  <1>3. SameRound(b, f, n)
    BY <1>2, SameRoundKept
  <1>4. Onward("quality", s, u) \in {"compose", "finalize", "plan"}
    <2>1. CASE ControlStop(n)
      BY <2>1, RouteWhenStopped DEF Onward, n
    <2>2. CASE ~ControlStop(n)
      BY <2>2, RouteOfQuality, ConcludeIs DEF Onward, n
    <2> QED
      BY <2>1, <2>2
  <1>5. Drafted(f, Onward("quality", s, u), n)
    BY <1>2, <1>4 DEF Drafted, Output, Last
  <1> QED
    BY <1>2, <1>3, <1>4, <1>5 DEF Agree, n

LEMMA AgreeAfterValidate ==
  ASSUME NEW b, NEW f, NEW s, Shape("validate", s), Agree(b, f, "validate", s)
  PROVE  Agree(b, f, Onward("validate", s, s), NodePatch("validate", s, s))
  <1>1. NodePatch("validate", s, s) = s
    BY PatchOfOthers
  <1>2. ~ControlStop(s)
    BY DEF Shape, Last
  <1>3. Onward("validate", s, s) = "plan"
    BY <1>1, <1>2, RouteOfValidate DEF Onward
  <1> QED
    BY <1>1, <1>3 DEF Agree, Drafted, Last, Output

LEMMA AgreeAfterFinalize ==
  ASSUME NEW b, NEW f, NEW s \in States, Agree(b, f, "finalize", s)
  PROVE  Agree(b, f, Onward("finalize", s, s), NodePatch("finalize", s, s))
  <1> DEFINE n == [s EXCEPT !.reason = StopReason(s), !.verdict = Verdict(s)]
  <1>1. NodePatch("finalize", s, s) = n
    BY PatchOfFinalize
  <1>2. Onward("finalize", s, s) = "materialize"
    BY RouteOfLast DEF Onward
  <1>3. n \in States
    BY Judged, ZenonT(30) DEF States
  <1>4. /\ n.report = s.report /\ n.gaps = s.gaps /\ n.qualified = s.qualified
        /\ n.events = s.events /\ n.claims = s.claims /\ n.verified = s.verified
        /\ n.cancelled = s.cancelled /\ n.fatal = s.fatal /\ n.hard = s.hard
        /\ n.soft = s.soft /\ n.budget = s.budget /\ n.noGain = s.noGain
        /\ n.refill = s.refill /\ n.emptyPlan = s.emptyPlan /\ n.artifact = s.artifact
    BY DEF States
  <1> HIDE DEF n
  <1>5. CASE s.cancelled \/ s.hard
    BY <1>1, <1>4, <1>5 DEF Agree
  <1>6. CASE ~(s.cancelled \/ s.hard)
    <2>1. SameRound(b, f, s) /\ Drafted(f, "finalize", s) /\ f.claims \subseteq s.claims
          /\ (s.fatal \/ s.qualified \subseteq s.events)
      BY <1>6 DEF Agree
    <2>2. SameRound(b, f, n)
      BY <2>1, <1>4, SameRoundKept
    <2>3. DraftOf(f, n) = DraftOf(f, s)
      BY <1>3, <1>4, DraftKept
    <2>4. Drafted(f, "materialize", n)
      BY <2>1, <2>3, <1>4 DEF Drafted, Output, Last
    <2> QED
      BY <1>1, <1>2, <1>4, <2>1, <2>2, <2>4 DEF Agree
  <1> QED
    BY <1>5, <1>6

(* What a step of the worker or of the runner leaves true. *)

LEMMA RouteType ==
  ASSUME NEW g \in Stages, NEW s
  PROVE  Route(g, s) \in Stages \cup {"materialize"}
  <1>1. CASE g = "finalize"
    BY <1>1, RouteOfLast
  <1>2. CASE g # "finalize" /\ ControlStop(s)
    BY <1>2, RouteWhenStopped DEF Stages
  <1>3. CASE g # "finalize" /\ ~ControlStop(s)
    <2>1. Conclude(s) \in {"compose", "finalize"}
      BY ConcludeIs
    <2>2. CASE g \in Collection \ {"plan"}
      <3>1. Route(g, s) \in {Conclude(s), Following[g]}
        BY <1>3, <2>2, RouteOfCollecting
      <3> QED
        BY <3>1, <2>1, <2>2, FollowingIs DEF Stages, Output
    <2>3. CASE g = "plan"
      BY <1>3, <2>1, <2>3, RouteOfPlan DEF Stages, Output, Collection
    <2>4. CASE g = "validate"
      BY <1>3, <2>4, RouteOfValidate DEF Stages, Collection
    <2>5. CASE g = "quality"
      BY <1>3, <2>1, <2>5, RouteOfQuality DEF Stages, Output, Collection
    <2>6. CASE g \in Output
      BY <1>3, <2>6, RouteOfOutput DEF Stages, Output
    <2> QED
      BY <1>3, <2>2, <2>3, <2>4, <2>5, <2>6 DEF Stages
  <1> QED
    BY <1>1, <1>2, <1>3

LEMMA ReturnKeeps ==
  ASSUME History, worker.step = "work", NEW u \in States, Return(u),
         UNCHANGED <<state, others>>, facts' \in Facts, facts'.status = facts.status,
         facts.status = "active" \/ facts' = facts,
         ~Stopped => Found(brief, facts', Onward(worker.stage, state, u),
                           NodePatch(worker.stage, state, u))
  PROVE  History'
  <1> USE DEF History
  <1>1. /\ worker' \in Workers /\ worker'.stage = worker.stage
        /\ worker'.step = "leave" /\ worker'.update = u
    BY DEF Types, Workers, Return
  <1>2. /\ brief' = brief /\ state' = state /\ runner' = runner /\ clock' = clock
        /\ cancel' = cancel /\ snapshot' = snapshot
    BY DEF others
  <1>3. Types'
    BY <1>1, <1>2 DEF Types
  <1>4. Begins'
    BY <1>1, <1>2 DEF Begins
  <1>5. Leaves'
    <2>1. Shape(worker.stage, state)
      BY DEF Begins, Found
    <2>2. Stopped' <=> Stopped
      BY <1>2 DEF Stopped
    <2> QED
      BY <1>1, <1>2, <2>1, <2>2 DEF Leaves
  <1>6. Ends'
    BY <1>1, <1>2 DEF Ends
  <1> QED
    BY <1>3, <1>4, <1>5, <1>6

LEMMA RaiseKeeps ==
  ASSUME History, worker.step \in {"enter", "work", "leave"}, NEW why \in Refusals,
         Raise(why), UNCHANGED <<state, facts, others>>
  PROVE  History'
  <1> USE DEF History
  <1>1. /\ worker' \in Workers /\ worker'.step = "raised"
    BY DEF Types, Workers, Raise
  <1>2. /\ brief' = brief /\ state' = state /\ runner' = runner /\ clock' = clock
        /\ cancel' = cancel /\ snapshot' = snapshot /\ facts' = facts
    BY DEF others
  <1>3. Types' /\ Begins' /\ Leaves'
    BY <1>1, <1>2 DEF Types, Begins, Leaves
  <1>6. Ends'
    BY <1>1, <1>2 DEF Ends
  <1> QED
    BY <1>3, <1>6

LEMMA AdvanceKeeps ==
  ASSUME History, worker.step \in {"enter", "leave"}, worker.stage \in Stages,
         NEW u \in States, Advance(u), UNCHANGED <<facts, others>>,
         Found(brief, facts, Onward(worker.stage, state, u),
               NodePatch(worker.stage, state, u))
  PROVE  History'
  <1> USE DEF History
  <1> DEFINE n == NodePatch(worker.stage, state, u)
             h == Onward(worker.stage, state, u)
  <1>1. h \in Stages \cup {"materialize"}
    BY RouteType DEF Onward
  <1>2. state' = n /\ worker' = [worker EXCEPT !.stage = h, !.step = "enter", !.update = None]
    BY DEF Advance, Onward
  <1>3. n \in States
    BY DEF Found, Shape
  <1> HIDE DEF n, h
  <1>4. worker' \in Workers /\ worker'.stage = h /\ worker'.step = "enter"
    BY <1>1, <1>2 DEF Types, Workers
  <1>5. /\ brief' = brief /\ facts' = facts /\ runner' = runner /\ clock' = clock
        /\ cancel' = cancel /\ snapshot' = snapshot
    BY DEF others
  <1>6. Types'
    BY <1>2, <1>3, <1>4, <1>5 DEF Types
  <1>7. Begins'
    BY <1>2, <1>4, <1>5 DEF Begins, n, h
  <1>8. Leaves' /\ Ends'
    BY <1>4, <1>5 DEF Leaves, Ends
  <1> QED
    BY <1>6, <1>7, <1>8

LEMMA FinishKeeps ==
  ASSUME History, runner # "ended",
         NEW status \in {"completed", "failed", "cancelled", "timed_out"},
         NEW outcome \in Outcomes \cup {None}, Finish(status, outcome),
         UNCHANGED <<brief, state, worker, clock, cancel>>,
         snapshot' \in Deliveries \cup {None},
         status = "completed" =>
           runner = "save" /\ outcome = worker.outcome
             /\ snapshot' = worker.outcome.delivery
  PROVE  History'
  <1> USE DEF History
  <1>1. /\ facts' \in Facts /\ facts'.status = status /\ facts'.outcome = outcome
        /\ facts'.quality = facts.quality /\ runner' = "ended"
    BY DEF Types, Facts, Finish
  <1>2. Types'
    BY <1>1 DEF Types
  <1>3. Begins'
    BY <1>1 DEF Begins, Found
  <1>4. Leaves'
    <2>1. Stopped' <=> Stopped
      BY DEF Stopped
    <2> QED
      BY <1>1, <2>1 DEF Leaves, Found
  <1>5. ASSUME NEW o, Honest(brief, facts, o)
        PROVE  Honest(brief', facts', o)
    BY <1>1, <1>5 DEF Honest
  <1>6. Ends'
    <2>1. worker.step = "done" =>
            worker.outcome \in Outcomes /\ (Deliverable' => Honest(brief', facts', worker.outcome))
      BY <1>5 DEF Ends, Deliverable
    <2>2. status = "completed" =>
            Honest(brief', facts', facts'.outcome) /\ snapshot' = facts'.outcome.delivery
      BY <1>1, <1>5 DEF Ends
    <2> QED
      BY <1>1, <2>1, <2>2 DEF Ends
  <1> QED
    BY <1>2, <1>3, <1>4, <1>6

LEMMA EnvironmentKeeps ==
  ASSUME History, Environment
  PROVE  History'
  <1> USE DEF History
  <1>1. UNCHANGED <<brief, state, facts, worker, runner, snapshot>>
    BY DEF Environment
  <1>2. clock' \in {"early", "soft", "hard"} /\ cancel' \in {"no", "asked", "signalled"}
    BY DEF Environment, Cancel, Signal, Pass, Types
  <1>3. Stopped => Stopped'
    BY DEF Environment, Cancel, Signal, Pass, Stopped
  <1>4. Types' /\ Begins'
    BY <1>1, <1>2 DEF Types, Begins
  <1>5. Leaves'
    BY <1>1, <1>3 DEF Leaves
  <1>6. Ends'
    BY <1>1 DEF Ends, Deliverable
  <1> QED
    BY <1>4, <1>5, <1>6

LEMMA StutterKeeps ==
  ASSUME History, UNCHANGED vars
  PROVE  History'
  <1> USE DEF History
  <1>1. Types' /\ Begins' /\ Ends'
    BY DEF vars, Types, Begins, Ends, Deliverable
  <1>2. Stopped' <=> Stopped
    BY DEF vars, Stopped
  <1>3. Leaves'
    BY <1>2 DEF vars, Leaves
  <1> QED
    BY <1>1, <1>3

(* The runner. *)

LEMMA StartKeeps ==
  ASSUME History, Start
  PROVE  History'
  <1> USE DEF History
  <1>1. CASE Finish("cancelled", None) /\ UNCHANGED worker
    BY <1>1, FinishKeeps DEF Start, Types
  <1>2. CASE Finish("timed_out", None) /\ UNCHANGED worker
    BY <1>2, FinishKeeps DEF Start, Types
  <1>3. CASE runner' = "wait" /\ worker' = [worker EXCEPT !.step = "enter"] /\ UNCHANGED facts
    <2>1. /\ worker' \in Workers /\ worker'.step = "enter" /\ worker'.stage = worker.stage
      BY <1>3 DEF Types, Workers
    <2>2. worker.step = "idle"
      BY DEF Start, Ends
    <2>3. UNCHANGED <<brief, state, clock, cancel, snapshot, facts>>
      BY <1>3 DEF Start
    <2>4. Types'
      BY <1>3, <2>1, <2>3 DEF Types
    <2>5. Begins'
      BY <2>1, <2>2, <2>3 DEF Begins
    <2>6. Leaves' /\ Ends'
      BY <1>3, <2>1, <2>3 DEF Leaves, Ends, Start
    <2> QED
      BY <2>4, <2>5, <2>6
  <1> QED
    BY <1>1, <1>2, <1>3 DEF Start

LEMMA WakeKeeps ==
  ASSUME History, Wake
  PROVE  History'
  <1> USE DEF History
  <1>1. UNCHANGED <<brief, state, worker, clock, cancel, snapshot>> /\ runner = "wait"
    BY DEF Wake
  <1>2. CASE Finish("cancelled", None) \/ Finish("timed_out", None) \/ Finish("failed", None)
    BY <1>1, <1>2, FinishKeeps DEF Types
  <1>3. CASE worker.step = "done" /\ Finish("failed", worker.outcome)
    <2>1. worker.outcome \in Outcomes
      BY <1>3 DEF Ends
    <2> QED
      BY <1>1, <1>3, <2>1, FinishKeeps DEF Types
  <1>4. CASE worker.step = "done" /\ Deliverable /\ runner' = "save" /\ UNCHANGED facts
    <2>1. Types' /\ Begins'
      BY <1>1, <1>4 DEF Types, Begins
    <2>2. Stopped' <=> Stopped
      BY <1>1 DEF Stopped
    <2>3. Leaves'
      BY <1>1, <1>4 DEF Leaves
    <2>4. Ends'
      BY <1>1, <1>4 DEF Ends, Deliverable
    <2> QED
      BY <2>1, <2>3, <2>4
  <1> QED
    BY <1>2, <1>3, <1>4 DEF Wake, Deliverable

LEMMA SaveSnapshotKeeps ==
  ASSUME History, SaveSnapshot
  PROVE  History'
  <1> USE DEF History
  <1>1. worker.outcome \in Outcomes
    BY DEF Ends, SaveSnapshot
  <1>2. worker.outcome.delivery \in Deliveries \cup {None}
    BY <1>1 DEF Outcomes
  <1>3. UNCHANGED <<brief, state, worker, clock, cancel>> /\ runner = "save"
    BY DEF SaveSnapshot
  <1>4. CASE snapshot' = worker.outcome.delivery /\ Finish("completed", worker.outcome)
    BY <1>1, <1>2, <1>3, <1>4, FinishKeeps
  <1>5. CASE UNCHANGED snapshot /\ Finish("failed", None)
    BY <1>3, <1>5, FinishKeeps DEF Types
  <1> QED
    BY <1>4, <1>5 DEF SaveSnapshot

LEMMA CallerLeavesKeeps ==
  ASSUME History, CallerLeaves
  PROVE  History'
  <1> USE DEF History
  <1>1. /\ UNCHANGED <<brief, state, worker, clock, cancel>> /\ runner # "ended"
        /\ Finish("cancelled", None)
    BY DEF CallerLeaves
  <1>2. snapshot' \in Deliveries \cup {None}
    <2>1. CASE UNCHANGED snapshot
      BY <2>1 DEF Types
    <2>2. CASE runner = "save" /\ snapshot' = worker.outcome.delivery
      <3>1. worker.outcome \in Outcomes
        BY <2>2 DEF Ends
      <3> QED
        BY <2>2, <3>1 DEF Outcomes
    <2> QED
      BY <2>1, <2>2 DEF CallerLeaves
  <1> QED
    BY <1>1, <1>2, FinishKeeps

LEMMA WorkerDroppedKeeps ==
  ASSUME History, WorkerDropped
  PROVE  History'
  <1>1. worker.step \in {"enter", "work", "leave"} /\ Raise("cancelled")
        /\ UNCHANGED <<state, facts, others>>
    BY DEF WorkerDropped
  <1>2. "cancelled" \in Refusals
    BY DEF Refusals
  <1> QED
    BY <1>1, <1>2, RaiseKeeps

(* The stages that collect. *)

LEMMA AtWork ==
  ASSUME History, worker.step = "work"
  PROVE  /\ worker.stage \in Stages /\ state \in States /\ facts \in Facts
         /\ Shape(worker.stage, state)
         /\ facts.status = "active" => Agree(brief, facts, worker.stage, state)
  BY DEF History, Types, Begins, Found

LEMMA Unstopped ==
  ASSUME NEW g \in Limited, NEW s, Shape(g, s)
  PROVE  /\ ~s.cancelled /\ ~s.hard /\ ~s.fatal /\ ~s.budget /\ ~s.soft /\ ~s.verified
         /\ s.noGain <= 1
  BY DEF Shape, ControlStop, Last, Limited, Collection

LEMMA LimitedIs == Collection \subseteq Limited /\ "quality" \in Limited /\ "validate" \in Limited
  BY DEF Limited

LEMMA SaveKeeps ==
  ASSUME History, worker.step = "work", UNCHANGED <<state, others>>,
         NEW new \in Facts, new.status = facts.status, NEW u \in States,
         SaveAndReturn(new, u),
         Found(brief, new, Onward(worker.stage, state, u), NodePatch(worker.stage, state, u))
  PROVE  History'
  <1>1. CASE Stopped /\ Return(u) /\ UNCHANGED facts
    <2>1. facts' \in Facts
      BY <1>1, AtWork
    <2> QED
      BY <1>1, <2>1, ReturnKeeps
  <1>2. CASE ~Stopped /\ MayPut /\ Return(u) /\ facts' = new
    <2>1. facts.status = "active"
      BY <1>2 DEF MayPut
    <2> QED
      BY <1>2, <2>1, ReturnKeeps
  <1>3. CASE Raise("ended") /\ UNCHANGED facts
    <2>1. "ended" \in Refusals
      BY DEF Refusals
    <2> QED
      BY <1>3, <2>1, RaiseKeeps
  <1> QED
    BY <1>1, <1>2, <1>3 DEF SaveAndReturn

LEMMA PlainReturnKeeps ==
  ASSUME History, worker.step = "work", UNCHANGED <<state, others>>,
         NEW u \in States, Return(u), UNCHANGED facts,
         Found(brief, facts, Onward(worker.stage, state, u), NodePatch(worker.stage, state, u))
  PROVE  History'
  <1>1. facts' \in Facts /\ facts'.status = facts.status /\ facts' = facts
    BY AtWork
  <1> QED
    BY <1>1, ReturnKeeps

LEMMA CollectFound ==
  ASSUME History, worker.step = "work", worker.stage \in Collection \ {"plan"},
         NEW new, new.status = facts.status, new.quality = facts.quality,
         new.gaps = facts.gaps, new.claims = facts.claims,
         NEW u \in States, u.report = state.report, u.gaps = state.gaps,
         u.qualified = state.qualified, u.noGain = state.noGain,
         u.verified = state.verified, u.cancelled = state.cancelled, u.hard = state.hard,
         \/ u.claims = state.claims
         \/ worker.stage = "claims" /\ ~u.fatal /\ ~u.budget /\ ~u.soft,
         \/ u.events = state.events /\ worker.stage # "claims"
         \/ u.fatal
         \/ worker.stage \in {"cluster", "claims"} /\ ~u.budget /\ ~u.soft
  PROVE  Found(brief, new, Onward(worker.stage, state, u), NodePatch(worker.stage, state, u))
  <1> DEFINE g == worker.stage
  <1>1. Shape(g, state) /\ (facts.status = "active" => Agree(brief, facts, g, state))
    BY AtWork
  <1>2. ~state.cancelled /\ ~state.hard /\ ~state.fatal /\ ~state.verified /\ state.noGain <= 1
    BY <1>1, LimitedIs, Unstopped
  <1>3. Shape(Onward(g, state, u), NodePatch(g, state, u))
    BY <1>2, ShapeAfterCollecting
  <1>4. ASSUME facts.status = "active"
        PROVE  Agree(brief, new, Onward(g, state, u), NodePatch(g, state, u))
    <2>1. /\ SameRound(brief, facts, state) /\ facts.claims \subseteq state.claims
          /\ g = "claims" \/ state.qualified \subseteq state.events
      BY <1>1, <1>2, <1>4 DEF Agree, Collection
    <2>2. SameRound(brief, new, u)
      BY <2>1 DEF SameRound, EvaluatedIn
    <2>3. \/ new.claims \subseteq u.claims
          \/ g = "claims" /\ ~u.fatal /\ ~u.budget /\ ~u.soft
      BY <2>1
    <2>4. \/ u.qualified \subseteq u.events
          \/ u.fatal
          \/ g \in {"cluster", "claims"} /\ ~u.budget /\ ~u.soft
      BY <2>1
    <2> QED
      BY <1>2, <2>2, <2>3, <2>4, AgreeAfterCollecting
  <1> QED
    BY <1>3, <1>4 DEF Found

LEMMA PlanFound ==
  ASSUME History, worker.step = "work", worker.stage = "plan",
         NEW u \in States, u.report = state.report, u.gaps = state.gaps,
         u.qualified = state.qualified, u.noGain = state.noGain,
         u.collected = state.collected, u.refill = state.refill,
         u.verified = state.verified, u.cancelled = state.cancelled, u.hard = state.hard,
         u.claims = state.claims, u.events = state.events
  PROVE  Found(brief, facts, Onward(worker.stage, state, u), NodePatch(worker.stage, state, u))
  <1>1. Shape("plan", state) /\ (facts.status = "active" => Agree(brief, facts, "plan", state))
    BY AtWork
  <1>2. ~state.cancelled /\ ~state.hard /\ ~state.fatal /\ ~state.verified /\ state.noGain <= 1
    BY <1>1, LimitedIs, Unstopped DEF Collection
  <1>3. Shape(Onward("plan", state, u), NodePatch("plan", state, u))
    BY <1>1, <1>2, ShapeAfterPlan
  <1>4. ASSUME facts.status = "active"
        PROVE  Agree(brief, facts, Onward("plan", state, u), NodePatch("plan", state, u))
    <2>1. /\ SameRound(brief, facts, state) /\ facts.claims \subseteq state.claims
          /\ state.qualified \subseteq state.events
      BY <1>1, <1>2, <1>4 DEF Agree
    <2>2. SameRound(brief, facts, u)
      BY <2>1, SameRoundKept
    <2> QED
      BY <1>2, <2>1, <2>2, AgreeAfterPlan
  <1> QED
    BY <1>3, <1>4 DEF Found

(* Back to the round that was evaluated last. *)
LEMMA StatesClosed ==
  ASSUME NEW s \in States, NEW q \in BOOLEAN, NEW soft \in BOOLEAN, NEW p \in BOOLEAN,
         NEW e \in SUBSET Events, NEW c \in SUBSET Claims
  PROVE  [s EXCEPT !.planned = FALSE, !.budget = q, !.soft = soft, !.planExhausted = p,
                   !.events = e, !.qualified = e, !.claims = c] \in States
  <1> DEFINE u == [s EXCEPT !.planned = FALSE, !.budget = q, !.soft = soft, !.planExhausted = p]
             v == [u EXCEPT !.events = e, !.qualified = e, !.claims = c]
  <1>1. u \in States
    BY ZenonT(30) DEF States
  <1>2. v = [s EXCEPT !.planned = FALSE, !.budget = q, !.soft = soft, !.planExhausted = p,
                      !.events = e, !.qualified = e, !.claims = c]
    OBVIOUS
  <1> HIDE DEF u
  <1>3. v \in States
    BY <1>1, ZenonT(30) DEF States
  <1> QED
    BY <1>2, <1>3

LEMMA BudgetStopFound ==
  ASSUME facts \in Facts, worker.stage \in Collection, Shape(worker.stage, state),
         facts.status = "active" => Agree(brief, facts, worker.stage, state),
         NEW soft \in BOOLEAN
  PROVE  /\ BudgetStop(state, soft) \in States
         /\ Found(brief, facts, Onward(worker.stage, state, BudgetStop(state, soft)),
                  NodePatch(worker.stage, state, BudgetStop(state, soft)))
  <1> DEFINE g == worker.stage
             u == BudgetStop(state, soft)
  <1>0. /\ ~state.cancelled /\ ~state.hard /\ ~state.fatal /\ ~state.verified
        /\ state.noGain <= 1 /\ state \in States
    BY LimitedIs, Unstopped DEF Shape
  <1>1. Evaluated \in SUBSET Events /\ facts.claims \in SUBSET Claims
        /\ Evaluated = EvaluatedIn(facts)
    <2>1. facts.quality \in (SUBSET Events) \cup {None} /\ facts.claims \in SUBSET Claims
      BY DEF Facts
    <2>2. {} \in SUBSET Events
      OBVIOUS
    <2>3. CASE facts.quality = None
      BY <2>1, <2>2, <2>3 DEF Evaluated, EvaluatedIn
    <2>4. CASE facts.quality # None
      BY <2>1, <2>4 DEF Evaluated, EvaluatedIn
    <2> QED
      BY <2>3, <2>4
  <1>2. (state.planExhausted \/ worker.stage = "plan") \in BOOLEAN /\ (~soft) \in BOOLEAN
    OBVIOUS
  <1>3. u \in States
    <2> DEFINE p == state.planExhausted \/ worker.stage = "plan"
               q == ~soft
    <2>1. p \in BOOLEAN /\ q \in BOOLEAN
      BY <1>2
    <2>2. u = [state EXCEPT !.planned = FALSE, !.budget = q, !.soft = soft,
                            !.planExhausted = p, !.events = Evaluated,
                            !.qualified = Evaluated, !.claims = facts.claims]
      BY DEF BudgetStop
    <2> HIDE DEF p, q, u
    <2> QED
      BY <1>0, <1>1, <2>1, <2>2, StatesClosed
  <1>4. /\ u.report = state.report /\ u.gaps = state.gaps /\ u.qualified = Evaluated
        /\ u.events = Evaluated /\ u.claims = facts.claims /\ u.noGain = state.noGain
        /\ u.collected = state.collected /\ u.refill = state.refill
        /\ u.verified = state.verified /\ u.cancelled = state.cancelled
        /\ u.hard = state.hard
    BY <1>0 DEF BudgetStop, States
  <1>5. facts.status = "active" => SameRound(brief, facts, u)
    <2>1. facts.status = "active" => SameRound(brief, facts, state)
      BY <1>0 DEF Agree
    <2> QED
      BY <2>1, <1>1, <1>4 DEF SameRound
  <1> HIDE DEF u
  <1>6. CASE g = "plan"
    <2>1. Shape(Onward("plan", state, u), NodePatch("plan", state, u))
      BY <1>0, <1>3, <1>4, <1>6, ShapeAfterPlan
    <2>2. facts.status = "active" =>
            Agree(brief, facts, Onward("plan", state, u), NodePatch("plan", state, u))
      BY <1>0, <1>3, <1>4, <1>5, AgreeAfterPlan
    <2> QED
      BY <1>3, <1>6, <2>1, <2>2 DEF Found, u
  <1>7. CASE g # "plan"
    <2>1. Shape(Onward(g, state, u), NodePatch(g, state, u))
      BY <1>0, <1>3, <1>4, <1>7, ShapeAfterCollecting
    <2>2. facts.status = "active" =>
            Agree(brief, facts, Onward(g, state, u), NodePatch(g, state, u))
      BY <1>0, <1>3, <1>4, <1>5, <1>7, AgreeAfterCollecting
    <2> QED
      BY <1>3, <2>1, <2>2 DEF Found, u
  <1> QED
    BY <1>6, <1>7

LEMMA EnterKeeps ==
  ASSUME History, Enter
  PROVE  History'
  <1>1. /\ worker.step = "enter" /\ worker.stage \in Stages /\ UNCHANGED <<facts, others>>
        /\ state \in States /\ facts \in Facts
        /\ Shape(worker.stage, state)
        /\ facts.status = "active" => Agree(brief, facts, worker.stage, state)
    BY DEF Enter, History, Types, Begins, Found
  <1>2. CASE Raise("ended") /\ UNCHANGED state
    <2>1. "ended" \in Refusals
      BY DEF Refusals
    <2> QED
      BY <1>1, <1>2, <2>1, RaiseKeeps
  <1>3. CASE facts.status = "active" /\ ControlStop(state) /\ Advance(state)
    <2>1. worker.stage \in Last
      BY <1>1, <1>3 DEF Shape
    <2>2. worker.stage = "finalize"
      BY <1>1, <2>1 DEF Last, Stages, Collection, Output
    <2>3. state.verified => ~state.fatal
      BY <1>1 DEF Shape
    <2>4. Found(brief, facts, Onward("finalize", state, state),
                NodePatch("finalize", state, state))
      BY <1>1, <1>3, <2>2, <2>3, ShapeAfterFinalize, AgreeAfterFinalize DEF Found
    <2> QED
      BY <1>1, <1>3, <2>2, <2>4, AdvanceKeeps
  <1>4. CASE Stopped /\ Advance(Flagged(state))
    <2> DEFINE u == Flagged(state)
    <2>1. /\ u \in States /\ (u.cancelled \/ u.hard) /\ u.noGain = state.noGain
          /\ u.refill = state.refill /\ u.verified = state.verified /\ u.fatal = state.fatal
      BY <1>1, ZenonT(30) DEF Flagged, States
    <2>2. u.verified => ~u.fatal
      BY <1>1, <2>1 DEF Shape
    <2> HIDE DEF u
    <2>3. Found(brief, facts, Onward(worker.stage, state, u), NodePatch(worker.stage, state, u))
      BY <1>1, <2>1, <2>2, FoundAfterStop
    <2> QED
      BY <1>1, <1>4, <2>1, <2>3, AdvanceKeeps DEF u
  <1>5. CASE worker.stage \in Collection /\ Advance(BudgetStop(state, ~state.budget))
    <2>1. (~state.budget) \in BOOLEAN
      OBVIOUS
    <2>2. /\ BudgetStop(state, ~state.budget) \in States
          /\ Found(brief, facts, Onward(worker.stage, state, BudgetStop(state, ~state.budget)),
                   NodePatch(worker.stage, state, BudgetStop(state, ~state.budget)))
      BY <1>1, <1>5, <2>1, BudgetStopFound
    <2> QED
      BY <1>1, <1>5, <2>2, AdvanceKeeps
  <1>6. CASE worker' = [worker EXCEPT !.step = "work"] /\ UNCHANGED state
    <2>1. worker' \in Workers /\ worker'.step = "work" /\ worker'.stage = worker.stage
      BY <1>6 DEF History, Types, Workers
    <2>2. /\ brief' = brief /\ runner' = runner /\ clock' = clock
          /\ cancel' = cancel /\ snapshot' = snapshot
      BY <1>1 DEF others
    <2>3. Types'
      BY <1>1, <1>6, <2>1, <2>2 DEF History, Types
    <2>4. Begins'
      BY <1>1, <1>6, <2>1, <2>2 DEF Begins, Found
    <2>5. Leaves' /\ Ends'
      BY <1>1, <2>1, <2>2 DEF History, Leaves, Ends
    <2> QED
      BY <2>3, <2>4, <2>5 DEF History
  <1> QED
    BY <1>2, <1>3, <1>4, <1>5, <1>6 DEF Enter

LEMMA LeaveKeeps ==
  ASSUME History, Leave
  PROVE  History'
  <1>1. /\ worker.step = "leave" /\ UNCHANGED <<facts, others>> /\ worker.stage \in Stages
        /\ state \in States /\ worker.update \in States /\ Shape(worker.stage, state)
        /\ ~Stopped => Found(brief, facts, Onward(worker.stage, state, worker.update),
                             NodePatch(worker.stage, state, worker.update))
    BY DEF Leave, History, Types, Begins, Leaves
  <1>2. CASE Stopped /\ Advance(Flagged(state))
    <2> DEFINE u == Flagged(state)
    <2>1. /\ u \in States /\ (u.cancelled \/ u.hard) /\ u.noGain = state.noGain
          /\ u.refill = state.refill /\ u.verified = state.verified /\ u.fatal = state.fatal
      BY <1>1, ZenonT(30) DEF Flagged, States
    <2>2. u.verified => ~u.fatal
      BY <1>1, <2>1 DEF Shape
    <2> HIDE DEF u
    <2>3. Found(brief, facts, Onward(worker.stage, state, u), NodePatch(worker.stage, state, u))
      BY <1>1, <2>1, <2>2, FoundAfterStop
    <2> QED
      BY <1>1, <1>2, <2>1, <2>3, AdvanceKeeps DEF u
  <1>3. CASE ~Stopped /\ Advance(worker.update)
    BY <1>1, <1>3, AdvanceKeeps
  <1>4. CASE Raise("ended") /\ UNCHANGED state
    <2>1. "ended" \in Refusals
      BY DEF Refusals
    <2> QED
      BY <1>1, <1>4, <2>1, RaiseKeeps
  <1> QED
    BY <1>2, <1>3, <1>4 DEF Leave

LEMMA PassesKeeps ==
  ASSUME History, Passes
  PROVE  History'
  <1>1. /\ worker.step = "work" /\ UNCHANGED <<state, others>> /\ Return(state)
        /\ UNCHANGED facts /\ worker.stage \in {"validate", "finalize"}
    BY DEF Passes, Working
  <1>2. /\ state \in States /\ Shape(worker.stage, state)
        /\ facts.status = "active" => Agree(brief, facts, worker.stage, state)
    BY <1>1, AtWork
  <1>3. CASE worker.stage = "validate"
    <2>1. Found(brief, facts, Onward("validate", state, state),
                NodePatch("validate", state, state))
      BY <1>2, <1>3, ShapeAfterValidate, AgreeAfterValidate DEF Found
    <2> QED
      BY <1>1, <1>2, <1>3, <2>1, PlainReturnKeeps
  <1>4. CASE worker.stage = "finalize"
    <2>1. state.verified => ~state.fatal
      BY <1>2 DEF Shape
    <2>2. Found(brief, facts, Onward("finalize", state, state),
                NodePatch("finalize", state, state))
      BY <1>2, <1>4, <2>1, ShapeAfterFinalize, AgreeAfterFinalize DEF Found
    <2> QED
      BY <1>1, <1>2, <1>4, <2>2, PlainReturnKeeps
  <1> QED
    BY <1>1, <1>3, <1>4

LEMMA PlanKeeps ==
  ASSUME History, Plan
  PROVE  History'
  <1>1. /\ worker.step = "work" /\ UNCHANGED <<state, others>> /\ worker.stage = "plan"
    BY DEF Plan, Working
  <1>2. state \in States /\ facts \in Facts
    BY <1>1, AtWork
  <1>3. ASSUME NEW planned \in BOOLEAN,
               SaveAndReturn(facts, [state EXCEPT !.planned = planned,
                                                  !.planExhausted = ~planned])
        PROVE  History'
    <2> DEFINE spent == ~planned
               u == [state EXCEPT !.planned = planned, !.planExhausted = spent]
    <2>1a. spent \in BOOLEAN
      OBVIOUS
    <2> HIDE DEF spent
    <2>1. /\ u \in States /\ u.report = state.report /\ u.gaps = state.gaps
          /\ u.qualified = state.qualified /\ u.noGain = state.noGain
          /\ u.collected = state.collected /\ u.refill = state.refill
          /\ u.verified = state.verified /\ u.cancelled = state.cancelled
          /\ u.hard = state.hard /\ u.claims = state.claims /\ u.events = state.events
      BY <1>2, <2>1a, ZenonT(30) DEF States
    <2> HIDE DEF u
    <2>2. Found(brief, facts, Onward(worker.stage, state, u), NodePatch(worker.stage, state, u))
      BY <1>1, <2>1, PlanFound
    <2> QED
      BY <1>1, <1>2, <1>3, <2>1, <2>2, SaveKeeps DEF u, spent
  <1>4. CASE /\ Return([state EXCEPT !.planned = FALSE, !.planExhausted = TRUE,
                                     !.budget = TRUE])
             /\ UNCHANGED facts
    <2> DEFINE u == [state EXCEPT !.planned = FALSE, !.planExhausted = TRUE, !.budget = TRUE]
    <2>1. /\ u \in States /\ u.report = state.report /\ u.gaps = state.gaps
          /\ u.qualified = state.qualified /\ u.noGain = state.noGain
          /\ u.collected = state.collected /\ u.refill = state.refill
          /\ u.verified = state.verified /\ u.cancelled = state.cancelled
          /\ u.hard = state.hard /\ u.claims = state.claims /\ u.events = state.events
      BY <1>2, ZenonT(30) DEF States
    <2> HIDE DEF u
    <2>2. Found(brief, facts, Onward(worker.stage, state, u), NodePatch(worker.stage, state, u))
      BY <1>1, <2>1, PlanFound
    <2> QED
      BY <1>1, <1>4, <2>1, <2>2, PlainReturnKeeps DEF u
  <1> QED
    BY <1>3, <1>4 DEF Plan

LEMMA CollectionIs ==
  {"discover", "acquire", "normalize", "filter", "deduplicate", "cluster", "claims"}
    = Collection \ {"plan"}
  BY DEF Collection

LEMMA DiscoverKeeps ==
  ASSUME History, Discover
  PROVE  History'
  <1>1. /\ worker.step = "work" /\ UNCHANGED <<state, others>> /\ worker.stage = "discover"
    BY DEF Discover, Working
  <1>2. state \in States /\ facts \in Facts
    BY <1>1, AtWork
  <1>3. PICK complete \in BOOLEAN :
          SaveAndReturn([facts EXCEPT !.complete = @ /\ complete], state)
    BY DEF Discover
  <1> DEFINE new == [facts EXCEPT !.complete = @ /\ complete]
  <1>4. (facts.complete /\ complete) \in BOOLEAN
    OBVIOUS
  <1>5. /\ new \in Facts /\ new.status = facts.status /\ new.quality = facts.quality
        /\ new.gaps = facts.gaps /\ new.claims = facts.claims
    BY <1>2, <1>4 DEF Facts
  <1> HIDE DEF new
  <1>6. Found(brief, new, Onward(worker.stage, state, state),
              NodePatch(worker.stage, state, state))
    BY <1>1, <1>2, <1>5, CollectFound, CollectionIs
  <1> QED
    BY <1>1, <1>2, <1>3, <1>5, <1>6, SaveKeeps DEF new

LEMMA AcquireKeeps ==
  ASSUME History, Acquire
  PROVE  History'
  <1>1. /\ worker.step = "work" /\ UNCHANGED <<state, others>> /\ worker.stage = "acquire"
    BY DEF Acquire, Working
  <1>2. state \in States /\ facts \in Facts
    BY <1>1, AtWork
  <1>3. PICK exhausted \in BOOLEAN : SaveAndReturn(facts, [state EXCEPT !.budget = exhausted])
    BY DEF Acquire
  <1> DEFINE u == [state EXCEPT !.budget = exhausted]
  <1>4. /\ u \in States /\ u.report = state.report /\ u.gaps = state.gaps
        /\ u.qualified = state.qualified /\ u.noGain = state.noGain
        /\ u.verified = state.verified /\ u.cancelled = state.cancelled
        /\ u.hard = state.hard /\ u.claims = state.claims /\ u.events = state.events
    BY <1>2 DEF States
  <1> HIDE DEF u
  <1>5. Found(brief, facts, Onward(worker.stage, state, u), NodePatch(worker.stage, state, u))
    BY <1>1, <1>4, CollectFound, CollectionIs
  <1> QED
    BY <1>1, <1>2, <1>3, <1>4, <1>5, SaveKeeps DEF u

LEMMA ChoosingKeeps ==
  ASSUME History, Normalize \/ Filter \/ Deduplicate
  PROVE  History'
  <1>1. /\ worker.step = "work" /\ UNCHANGED <<state, others>> /\ SaveAndReturn(facts, state)
        /\ worker.stage \in {"normalize", "filter", "deduplicate"}
    BY DEF Normalize, Filter, Deduplicate, Working
  <1>2. state \in States /\ facts \in Facts
    BY <1>1, AtWork
  <1>3. Found(brief, facts, Onward(worker.stage, state, state),
              NodePatch(worker.stage, state, state))
    BY <1>1, <1>2, CollectFound, CollectionIs
  <1> QED
    BY <1>1, <1>2, <1>3, SaveKeeps

LEMMA ClusterKeeps ==
  ASSUME History, Cluster
  PROVE  History'
  <1>1. /\ worker.step = "work" /\ UNCHANGED <<state, others>> /\ worker.stage = "cluster"
    BY DEF Cluster, Working
  <1>2. state \in States /\ facts \in Facts /\ Shape("cluster", state)
    BY <1>1, AtWork
  <1>3. PICK events \in SUBSET Events : SaveAndReturn(facts, [state EXCEPT !.events = events])
    BY DEF Cluster
  <1> DEFINE u == [state EXCEPT !.events = events]
  <1>4. /\ u \in States /\ u.report = state.report /\ u.gaps = state.gaps
        /\ u.qualified = state.qualified /\ u.noGain = state.noGain
        /\ u.verified = state.verified /\ u.cancelled = state.cancelled
        /\ u.hard = state.hard /\ u.claims = state.claims
        /\ u.budget = state.budget /\ u.soft = state.soft
    BY <1>2 DEF States
  <1> HIDE DEF u
  <1>5. ~u.budget /\ ~u.soft
    BY <1>2, <1>4, Unstopped, LimitedIs DEF Collection
  <1>6. Found(brief, facts, Onward(worker.stage, state, u), NodePatch(worker.stage, state, u))
    BY <1>1, <1>4, <1>5, CollectFound, CollectionIs
  <1> QED
    BY <1>1, <1>2, <1>3, <1>4, <1>6, SaveKeeps DEF u

LEMMA ExtractClaimsKeeps ==
  ASSUME History, ExtractClaims
  PROVE  History'
  <1>1. /\ worker.step = "work" /\ UNCHANGED <<state, others>> /\ worker.stage = "claims"
    BY DEF ExtractClaims, Working
  <1>2. state \in States /\ facts \in Facts /\ Shape("claims", state)
    BY <1>1, AtWork
  <1>3. ASSUME NEW claims \in SUBSET Claims
        PROVE  LET u == [state EXCEPT !.claims = claims]
               IN u \in States
                    /\ Found(brief, facts, Onward(worker.stage, state, u),
                             NodePatch(worker.stage, state, u))
    <2> DEFINE u == [state EXCEPT !.claims = claims]
    <2>1. /\ u \in States /\ u.report = state.report /\ u.gaps = state.gaps
          /\ u.qualified = state.qualified /\ u.noGain = state.noGain
          /\ u.verified = state.verified /\ u.cancelled = state.cancelled
          /\ u.hard = state.hard /\ u.fatal = state.fatal
          /\ u.budget = state.budget /\ u.soft = state.soft
      BY <1>2 DEF States
    <2> HIDE DEF u
    <2>2. ~u.budget /\ ~u.soft /\ ~u.fatal
      BY <1>2, <2>1, Unstopped, LimitedIs DEF Collection
    <2>3. Found(brief, facts, Onward(worker.stage, state, u), NodePatch(worker.stage, state, u))
      BY <1>1, <2>1, <2>2, CollectFound, CollectionIs
    <2> QED
      BY <2>1, <2>3 DEF u
  <1>4. CASE Return([state EXCEPT !.claims = {}]) /\ UNCHANGED facts
    <2>1. {} \in SUBSET Claims
      OBVIOUS
    <2> QED
      BY <1>1, <1>3, <1>4, <2>1, PlainReturnKeeps
  <1>5. ASSUME NEW claims \in SUBSET {c \in Claims : c[1] \in state.events},
               SaveAndReturn(facts, [state EXCEPT !.claims = claims])
        PROVE  History'
    <2>1. claims \in SUBSET Claims
      OBVIOUS
    <2> QED
      BY <1>1, <1>2, <1>3, <1>5, <2>1, SaveKeeps
  <1> QED
    BY <1>4, <1>5 DEF ExtractClaims

(* The evaluation of a round. *)

LEMMA GapsType ==
  ASSUME brief \in Briefs, NEW usable, NEW claims
  PROVE  CollectionGaps(usable, claims) \subseteq Gaps
  <1>1. brief.facets \subseteq Keys
    BY BriefsAssumption
  <1> QED
    BY <1>1 DEF CollectionGaps, Gaps

LEMMA EventsKept ==
  ASSUME NEW claims, NEW usable \in SUBSET EventsOf(claims)
  PROVE  EventsOf({c \in claims : c[1] \in usable}) = usable
  BY DEF EventsOf

LEMMA GapsTell ==
  ASSUME NEW usable, NEW claims
  PROVE  (CollectionGaps(usable, claims) = {}) =
           (~(Cardinality(usable) < brief.need)
             /\ brief.facets \subseteq KeysOf({c \in claims : c[1] \in usable}))
  BY DEF CollectionGaps

LEMMA QualityKeeps ==
  ASSUME History, Quality
  PROVE  History'
  <1>1. /\ worker.step = "work" /\ UNCHANGED <<state, others>> /\ worker.stage = "quality"
    BY DEF Quality, Working
  <1>2. /\ state \in States /\ facts \in Facts /\ Shape("quality", state) /\ brief \in Briefs
    BY <1>1, AtWork DEF History, Types
  <1>3. PICK usable \in Usable, history \in BOOLEAN :
          LET gaps == CollectionGaps(usable, state.claims)
                        \cup IF state.events = {} /\ ~NoMatches(history)
                             THEN {"collection"} ELSE {}
          IN SaveAndReturn(
                [facts EXCEPT !.quality = usable, !.gaps = gaps,
                              !.claims = {c \in state.claims : c[1] \in usable}],
                [state EXCEPT !.qualified = usable, !.report = usable, !.gaps = gaps,
                              !.emptyPlan = NoMatches(history)])
    BY DEF Quality
  <1> DEFINE gaps == CollectionGaps(usable, state.claims)
                       \cup IF state.events = {} /\ ~NoMatches(history)
                            THEN {"collection"} ELSE {}
             empty == NoMatches(history)
             claims == {c \in state.claims : c[1] \in usable}
             new == [facts EXCEPT !.quality = usable, !.gaps = gaps, !.claims = claims]
             u == [state EXCEPT !.qualified = usable, !.report = usable, !.gaps = gaps,
                                !.emptyPlan = empty]
  <1>4. SaveAndReturn(new, u)
    BY <1>3
  <1>5. usable \subseteq state.events /\ usable \in SUBSET EventsOf(state.claims)
    BY DEF Usable
  <1>6. usable \in SUBSET Events /\ usable # None /\ claims \in SUBSET Claims
    <2>1. state.events \subseteq Events /\ state.claims \subseteq Claims
      BY <1>2 DEF States
    <2> QED
      BY <1>5, <2>1, NoneAssumption
  <1>7. gaps \in SUBSET Gaps
    <2>1. CollectionGaps(usable, state.claims) \subseteq Gaps
      BY <1>2, GapsType
    <2>2. "collection" \in Gaps
      BY DEF Gaps
    <2> QED
      BY <2>1, <2>2
  <1>8. empty \in BOOLEAN
    BY DEF NoMatches
  <1>9. EventsOf(claims) = usable
    BY <1>5, EventsKept
  <1>10. usable # {} =>
           (gaps = {}) = (~(Cardinality(usable) < brief.need)
                           /\ brief.facets \subseteq KeysOf(claims))
    <2> HAVE usable # {}
    <2>1. state.events # {}
      BY <1>5
    <2>2. gaps = CollectionGaps(usable, state.claims)
      BY <2>1
    <2> QED
      BY <2>2, GapsTell
  <1>11. claims \subseteq state.claims
    OBVIOUS
  <1> HIDE DEF gaps, empty, claims
  <1>12. /\ new \in Facts /\ new.status = facts.status /\ new.quality = usable
         /\ new.gaps = gaps /\ new.claims = claims
    BY <1>2, <1>6, <1>7 DEF Facts
  <1>13. /\ u \in States /\ u.qualified = usable /\ u.report = usable /\ u.gaps = gaps
         /\ u.noGain = state.noGain /\ u.cancelled = state.cancelled /\ u.hard = state.hard
         /\ u.fatal = state.fatal /\ u.verified = state.verified
         /\ u.events = state.events /\ u.claims = state.claims
    BY <1>2, <1>6, <1>7, <1>8, ZenonT(30) DEF States
  <1> HIDE DEF new, u
  <1>14. ~u.cancelled /\ ~u.hard /\ ~u.fatal /\ ~u.verified
    BY <1>2, <1>13, Unstopped, LimitedIs
  <1>15. Shape(Onward("quality", state, u), NodePatch("quality", state, u))
    BY <1>2, <1>13, <1>14, ShapeAfterQuality
  <1>16. EvaluatedIn(new) = usable
    BY <1>6, <1>12 DEF EvaluatedIn
  <1>17. SameRound(brief, new, u)
    BY <1>9, <1>10, <1>12, <1>13, <1>16 DEF SameRound
  <1>18. Agree(brief, new, Onward("quality", state, u), NodePatch("quality", state, u))
    BY <1>5, <1>6, <1>11, <1>12, <1>13, <1>14, <1>17, AgreeAfterQuality
  <1>19. Found(brief, new, Onward("quality", state, u), NodePatch("quality", state, u))
    BY <1>15, <1>18 DEF Found
  <1> QED
    BY <1>1, <1>4, <1>12, <1>13, <1>19, SaveKeeps

LEMMA CallFailsKeeps ==
  ASSUME History, CallFails
  PROVE  History'
  <1>1. /\ worker.step = "work" /\ UNCHANGED <<state, others>> /\ UNCHANGED facts
    BY DEF CallFails, others
  <1>2. /\ state \in States /\ facts \in Facts /\ Shape(worker.stage, state)
        /\ facts.status = "active" => Agree(brief, facts, worker.stage, state)
    BY <1>1, AtWork
  <1>3. CASE worker.stage \in Collection /\ Return(BudgetStop(state, FALSE))
    <2>1. /\ BudgetStop(state, FALSE) \in States
          /\ Found(brief, facts, Onward(worker.stage, state, BudgetStop(state, FALSE)),
                   NodePatch(worker.stage, state, BudgetStop(state, FALSE)))
      BY <1>2, <1>3, BudgetStopFound
    <2> QED
      BY <1>1, <1>3, <2>1, PlainReturnKeeps
  <1>4. CASE /\ worker.stage \in {"plan", "filter", "cluster", "claims"}
             /\ Return([state EXCEPT !.fatal = TRUE])
    <2> DEFINE u == [state EXCEPT !.fatal = TRUE]
    <2>1. /\ u \in States /\ u.report = state.report /\ u.gaps = state.gaps
          /\ u.qualified = state.qualified /\ u.noGain = state.noGain
          /\ u.collected = state.collected /\ u.refill = state.refill
          /\ u.verified = state.verified /\ u.cancelled = state.cancelled
          /\ u.hard = state.hard /\ u.claims = state.claims /\ u.events = state.events
          /\ u.fatal
      BY <1>2, ZenonT(30) DEF States
    <2> HIDE DEF u
    <2>2. Found(brief, facts, Onward(worker.stage, state, u), NodePatch(worker.stage, state, u))
      <3>1. CASE worker.stage = "plan"
        BY <1>1, <2>1, <3>1, PlanFound
      <3>2. CASE worker.stage \in {"filter", "cluster", "claims"}
        BY <1>1, <2>1, <3>2, CollectFound, CollectionIs
      <3> QED
        BY <1>4, <3>1, <3>2
    <2> QED
      BY <1>1, <1>4, <2>1, <2>2, PlainReturnKeeps DEF u
  <1>5. CASE Raise("error")
    <2>1. "error" \in Refusals
      BY DEF Refusals
    <2> QED
      BY <1>1, <1>5, <2>1, RaiseKeeps
  <1> QED
    BY <1>3, <1>4, <1>5 DEF CallFails

(* The delivery. *)

LEMMA DraftIs == Draft = DraftOf(facts, state)
  BY DEF Draft, DraftOf

LEMMA DraftType ==
  ASSUME state \in States, facts \in Facts
  PROVE  Draft \in Deliveries
  <1>1. state.qualified \in SUBSET Events /\ facts.claims \in SUBSET Claims
    BY DEF States, Facts
  <1>2. /\ Verdict([state EXCEPT !.verified = TRUE]) \in Verdicts
        /\ StopReason([state EXCEPT !.verified = TRUE]) \in Reasons
    BY Judged
  <1> QED
    BY <1>1, <1>2 DEF Draft, Deliveries

\* With a state and facts that agree, only a stop, the end of the Run or too
\* many events are refused.
LEMMA RefusalIs ==
  ASSUME Agree(brief, facts, worker.stage, state), worker.stage # "quality",
         worker.stage # "claims", ~state.fatal, facts.quality # None
  PROVE  /\ Refusal \in {"control", "ended", "count", None}
         /\ Refusal \notin {"control", "ended"} => ClosureHolds
  <1>1. CASE Stopped \/ state.cancelled \/ state.hard
    BY <1>1 DEF Refusal
  <1>2. CASE ~(Stopped \/ state.cancelled \/ state.hard)
    <2>1. ClosureHolds
      BY <1>2 DEF Agree, SameRound, EvaluatedIn, ClosureHolds
    <2> QED
      BY <1>2, <2>1 DEF Refusal
  <1> QED
    BY <1>1, <1>2

LEMMA RefusalNone ==
  ASSUME Refusal \notin {"control", "ended"}
  PROVE  /\ ~Stopped /\ ~state.cancelled /\ ~state.hard /\ facts.status = "active"
         /\ Refusal = None => ClosureHolds /\ ~TooMany
  BY NoneAssumption DEF Refusal

\* What an output stage has to show: it refuses nothing by itself, and what it
\* saves and returns is what the next stage expects.
LEMMA OutputsKeeps ==
  ASSUME History, NEW g \in Output, NEW refused, NEW new, NEW u,
         Outputs(g, refused, new, u),
         Refusal = None => ~refused /\ new \in Facts /\ new.status = facts.status
                             /\ u \in States
                             /\ Found(brief, new, Onward(g, state, u), NodePatch(g, state, u))
  PROVE  History'
  <1>1. worker.step = "work" /\ worker.stage = g /\ UNCHANGED <<state, others>>
    BY DEF Outputs, Working
  <1>2. /\ state \in States /\ facts \in Facts /\ Shape(g, state)
        /\ facts.status = "active" => Agree(brief, facts, g, state)
    BY <1>1, AtWork
  <1>3. ~state.fatal
    BY <1>2 DEF Shape, ControlStop, Last, Output
  <1>4. CASE Refusal # None
    <2>1. Raise(Refusal) /\ UNCHANGED facts
      BY <1>4 DEF Outputs
    <2>2. Refusal \in Refusals
      <3>1. CASE Refusal \in {"control", "ended"}
        BY <3>1 DEF Refusals
      <3>2. CASE Refusal \notin {"control", "ended"}
        <4>1. Agree(brief, facts, g, state) /\ ~state.cancelled /\ ~state.hard
          BY <1>2, <3>2, RefusalNone
        <4>2. facts.quality # None
          BY <4>1 DEF Agree, Drafted
        <4>3. Refusal \in {"control", "ended", "count", None}
          BY <1>1, <1>3, <4>1, <4>2, RefusalIs DEF Output
        <4> QED
          BY <1>4, <4>3 DEF Refusals
      <3> QED
        BY <3>1, <3>2
    <2> QED
      BY <1>1, <2>1, <2>2, RaiseKeeps
  <1>5. CASE Refusal = None
    <2>1. facts' = new /\ Return(u)
      BY <1>5 DEF Outputs
    <2>2. facts.status = "active"
      BY <1>5, RefusalNone, NoneAssumption
    <2> QED
      BY <1>1, <1>5, <2>1, <2>2, ReturnKeeps
  <1> QED
    BY <1>4, <1>5

\* What an output stage that is not refused has found.
LEMMA OutputFinds ==
  ASSUME History, NEW g \in Output, Working(g), Refusal = None
  PROVE  /\ state \in States /\ facts \in Facts /\ Shape(g, state) /\ ~ControlStop(state)
         /\ facts.status = "active" /\ SameRound(brief, facts, state)
         /\ Drafted(facts, g, state)
         /\ facts.claims \subseteq state.claims /\ state.qualified \subseteq state.events
  <1>1. worker.step = "work" /\ worker.stage = g
    BY DEF Working
  <1>2. /\ state \in States /\ facts \in Facts /\ Shape(g, state)
        /\ facts.status = "active" => Agree(brief, facts, g, state)
    BY <1>1, AtWork
  <1>3. ~ControlStop(state)
    BY <1>2 DEF Shape, Last, Output
  <1>4. facts.status = "active"
    BY RefusalNone, NoneAssumption
  <1>5. g \notin {"quality", "claims"}
    BY DEF Output
  <1> QED
    BY <1>2, <1>3, <1>4, <1>5 DEF Agree, ControlStop

LEMMA ComposeKeeps ==
  ASSUME History, Compose
  PROVE  History'
  <1> DEFINE new == [facts EXCEPT !.draft = Draft]
             u == [state EXCEPT !.verified = FALSE]
  <1>1. Outputs("compose", Draft.verdict = "FAILED", new, u) /\ "compose" \in Output
    BY DEF Compose, Output
  <1>2. ASSUME Refusal = None
        PROVE  /\ Draft.verdict # "FAILED" /\ new \in Facts /\ new.status = facts.status
               /\ u \in States
               /\ Found(brief, new, Onward("compose", state, u), NodePatch("compose", state, u))
    <2>1. /\ state \in States /\ facts \in Facts /\ Shape("compose", state)
          /\ ~ControlStop(state) /\ SameRound(brief, facts, state)
          /\ Drafted(facts, "compose", state)
          /\ facts.claims \subseteq state.claims /\ state.qualified \subseteq state.events
      BY <1>1, <1>2, OutputFinds DEF Outputs
    <2>2. Draft.verdict # "FAILED"
      <3> DEFINE x == [state EXCEPT !.verified = TRUE]
      <3>1. /\ ~x.cancelled /\ ~x.hard /\ ~x.fatal
            /\ x.qualified = state.qualified /\ x.emptyPlan = state.emptyPlan
        BY <2>1 DEF States, ControlStop
      <3>2. x.qualified # {} \/ x.emptyPlan
        BY <2>1, <3>1 DEF Shape, Output
      <3> HIDE DEF x
      <3>3. Verdict(x) # "FAILED"
        BY <3>1, <3>2 DEF Verdict, StoppedStatus
      <3> QED
        BY <3>3 DEF Draft, x
    <2>3. /\ new \in Facts /\ new.status = facts.status /\ new.draft = Draft
          /\ new.quality = facts.quality /\ new.gaps = facts.gaps
          /\ new.claims = facts.claims
      BY <2>1, DraftType DEF Facts
    <2>4. /\ u \in States /\ ~u.verified
          /\ u.report = state.report /\ u.gaps = state.gaps /\ u.qualified = state.qualified
          /\ u.cancelled = state.cancelled /\ u.hard = state.hard /\ u.fatal = state.fatal
          /\ u.soft = state.soft /\ u.budget = state.budget /\ u.noGain = state.noGain
          /\ u.refill = state.refill /\ u.emptyPlan = state.emptyPlan
          /\ u.claims = state.claims /\ u.events = state.events
      BY <2>1, ZenonT(30) DEF States
    <2> HIDE DEF new, u
    <2>5. ~ControlStop(u)
      BY <2>1, <2>4 DEF ControlStop
    <2>6. Onward("compose", state, u) = "verify" /\ NodePatch("compose", state, u) = u
      BY <2>5, RouteOfOutput, PatchOfOthers DEF Onward
    <2>7. Shape("verify", u)
      <3>1. Shape(Onward("compose", state, u), NodePatch("compose", state, u))
        BY <1>1, <2>1, <2>4, <2>5, ShapeAfterOutput
      <3> QED
        BY <3>1, <2>6
    <2>8. SameRound(brief, new, u)
      BY <2>1, <2>3, <2>4 DEF SameRound, EvaluatedIn
    <2>9. new.draft = DraftOf(new, u)
      <3>1. DraftOf(facts, u) = DraftOf(facts, state)
        BY <2>1, <2>4, DraftKept
      <3>2. DraftOf(new, u) = DraftOf(facts, u)
        BY <2>3 DEF DraftOf
      <3> QED
        BY <2>3, <3>1, <3>2, DraftIs
    <2>10. Drafted(new, "verify", u)
      BY <2>1, <2>3, <2>9 DEF Drafted, Output, Last
    <2>11. Agree(brief, new, "verify", u)
      BY <2>1, <2>3, <2>4, <2>8, <2>10 DEF Agree
    <2> QED
      BY <2>2, <2>3, <2>4, <2>6, <2>7, <2>11 DEF Found
  <1> HIDE DEF new, u
  <1> QED
    BY <1>1, <1>2, OutputsKeeps

LEMMA VerifyKeeps ==
  ASSUME History, Verify
  PROVE  History'
  <1>1. PICK accepted \in BOOLEAN :
          Outputs("verify", facts.draft # Draft, [facts EXCEPT !.accepted = accepted],
                  [state EXCEPT !.verified = accepted])
    BY DEF Verify
  <1> DEFINE new == [facts EXCEPT !.accepted = accepted]
             u == [state EXCEPT !.verified = accepted]
  <1>2. Outputs("verify", facts.draft # Draft, new, u) /\ "verify" \in Output
    BY <1>1 DEF Output
  <1>3. ASSUME Refusal = None
        PROVE  /\ ~(facts.draft # Draft) /\ new \in Facts /\ new.status = facts.status
               /\ u \in States
               /\ Found(brief, new, Onward("verify", state, u), NodePatch("verify", state, u))
    <2>1. /\ state \in States /\ facts \in Facts /\ Shape("verify", state)
          /\ ~ControlStop(state) /\ SameRound(brief, facts, state)
          /\ Drafted(facts, "verify", state)
          /\ facts.claims \subseteq state.claims /\ state.qualified \subseteq state.events
      BY <1>2, <1>3, OutputFinds DEF Outputs
    <2>2. facts.draft = Draft /\ facts.quality # None
      BY <2>1, DraftIs DEF Drafted, Output
    <2>3. /\ new \in Facts /\ new.status = facts.status /\ new.draft = facts.draft
          /\ new.quality = facts.quality /\ new.gaps = facts.gaps
          /\ new.claims = facts.claims /\ new.accepted = accepted
      BY <2>1 DEF Facts
    <2>4. /\ u \in States /\ u.verified = accepted
          /\ u.report = state.report /\ u.gaps = state.gaps /\ u.qualified = state.qualified
          /\ u.cancelled = state.cancelled /\ u.hard = state.hard /\ u.fatal = state.fatal
          /\ u.soft = state.soft /\ u.budget = state.budget /\ u.noGain = state.noGain
          /\ u.refill = state.refill /\ u.emptyPlan = state.emptyPlan
          /\ u.claims = state.claims /\ u.events = state.events
      BY <2>1 DEF States
    <2> HIDE DEF new, u
    <2>5. ~ControlStop(u)
      BY <2>1, <2>4 DEF ControlStop
    <2>6. /\ Onward("verify", state, u) = IF u.verified THEN "render" ELSE "finalize"
          /\ NodePatch("verify", state, u) = u
      BY <2>5, RouteOfOutput, PatchOfOthers DEF Onward
    <2>7. Shape(Onward("verify", state, u), NodePatch("verify", state, u))
      BY <1>2, <2>1, <2>4, <2>5, ShapeAfterOutput
    <2>8. SameRound(brief, new, u)
      BY <2>1, <2>3, <2>4 DEF SameRound, EvaluatedIn
    <2>9. new.draft = DraftOf(new, u)
      <3>1. DraftOf(facts, u) = DraftOf(facts, state)
        BY <2>1, <2>4, DraftKept
      <3>2. DraftOf(new, u) = DraftOf(facts, u)
        BY <2>3 DEF DraftOf
      <3> QED
        BY <2>2, <2>3, <3>1, <3>2, DraftIs
    <2>10. CASE u.verified
      <3>1. Drafted(new, "render", u)
        BY <2>2, <2>3, <2>4, <2>9, <2>10 DEF Drafted, Output, Last
      <3> QED
        BY <2>1, <2>2, <2>3, <2>4, <2>6, <2>7, <2>8, <2>10, <3>1 DEF Found, Agree
    <2>11. CASE ~u.verified
      <3>1. Drafted(new, "finalize", u)
        BY <2>11 DEF Drafted, Output, Last
      <3> QED
        BY <2>1, <2>2, <2>3, <2>4, <2>6, <2>7, <2>8, <2>11, <3>1 DEF Found, Agree
    <2> QED
      BY <2>10, <2>11
  <1> HIDE DEF new, u
  <1> QED
    BY <1>2, <1>3, OutputsKeeps

LEMMA RenderKeeps ==
  ASSUME History, Render
  PROVE  History'
  <1> DEFINE new == [facts EXCEPT !.delivery = Draft]
             u == [state EXCEPT !.artifact = Draft]
             refused == facts.draft # Draft \/ ~facts.accepted \/ ~state.verified
  <1>1. Outputs("render", refused, new, u) /\ "render" \in Output
    BY DEF Render, Output
  <1>2. ASSUME Refusal = None
        PROVE  /\ ~refused /\ new \in Facts /\ new.status = facts.status
               /\ u \in States
               /\ Found(brief, new, Onward("render", state, u), NodePatch("render", state, u))
    <2>1. /\ state \in States /\ facts \in Facts /\ Shape("render", state)
          /\ ~ControlStop(state) /\ SameRound(brief, facts, state)
          /\ Drafted(facts, "render", state)
          /\ facts.claims \subseteq state.claims /\ state.qualified \subseteq state.events
      BY <1>1, <1>2, OutputFinds DEF Outputs
    <2>2. /\ facts.draft = Draft /\ facts.quality # None /\ facts.accepted
          /\ state.verified
      BY <2>1, DraftIs DEF Drafted, Output, Shape
    <2>3. /\ new \in Facts /\ new.status = facts.status /\ new.draft = facts.draft
          /\ new.quality = facts.quality /\ new.gaps = facts.gaps
          /\ new.claims = facts.claims /\ new.accepted = facts.accepted
          /\ new.delivery = Draft
      BY <2>1, DraftType DEF Facts
    <2>4. /\ u \in States /\ u.verified = state.verified /\ u.artifact = Draft
          /\ u.report = state.report /\ u.gaps = state.gaps /\ u.qualified = state.qualified
          /\ u.cancelled = state.cancelled /\ u.hard = state.hard /\ u.fatal = state.fatal
          /\ u.soft = state.soft /\ u.budget = state.budget /\ u.noGain = state.noGain
          /\ u.refill = state.refill /\ u.emptyPlan = state.emptyPlan
          /\ u.claims = state.claims /\ u.events = state.events
      BY <2>1, DraftType DEF States
    <2> HIDE DEF new, u
    <2>5. ~ControlStop(u)
      BY <2>1, <2>4 DEF ControlStop
    <2>6. Onward("render", state, u) = "finalize" /\ NodePatch("render", state, u) = u
      BY <2>5, RouteOfOutput, PatchOfOthers DEF Onward
    <2>7. Shape("finalize", u)
      <3>1. Shape(Onward("render", state, u), NodePatch("render", state, u))
        BY <1>1, <2>1, <2>2, <2>4, <2>5, ShapeAfterOutput
      <3> QED
        BY <3>1, <2>6
    <2>8. SameRound(brief, new, u)
      BY <2>1, <2>3, <2>4 DEF SameRound, EvaluatedIn
    <2>9. Draft = DraftOf(new, u)
      <3>1. DraftOf(facts, u) = DraftOf(facts, state)
        BY <2>1, <2>4, DraftKept
      <3>2. DraftOf(new, u) = DraftOf(facts, u)
        BY <2>3 DEF DraftOf
      <3> QED
        BY <3>1, <3>2, DraftIs
    <2>10. Drafted(new, "finalize", u)
      BY <2>2, <2>3, <2>4, <2>9 DEF Drafted, Output, Last
    <2>11. Agree(brief, new, "finalize", u)
      BY <2>1, <2>3, <2>4, <2>8, <2>10 DEF Agree
    <2> QED
      BY <2>2, <2>3, <2>4, <2>6, <2>7, <2>11 DEF Found
  <1> HIDE DEF new, u
  <1> QED
    BY <1>1, <1>2, OutputsKeeps

LEMMA DoneKeeps ==
  ASSUME History, worker.step = "enter", UNCHANGED <<state, facts, others>>,
         NEW outcome \in Outcomes, Done(outcome),
         outcome.verdict \in {"COMPLETE", "PARTIAL"} => Honest(brief, facts, outcome)
  PROVE  History'
  <1> USE DEF History
  <1>1. worker' \in Workers /\ worker'.step = "done" /\ worker'.outcome = outcome
    BY DEF Types, Workers, Done
  <1>2. /\ brief' = brief /\ state' = state /\ facts' = facts /\ runner' = runner
        /\ clock' = clock /\ cancel' = cancel /\ snapshot' = snapshot
    BY DEF others
  <1>3. Types' /\ Begins' /\ Leaves'
    BY <1>1, <1>2 DEF Types, Begins, Leaves
  <1>4. Ends'
    BY <1>1, <1>2 DEF Ends, Deliverable
  <1> QED
    BY <1>3, <1>4

LEMMA MaterializeKeeps ==
  ASSUME History, Materialize
  PROVE  History'
  <1>1. /\ worker.step = "enter" /\ worker.stage = "materialize"
        /\ UNCHANGED <<state, facts, others>>
    BY DEF Materialize
  <1>2. /\ state \in States /\ facts \in Facts /\ Shape("materialize", state)
        /\ facts.status = "active" => Agree(brief, facts, "materialize", state)
    BY <1>1 DEF History, Types, Begins, Found
  <1>3. CASE Refusal \in {"control", "ended"}
    <2>1. Raise(Refusal) /\ Refusal \in Refusals
      BY <1>3 DEF Materialize, Refusals
    <2> QED
      BY <1>1, <2>1, RaiseKeeps
  <1>4. CASE Refusal \notin {"control", "ended"}
    <2>1. /\ ~state.cancelled /\ ~state.hard /\ facts.status = "active"
          /\ Refusal = None => ClosureHolds /\ ~TooMany
      BY <1>4, RefusalNone
    <2>2. /\ SameRound(brief, facts, state) /\ Drafted(facts, "materialize", state)
          /\ facts.claims \subseteq state.claims
          /\ state.fatal \/ state.qualified \subseteq state.events
      BY <1>2, <2>1 DEF Agree
    <2>3. state.verdict = Verdict(state) /\ state.reason = StopReason(state)
      BY <1>2 DEF Shape
    <2> DEFINE x == [state EXCEPT !.verified = TRUE]
    <2>4. /\ x.verified /\ x.cancelled = state.cancelled /\ x.hard = state.hard
          /\ x.fatal = state.fatal /\ x.qualified = state.qualified /\ x.gaps = state.gaps
          /\ x.emptyPlan = state.emptyPlan /\ x.soft = state.soft
          /\ x.budget = state.budget /\ x.noGain = state.noGain /\ x.refill = state.refill
      BY <1>2 DEF States
    <2>5. /\ Draft.verdict = Verdict(x) /\ Draft.reason = StopReason(x)
          /\ Draft.events = state.qualified /\ Draft.claims = facts.claims
      BY DEF Draft
    <2> HIDE DEF x
    <2>6. CASE state.verdict # "FAILED" /\ ~state.verified
      <3>1. Raise("unverified") /\ "unverified" \in Refusals
        BY <1>4, <2>6 DEF Materialize, Refusals
      <3> QED
        BY <1>1, <3>1, RaiseKeeps
    <2>7. CASE state.verdict = "FAILED"
      <3>1. state.fatal \/ (state.qualified = {} /\ ~state.emptyPlan)
        BY <2>1, <2>3, <2>7 DEF Verdict, StoppedStatus
      <3>2. Verdict(x) = Verdict(state)
        BY <2>1, <2>4, <3>1 DEF Verdict, StoppedStatus
      <3>3. StopReason(x) = StopReason(state)
        BY <2>1, <2>4, <3>1 DEF StopReason
      <3>4. Done(Outcome(None))
        BY <1>4, <2>2, <2>3, <2>5, <2>7, <3>2, <3>3 DEF Materialize
      <3>5. Outcome(None) \in Outcomes /\ Outcome(None).verdict = "FAILED"
        <4>1. Draft \in Deliveries /\ Draft.verdict = "FAILED"
          BY <1>2, <2>3, <2>5, <2>7, <3>2, DraftType
        <4>2. Draft.reason \in Reasons /\ Draft.verdict \in Verdicts
              /\ state.qualified \in SUBSET Events
          BY <1>2, <4>1 DEF Deliveries, States
        <4> QED
          BY <4>1, <4>2 DEF Outcome, Outcomes
      <3> QED
        BY <1>1, <3>4, <3>5, DoneKeeps
    <2>8. CASE state.verdict # "FAILED" /\ state.verified
      <3>1. ~state.fatal /\ state.qualified \subseteq state.events
        BY <1>2, <2>2, <2>8 DEF Shape
      <3>2. Verdict(x) = Verdict(state) /\ StopReason(x) = StopReason(state)
        BY <2>4, <2>8 DEF Verdict, StoppedStatus, StopReason
      <3>3. /\ facts.accepted /\ facts.quality # None /\ facts.draft = Draft
            /\ facts.delivery = Draft /\ state.artifact = Draft
        BY <2>2, <2>8, DraftIs DEF Drafted, Last
      <3>4. CASE Refusal # None
        <4>1. Raise(Refusal)
          BY <1>4, <2>2, <2>3, <2>5, <2>8, <3>2, <3>4 DEF Materialize
        <4>2. Refusal \in {"control", "ended", "count", None}
          BY <1>1, <1>2, <2>1, <3>1, <3>3, RefusalIs
        <4>3. Refusal \in Refusals
          BY <3>4, <4>2 DEF Refusals
        <4> QED
          BY <1>1, <4>1, <4>3, RaiseKeeps
      <3>5. CASE Refusal = None
        <4>1. Done(Outcome(Draft))
          BY <1>4, <2>2, <2>3, <2>5, <2>8, <3>2, <3>3, <3>5 DEF Materialize
        <4>2. ClosureHolds /\ ~TooMany
          BY <2>1, <3>5
        <4>3. Outcome(Draft) \in Outcomes /\ Outcome(Draft).delivery = Draft
              /\ Draft \in Deliveries
              /\ Outcome(Draft).verdict = Draft.verdict
          <5>1. Draft \in Deliveries
            BY <1>2, DraftType
          <5>2. Draft.reason \in Reasons /\ Draft.verdict \in Verdicts
                /\ state.qualified \in SUBSET Events
            BY <1>2, <5>1 DEF Deliveries, States
          <5> QED
            BY <5>1, <5>2 DEF Outcome, Outcomes
        <4>4. ASSUME Draft.verdict \in {"COMPLETE", "PARTIAL"}
              PROVE  Honest(brief, facts, Outcome(Draft))
          <5>1. Verdict(x) \in {"COMPLETE", "PARTIAL"}
            BY <2>5, <4>4
          <5>2. state.qualified # {}
                /\ (Draft.verdict = "COMPLETE") = (state.gaps = {})
            BY <2>1, <2>4, <2>5, <3>1, <5>1 DEF Verdict, StoppedStatus
          <5>3. Draft.events = facts.quality /\ EventsOf(Draft.claims) = Draft.events
            BY <2>5, <4>2 DEF ClosureHolds
          <5>4. ~(Cardinality(Draft.events) > brief.limit)
            BY <2>5, <4>2 DEF TooMany
          <5>5. facts.gaps = state.gaps /\ EvaluatedIn(facts) # {}
            BY <2>2, <5>2 DEF SameRound
          <5>6. (facts.gaps = {}) = (~(Cardinality(facts.quality) < brief.need)
                                      /\ brief.facets \subseteq KeysOf(facts.claims))
            BY <2>2, <5>5 DEF SameRound
          <5> QED
            BY <2>5, <4>3, <5>2, <5>3, <5>4, <5>5, <5>6 DEF Honest
        <4> QED
          BY <1>1, <4>1, <4>3, <4>4, DoneKeeps
      <3> QED
        BY <3>4, <3>5
    <2> QED
      BY <2>6, <2>7, <2>8
  <1> QED
    BY <1>3, <1>4

(* The theorems. *)

LEMMA HistoryInit ==
  ASSUME Init
  PROVE  History
  <1>1. /\ state \in States /\ facts \in Facts /\ worker \in Workers
    <2>1. state \in States
      BY BriefsAssumption DEF Init, States, Verdicts
    <2>2. facts \in Facts
      BY DEF Init, Facts
    <2>3. worker \in Workers
      BY DEF Init, Workers, Stages
    <2> QED
      BY <2>1, <2>2, <2>3
  <1>2. Types
    BY <1>1 DEF Init, Types
  <1>3. Shape("validate", state)
    BY <1>1 DEF Init, Shape, ControlStop, Last, Limited, Output
  <1>4. Agree(brief, facts, "validate", state)
    <2>1. EventsOf({}) = {}
      BY DEF EventsOf
    <2>2. /\ state.report = None /\ facts.quality = None /\ state.gaps = facts.gaps
          /\ state.qualified = {} /\ facts.claims = {} /\ ~state.verified
      BY DEF Init
    <2>3. SameRound(brief, facts, state)
      BY <2>1, <2>2 DEF SameRound, EvaluatedIn
    <2>4. Drafted(facts, "validate", state)
      BY DEF Drafted, Output, Last
    <2> QED
      BY <2>2, <2>3, <2>4 DEF Agree
  <1>5. Begins
    BY <1>3, <1>4 DEF Init, Begins, Found
  <1>6. Leaves /\ Ends
    BY DEF Init, Leaves, Ends
  <1> QED
    BY <1>2, <1>5, <1>6 DEF History

LEMMA HistoryNext ==
  ASSUME History, [Next]_vars
  PROVE  History'
  <1>1. CASE Work
    BY <1>1, EnterKeeps, LeaveKeeps, PassesKeeps, PlanKeeps, DiscoverKeeps, AcquireKeeps,
       ChoosingKeeps, ClusterKeeps, ExtractClaimsKeeps, QualityKeeps, CallFailsKeeps,
       ComposeKeeps, VerifyKeeps, RenderKeeps, MaterializeKeeps DEF Work
  <1>2. CASE Start
    BY <1>2, StartKeeps
  <1>3. CASE Wake
    BY <1>3, WakeKeeps
  <1>4. CASE SaveSnapshot
    BY <1>4, SaveSnapshotKeeps
  <1>5. CASE CallerLeaves
    BY <1>5, CallerLeavesKeeps
  <1>6. CASE WorkerDropped
    BY <1>6, WorkerDroppedKeeps
  <1>7. CASE Environment
    BY <1>7, EnvironmentKeeps
  <1>8. CASE UNCHANGED vars
    BY <1>8, StutterKeeps
  <1> QED
    BY <1>1, <1>2, <1>3, <1>4, <1>5, <1>6, <1>7, <1>8 DEF Next

\* What every stage finds: the state of the graph is one to which the routes
\* lead, and with the Run still open the ids in it are those of the facts in
\* the store, ahead of them at most from clustering to the next evaluation,
\* wherever the budget, the time, an error or a cancellation cut in.
THEOREM HistoryKept == Spec => []History
  <1>1. Init => History
    BY HistoryInit
  <1>2. History /\ [Next]_vars => History'
    BY HistoryNext
  <1> QED
    BY <1>1, <1>2, PTL DEF Spec

\* The rounds stay within their limits, and no output stage ever refuses what
\* the graph hands it: the error RESEARCH_OUTPUT_CLOSURE_INVALID is never raised.
THEOREM ClosureNeverRefused == Spec => []ResearchInvariant
  <1>1. History => ResearchInvariant
    <2> SUFFICES ASSUME History
                 PROVE  ResearchInvariant
      OBVIOUS
    <2>1. Types
      BY DEF History
    <2>2. worker.raised \in Refusals \cup {None}
      BY <2>1 DEF Types, Workers
    <2>3. SelfConsistent
      BY <2>2, NoneAssumption DEF SelfConsistent, Refusals
    <2>4. TypeOK
      BY <2>1 DEF TypeOK, Types, Facts, Workers
    <2> QED
      BY <2>3, <2>4 DEF ResearchInvariant
  <1> QED
    BY <1>1, HistoryKept, PTL

\* A completed Run delivers the events of its last evaluated round, each with a
\* claim and no more than asked for, and calls that COMPLETE exactly if nothing
\* is missing (for every brief, every limit of rounds and all possible claims).
THEOREM DeliveredHonestly == Spec => []HonestOutcome
  <1>1. History => HonestOutcome
    <2> SUFFICES ASSUME History, facts.status = "completed"
                 PROVE  LET delivered == facts.outcome.delivery
                            missing == \/ Cardinality(delivered.events) < brief.need
                                       \/ ~(brief.facets \subseteq KeysOf(delivered.claims))
                        IN /\ snapshot = delivered
                           /\ delivered.events = facts.quality /\ delivered.events # {}
                           /\ EventsOf(delivered.claims) = delivered.events
                           /\ Cardinality(delivered.events) <= brief.limit
                           /\ (facts.outcome.verdict = "COMPLETE") = ~missing
      BY DEF HonestOutcome
    <2>1. Honest(brief, facts, facts.outcome) /\ snapshot = facts.outcome.delivery
      BY DEF History, Ends
    <2> DEFINE delivered == facts.outcome.delivery
    <2>2. delivered.events \in SUBSET Events
      BY <2>1 DEF Honest, Deliveries
    <2>3. Cardinality(delivered.events) \in Nat
      BY <2>2, FS_Subset, FS_CardinalityType, BriefsAssumption
    <2>4. brief.limit \in Nat
      BY BriefsAssumption DEF History, Types
    <2>5. Cardinality(delivered.events) <= brief.limit
      BY <2>1, <2>3, <2>4 DEF Honest
    <2> QED
      BY <2>1, <2>5 DEF Honest
  <1> QED
    BY <1>1, HistoryKept, PTL

\* Whatever the worker still does when the Run has ended, the facts stay.
THEOREM EndKept == Spec => EndIsFinal
  <1>1. ASSUME History, [Next]_vars, facts.status # "active"
        PROVE  facts' = facts
    <2>1. runner = "ended"
      BY <1>1 DEF History, Ends
    <2>2. ~MayPut /\ Refusal # None
      BY <1>1, RefusalNone, NoneAssumption DEF MayPut
    <2>3. ASSUME NEW new, NEW u, SaveAndReturn(new, u)
          PROVE  facts' = facts
      BY <2>2, <2>3 DEF SaveAndReturn
    <2>4. ASSUME NEW g, NEW refused, NEW new, NEW u, Outputs(g, refused, new, u)
          PROVE  facts' = facts
      BY <2>2, <2>4 DEF Outputs
    <2>5. CASE Work
      <3>1. CASE Enter \/ Leave \/ Passes \/ CallFails \/ Materialize
        BY <3>1 DEF Enter, Leave, Passes, CallFails, Materialize
      <3>2. CASE Plan \/ Discover \/ Acquire \/ Normalize \/ Filter \/ Deduplicate
        BY <3>2, <2>3 DEF Plan, Discover, Acquire, Normalize, Filter, Deduplicate
      <3>3. CASE Cluster \/ ExtractClaims
        BY <3>3, <2>3 DEF Cluster, ExtractClaims
      <3>4. CASE Quality
        BY <3>4, <2>3 DEF Quality
      <3>5. CASE Compose
        BY <3>5, <2>4 DEF Compose
      <3>6. CASE Verify
        BY <3>6, <2>4 DEF Verify
      <3>7. CASE Render
        BY <3>7, <2>4 DEF Render
      <3> QED
        BY <2>5, <3>1, <3>2, <3>3, <3>4, <3>5, <3>6, <3>7 DEF Work
    <2>6. CASE Start \/ Wake \/ SaveSnapshot \/ CallerLeaves
      BY <2>1, <2>6 DEF Start, Wake, SaveSnapshot, CallerLeaves
    <2>7. CASE WorkerDropped \/ Environment \/ UNCHANGED vars
      BY <2>7 DEF WorkerDropped, Environment, vars
    <2> QED
      BY <1>1, <2>5, <2>6, <2>7 DEF Next
  <1>2. History /\ [Next]_vars => [facts.status # "active" => facts' = facts]_vars
    BY <1>1
  <1> QED
    BY <1>2, HistoryKept, PTL DEF Spec, EndIsFinal
=============================================================================
