------------------------- MODULE ConversationProofs -------------------------
(***************************************************************************)
(* The Agent's front door, for every number of requests, conversations,      *)
(* calls and entries: submissions and Runs never occupy more than the service *)
(* admits, what is handed over directly never outlives its Run's slot, and no *)
(* context is kept from eviction for a Run whose end was heard; and a request *)
(* has one Run.                                                              *)
(***************************************************************************)
EXTENDS Conversation, Integers, FiniteSetTheorems, WellFoundedInduction, TLAPS

(***************************************************************************)
(* Filtering a sequence: what the recursive function inside Without computes. *)
(***************************************************************************)

(* Induction over the naturals, for a set of them.                           *)
LEMMA SetInduction ==
    ASSUME NEW T, 0 \in T, \A n \in Nat : n \in T => n + 1 \in T
    PROVE  Nat \subseteq T
PROOF
<1> DEFINE Bad == Nat \ T
<1> SUFFICES ASSUME Bad # {} PROVE FALSE
    OBVIOUS
<1>1. PICK n \in Bad : \A m \in Bad : ~ <<m, n>> \in OpToRel(<, Nat)
    <2>1. IsWellFoundedOn(OpToRel(<, Nat), Nat)
        BY NatLessThanWellFounded
    <2>2. Bad \subseteq Nat
        OBVIOUS
    <2> HIDE DEF Bad
    <2> QED
        BY <2>1, <2>2, WFMin
<1>2. n - 1 \in Nat /\ n - 1 \in Bad
    OBVIOUS
<1>3. <<n - 1, n>> \in OpToRel(<, Nat)
    BY <1>2 DEF OpToRel
<1> QED
    BY <1>1, <1>2, <1>3

Passes(s, gone, n, before) == IF s[n] \in gone THEN before ELSE Append(before, s[n])

Leaves(s, gone, to, f) ==
    f = [n \in 0..to |-> IF n = 0 THEN <<>>
                         ELSE IF s[n] \in gone THEN f[n - 1]
                         ELSE Append(f[n - 1], s[n])]

LEMMA LeavesExists ==
    ASSUME NEW s, NEW gone, NEW to \in Nat
    PROVE  \E f : Leaves(s, gone, to, f)
PROOF
<1> DEFINE Reached == {n \in Nat : \E f : Leaves(s, gone, n, f)}
<1>1. 0 \in Reached
    <2> DEFINE f == [n \in 0..0 |-> <<>>]
    <2>1. Leaves(s, gone, 0, f)
        BY DEF Leaves
    <2> QED
        BY <2>1
<1>2. ASSUME NEW n \in Nat, n \in Reached
      PROVE  n + 1 \in Reached
    <2>1. PICK f : Leaves(s, gone, n, f)
        BY <1>2
    <2> DEFINE g == [m \in 0..(n + 1) |-> IF m = 0 THEN <<>> ELSE Passes(s, gone, m, f[m - 1])]
    <2>2. ASSUME NEW m \in 0..n
          PROVE  g[m] = f[m]
        <3>1. f[m] = IF m = 0 THEN <<>> ELSE Passes(s, gone, m, f[m - 1])
            BY <2>1 DEF Leaves, Passes
        <3>2. m \in 0..(n + 1)
            OBVIOUS
        <3> HIDE DEF Passes
        <3> QED
            BY <3>1, <3>2
    <2>3. ASSUME NEW m \in 0..(n + 1)
          PROVE  g[m] = IF m = 0 THEN <<>> ELSE Passes(s, gone, m, g[m - 1])
        <3>1. m = 0 \/ m - 1 \in 0..n
            OBVIOUS
        <3> QED
            BY <3>1, <2>2
    <2>4. g = [m \in 0..(n + 1) |-> IF m = 0 THEN <<>> ELSE Passes(s, gone, m, g[m - 1])]
        <3>1. g = [m \in 0..(n + 1) |-> g[m]]
            OBVIOUS
        <3> HIDE DEF g
        <3> QED
            BY <3>1, <2>3
    <2>5. Leaves(s, gone, n + 1, g)
        <3> HIDE DEF g
        <3> QED
            BY <2>4 DEF Leaves, Passes
    <2> QED
        BY <2>5
<1> HIDE DEF Reached
<1>3. Nat \subseteq Reached
    BY <1>1, <1>2, SetInduction
<1> QED
    BY <1>3 DEF Reached

Distinct(q) == \A i, j \in 1..Len(q) : q[i] = q[j] => i = j

(* What is left of the first n elements of s.                                *)
LeftOf(s, gone, n, q) ==
    /\ Len(q) <= n
    /\ \A i \in 1..Len(q) : q[i] \notin gone /\ \E j \in 1..n : q[i] = s[j]
    /\ \A j \in 1..n : s[j] \notin gone => \E i \in 1..Len(q) : q[i] = s[j]
    /\ Distinct(s) => Distinct(q)
    /\ (\E j \in 1..n : s[j] \in gone) => Len(q) < n

LEMMA LeavesRight ==
    ASSUME NEW X, NEW s \in Seq(X), NEW gone, NEW f, Leaves(s, gone, Len(s), f)
    PROVE  f[Len(s)] \in Seq(X) /\ LeftOf(s, gone, Len(s), f[Len(s)])
PROOF
<1> DEFINE Good == {n \in Nat : n <= Len(s) => f[n] \in Seq(X) /\ LeftOf(s, gone, n, f[n])}
<1>0. Len(s) \in Nat /\ DOMAIN s = 1..Len(s) /\ \A i \in 1..Len(s) : s[i] \in X
    OBVIOUS
<1>1. 0 \in Good
    <2>1. f[0] = <<>>
        BY <1>0 DEF Leaves
    <2> DEFINE q == f[0]
    <2>2. q \in Seq(X) /\ Len(q) = 0
        BY <2>1
    <2> SUFFICES q \in Seq(X) /\ LeftOf(s, gone, 0, q)
        OBVIOUS
    <2> HIDE DEF q
    <2>3. \A i \in 1..0 : FALSE
        OBVIOUS
    <2> QED
        BY <2>2, <2>3 DEF LeftOf, Distinct
<1>2. ASSUME NEW n \in Nat, n \in Good
      PROVE  n + 1 \in Good
    <2> SUFFICES ASSUME n + 1 <= Len(s) PROVE f[n + 1] \in Seq(X) /\ LeftOf(s, gone, n + 1, f[n + 1])
        OBVIOUS
    <2> DEFINE m == n + 1
               q == f[n]
               r == f[m]
    <2>1. m \in 1..Len(s) /\ m - 1 = n /\ q \in Seq(X) /\ LeftOf(s, gone, n, q) /\ s[m] \in X
        BY <1>0, <1>2
    <2>2. r = Passes(s, gone, m, q)
        <3>1. f[m] = IF m = 0 THEN <<>> ELSE IF s[m] \in gone THEN f[m - 1] ELSE Append(f[m - 1], s[m])
            <4>1. m \in 0..Len(s)
                BY <2>1
            <4> HIDE DEF m, q, r
            <4> QED
                BY <4>1, Zenon DEF Leaves
        <3> QED
            BY <3>1, <2>1 DEF Passes
    <2>3. SUFFICES r \in Seq(X) /\ LeftOf(s, gone, m, r)
        OBVIOUS
    <2>4. m = n + 1
        OBVIOUS
    <2> HIDE DEF m, q, r, Good
    <2>5. CASE s[m] \in gone
        BY <2>1, <2>2, <2>4, <2>5 DEF Passes, LeftOf
    <2>6. CASE s[m] \notin gone
        <3>1. /\ r \in Seq(X) /\ Len(r) = Len(q) + 1
              /\ \A i \in 1..Len(q) : r[i] = q[i]
              /\ r[Len(q) + 1] = s[m]
            BY <2>1, <2>2, <2>6 DEF Passes
        <3>2. Len(q) \in Nat
            BY <2>1
        <3>3. ASSUME NEW i \in 1..Len(r)
              PROVE  r[i] \notin gone /\ \E j \in 1..m : r[i] = s[j]
            <4>1. CASE i \in 1..Len(q)
                <5>1. PICK j \in 1..n : q[i] = s[j]
                    BY <4>1, <2>1 DEF LeftOf
                <5> QED
                    BY <5>1, <4>1, <3>1, <2>1, <2>4 DEF LeftOf
            <4>2. CASE i = Len(q) + 1
                BY <4>2, <3>1, <2>6, <2>4
            <4> QED
                BY <4>1, <4>2, <3>1, <3>2
        <3>4. ASSUME NEW j \in 1..m, s[j] \notin gone
              PROVE  \E i \in 1..Len(r) : r[i] = s[j]
            <4>1. CASE j \in 1..n
                <5>1. PICK i \in 1..Len(q) : q[i] = s[j]
                    BY <4>1, <3>4, <2>1 DEF LeftOf
                <5> QED
                    BY <5>1, <3>1, <3>2
            <4>2. CASE j = m
                <5>1. Len(q) + 1 \in 1..Len(r)
                    BY <3>1, <3>2
                <5> QED
                    BY <4>2, <5>1, <3>1
            <4> QED
                BY <4>1, <4>2, <2>4
        <3>5. ASSUME Distinct(s), NEW i \in 1..Len(r), NEW j \in 1..Len(r), r[i] = r[j]
              PROVE  i = j
            <4>1. ASSUME NEW k \in 1..Len(q)
                  PROVE  q[k] # s[m]
                <5>1. PICK l \in 1..n : q[k] = s[l]
                    BY <2>1 DEF LeftOf
                <5> QED
                    BY <5>1, <3>5, <2>1, <2>4, <1>0 DEF Distinct
            <4>2. (i \in 1..Len(q) \/ i = Len(q) + 1) /\ (j \in 1..Len(q) \/ j = Len(q) + 1)
                BY <3>1, <3>2
            <4>3. Distinct(q)
                BY <2>1, <3>5 DEF LeftOf
            <4> QED
                BY <4>1, <4>2, <4>3, <3>1, <3>5 DEF Distinct
        <3>6. ASSUME NEW j \in 1..m, s[j] \in gone
              PROVE  Len(r) < m
            <4>1. j \in 1..n
                BY <3>6, <2>6, <2>4
            <4> QED
                BY <4>1, <3>6, <3>1, <3>2, <2>1, <2>4 DEF LeftOf
        <3>7. Len(r) <= m
            BY <3>1, <3>2, <2>1, <2>4 DEF LeftOf
        <3>8. Distinct(s) => Distinct(r)
            BY <3>5 DEF Distinct
        <3> QED
            BY <3>1, <3>3, <3>4, <3>6, <3>7, <3>8 DEF LeftOf
    <2> QED
        BY <2>5, <2>6
<1> HIDE DEF Good
<1>3. Nat \subseteq Good
    BY <1>1, <1>2, SetInduction
<1>4. Len(s) \in Good
    BY <1>0, <1>3
<1> QED
    BY <1>0, <1>4 DEF Good

(* Filtering keeps what is not gone, once each and no more than there was.   *)
LEMMA WithoutLaw ==
    ASSUME NEW X, NEW s \in Seq(X), NEW gone
    PROVE  /\ Without(s, gone) \in Seq(X)
           /\ Elements(Without(s, gone)) = Elements(s) \ gone
           /\ Len(Without(s, gone)) <= Len(s)
           /\ (\E x \in Elements(s) : x \in gone) => Len(Without(s, gone)) < Len(s)
           /\ Distinct(s) => Distinct(Without(s, gone))
PROOF
<1> DEFINE q == Without(s, gone)
<1>1. \E f : Leaves(s, gone, Len(s), f)
    <2>1. Len(s) \in Nat
        OBVIOUS
    <2> QED
        BY <2>1, LeavesExists
<1>2. q = (CHOOSE f : Leaves(s, gone, Len(s), f))[Len(s)]
    BY DEF Without, Leaves
<1>3. q \in Seq(X) /\ LeftOf(s, gone, Len(s), q)
    BY <1>1, <1>2, LeavesRight
<1>4. DOMAIN q = 1..Len(q) /\ DOMAIN s = 1..Len(s)
    BY <1>3
<1> HIDE DEF q
<1>5. /\ q \in Seq(X) /\ Elements(q) = Elements(s) \ gone /\ Len(q) <= Len(s)
      /\ (\E x \in Elements(s) : x \in gone) => Len(q) < Len(s)
      /\ Distinct(s) => Distinct(q)
    BY <1>3, <1>4 DEF LeftOf, Elements
<1> QED
    BY <1>5 DEF q

LEMMA AppendLaw ==
    ASSUME NEW X, NEW s \in Seq(X), NEW x \in X
    PROVE  /\ Append(s, x) \in Seq(X) /\ Len(Append(s, x)) = Len(s) + 1
           /\ Elements(Append(s, x)) = Elements(s) \cup {x}
           /\ Distinct(s) /\ x \notin Elements(s) => Distinct(Append(s, x))
PROOF
<1> DEFINE q == Append(s, x)
<1>1. /\ q \in Seq(X) /\ Len(s) \in Nat /\ Len(q) = Len(s) + 1
      /\ DOMAIN s = 1..Len(s) /\ DOMAIN q = 1..(Len(s) + 1)
      /\ \A i \in 1..Len(s) : q[i] = s[i]
      /\ q[Len(s) + 1] = x
    OBVIOUS
<1> SUFFICES Elements(q) = Elements(s) \cup {x} /\ (Distinct(s) /\ x \notin Elements(s) => Distinct(q))
    BY <1>1
<1> HIDE DEF q
<1>2. \A i \in 1..(Len(s) + 1) : i \in 1..Len(s) \/ i = Len(s) + 1
    BY <1>1
<1>3. Len(s) + 1 \in 1..(Len(s) + 1)
    BY <1>1
<1>4. Elements(q) = Elements(s) \cup {x}
    BY <1>1, <1>2, <1>3 DEF Elements
<1>5. ASSUME Distinct(s), x \notin Elements(s) PROVE Distinct(q)
    BY <1>1, <1>2, <1>5 DEF Elements, Distinct
<1> QED
    BY <1>4, <1>5

LEMMA ElementsLaw ==
    ASSUME NEW X, NEW s \in Seq(X)
    PROVE  Elements(s) \subseteq X /\ (Elements(s) = {} <=> Len(s) = 0)
PROOF
<1>1. DOMAIN s = 1..Len(s) /\ Len(s) \in Nat /\ \A i \in 1..Len(s) : s[i] \in X
    OBVIOUS
<1>2. Elements(s) = {s[i] : i \in 1..Len(s)}
    BY <1>1 DEF Elements
<1>3. CASE Len(s) = 0
    <2>1. \A i \in 1..0 : FALSE
        OBVIOUS
    <2> QED
        BY <1>2, <1>3, <2>1
<1>4. CASE Len(s) # 0
    <2>1. 1 \in 1..Len(s)
        BY <1>1, <1>4
    <2> QED
        BY <1>1, <1>2, <1>4, <2>1
<1> QED
    BY <1>3, <1>4

(* What was used last comes last; nothing is there twice.                    *)
LEMMA TouchedLaw ==
    ASSUME NEW X, NEW s \in Seq(X), NEW x \in X
    PROVE  /\ Touched(s, x) \in Seq(X)
           /\ Elements(Touched(s, x)) = Elements(s) \cup {x}
           /\ x \in Elements(s) => Len(Touched(s, x)) <= Len(s)
           /\ Distinct(s) => Distinct(Touched(s, x))
PROOF
<1> DEFINE q == Without(s, {x})
<1>1. /\ q \in Seq(X) /\ Elements(q) = Elements(s) \ {x}
      /\ x \in Elements(s) => Len(q) < Len(s)
      /\ Distinct(s) => Distinct(q)
    <2>1. \A g : /\ Without(s, g) \in Seq(X) /\ Elements(Without(s, g)) = Elements(s) \ g
                 /\ (\E y \in Elements(s) : y \in g) => Len(Without(s, g)) < Len(s)
                 /\ Distinct(s) => Distinct(Without(s, g))
        BY WithoutLaw
    <2> QED
        BY <2>1
<1>2. Touched(s, x) = Append(q, x)
    BY DEF Touched
<1> HIDE DEF q
<1>3. /\ Append(q, x) \in Seq(X) /\ Len(Append(q, x)) = Len(q) + 1
      /\ Elements(Append(q, x)) = Elements(q) \cup {x}
      /\ Distinct(q) /\ x \notin Elements(q) => Distinct(Append(q, x))
    BY <1>1, AppendLaw
<1>4. Len(q) \in Nat /\ Len(s) \in Nat
    BY <1>1
<1> QED
    BY <1>1, <1>2, <1>3, <1>4

(* Evicting only takes contexts away.                                        *)
LEMMA EvictedLaw ==
    ASSUME NEW X, NEW s \in Seq(X), NEW pinned
    PROVE  /\ Evicted(s, pinned) \in Seq(X) /\ Elements(Evicted(s, pinned)) \subseteq Elements(s)
           /\ Distinct(s) => Distinct(Evicted(s, pinned))
PROOF
<1> DEFINE g == First(Without(Unpinned(s), pinned),
                      IF Len(s) > MaxContexts THEN Len(s) - MaxContexts ELSE 0)
<1>1. Evicted(s, pinned) = Without(s, g)
    BY DEF Evicted
<1> HIDE DEF g
<1> QED
    BY <1>1, WithoutLaw

(* As many elements as places.                                               *)
LEMMA DistinctCount ==
    ASSUME NEW X, NEW s \in Seq(X), Distinct(s)
    PROVE  IsFiniteSet(Elements(s)) /\ Cardinality(Elements(s)) = Len(s)
PROOF
<1>1. DOMAIN s = 1..Len(s) /\ Len(s) \in Nat
    OBVIOUS
<1>2. s \in Bijection(1..Len(s), Elements(s))
    <2>1. s \in [1..Len(s) -> Elements(s)]
        BY <1>1 DEF Elements
    <2>2. \A a, b \in 1..Len(s) : s[a] = s[b] => a = b
        BY DEF Distinct
    <2>3. \A t \in Elements(s) : \E a \in 1..Len(s) : s[a] = t
        BY <1>1 DEF Elements
    <2> QED
        BY <2>1, <2>2, <2>3 DEF Bijection, Injection, Surjection, IsInjective
<1>3. IsFiniteSet(1..Len(s)) /\ Cardinality(1..Len(s)) = Len(s)
    BY <1>1, FS_Interval
<1> QED
    BY <1>2, <1>3, FS_Bijection DEF ExistsBijection

(* The newest of a sequence, no more than there is room for.                 *)
LEMMA NewestLaw ==
    ASSUME NEW X, NEW s \in Seq(X), NEW n \in Nat \ {0}
    PROVE  LET q == SubSeq(s, IF Len(s) > n THEN Len(s) - n + 1 ELSE 1, Len(s))
           IN  q \in Seq(X) /\ Len(q) <= n
PROOF
<1>1. Len(s) \in Nat
    OBVIOUS
<1>2. CASE Len(s) > n
    <2>1. Len(s) - n + 1 \in 1..Len(s)
        BY <1>1, <1>2
    <2> DEFINE a == Len(s) - n + 1
    <2>2. SubSeq(s, a, Len(s)) \in Seq(X) /\ Len(SubSeq(s, a, Len(s))) = n
        <3>1. a \in 1..Len(s) /\ Len(s) - a + 1 = n
            BY <1>1, <2>1
        <3> HIDE DEF a
        <3> QED
            BY <1>1, <3>1
    <2> QED
        BY <1>2, <2>2
<1>3. CASE ~(Len(s) > n)
    <2>1. SubSeq(s, 1, Len(s)) \in Seq(X) /\ Len(SubSeq(s, 1, Len(s))) = Len(s)
        BY <1>1
    <2> QED
        BY <1>1, <1>3, <2>1
<1> QED
    BY <1>2, <1>3

(***************************************************************************)
(* The inductive invariant.  Each part speaks of values, so that what one     *)
(* step does to some of the variables is said without primes.                 *)
(***************************************************************************)

CallType  == [pc : {"idle", "creating", "waiting", "done"}, request : Requests \cup {None},
              entry : Entries \cup {None}, seen : {None, "new", "live", "over"}]
RunType   == [talk : Talks, status : {"absent", "queued", "running", "waiting", "over"},
              cancel : BOOLEAN]
EntryType == [talk : Talks \cup {None}, waiting : SUBSET Requests,
              turn : Requests \cup {None}, intent : {"none", "first", "second"}]
PipeType  == [pc : {"none", "queued", "preparing", "direct", "scenario",
                    "question", "brief", "ready", "graph"},
              entry : Entries \cup {None}]

Types ==
    /\ call \in [Calls -> CallType]
    /\ pending \subseteq Requests /\ told \subseteq Requests
    /\ run \in [Requests -> RunType]
    /\ cached \in Seq(Requests) /\ Len(cached) <= MaxRequests
    /\ contexts \in Seq(Entries) /\ Distinct(contexts)
    /\ entry \in [Entries -> EntryType]
    /\ active \in [Requests -> Entries \cup {None}]
    /\ pipe \in [Requests -> PipeType]
    /\ due \in [Requests -> SUBSET {"waiting", "final"}]
    /\ scenario \subseteq Requests /\ direct \subseteq Requests /\ astray \subseteq Requests

\* A context is its conversation's only one, and a Run or a submission refers
\* to an entry of its own conversation.
TalksOK(ctx, en, act, cl, rn) ==
    /\ \A e \in Elements(ctx) : en[e].talk \in Talks
    /\ \A e, f \in Elements(ctx) : en[e].talk = en[f].talk => e = f
    /\ \A r \in Requests : act[r] # None => en[act[r]].talk = rn[r].talk
    /\ \A k \in Calls : cl[k].entry # None => en[cl[k].entry].talk = rn[cl[k].request].talk

\* A submission under way has the future of its request to itself, and the Run
\* it created nobody knows of yet.
CallOK(c, pd, tl, rn, pp) ==
    /\ c.entry # None => c.pc = "creating"
    /\ c.pc = "creating" => c.request \in pd /\ c.entry # None
    /\ c.pc = "creating" /\ c.seen # None =>
         /\ rn[c.request].status # "absent"
         /\ c.seen = "new" =>
              rn[c.request].status = "queued" /\ c.request \notin tl /\ pp[c.request].pc = "none"
CallsOK(cl, pd, tl, rn, pp) ==
    /\ \A k \in Calls : CallOK(cl[k], pd, tl, rn, pp)
    /\ \A j, k \in Calls : cl[j].pc = "creating" /\ cl[k].pc = "creating"
                             /\ cl[j].request = cl[k].request => j = k

\* Of a Run that was never created nobody was told, and it has no task.
KnownOK(tl, rn, pp) ==
    \A r \in Requests : r \in tl \/ pp[r].pc # "none" => rn[r].status # "absent"

\* A Run pins the context that holds its slot, and no other.
PinsOK(en, act, as) ==
    \A e \in Entries : \A r \in en[e].waiting \ as : act[r] = e

\* A Run that ended with its slot is about to be heard of.
EndsOK(rn, act, as, du) ==
    \A r \in Requests : rn[r].status = "over" /\ act[r] # None /\ r \notin as => "final" \in du[r]

Holding(act) == {r \in Requests : act[r] # None}
SlotsOK(pd, act) == Cardinality(pd) + Cardinality(Holding(act)) <= MaxActive

ConvInv ==
    /\ Types
    /\ TalksOK(contexts, entry, active, call, run)
    /\ CallsOK(call, pending, told, run, pipe)
    /\ KnownOK(told, run, pipe)
    /\ PinsOK(entry, active, astray)
    /\ EndsOK(run, active, astray, due)
    /\ SlotsOK(pending, active)
    /\ DirectHandedOver

----------------------------------------------------------------------------
(* What steps of several kinds have in common.                               *)

NotNone == None \notin Requests /\ None \notin Entries /\ None \notin Talks

LEMMA NoneOther == NotNone
PROOF
    BY ConversationAssumption DEF NotNone

(* An entry somebody refers to stays as it is, any other is blank.           *)
LEMMA KeptLaw ==
    ASSUME NEW en \in [Entries -> EntryType], NEW alive
    PROVE  /\ Kept(en, alive) \in [Entries -> EntryType]
           /\ \A e \in Entries : e \in alive => Kept(en, alive)[e] = en[e]
           /\ \A e \in Entries : Kept(en, alive)[e].waiting \subseteq en[e].waiting
PROOF
<1>1. Blank \in EntryType /\ Blank.waiting = {}
    BY DEF Blank, EntryType
<1>2. \A e \in Entries : Kept(en, alive)[e] = IF e \in alive THEN en[e] ELSE Blank
    BY DEF Kept
<1>3. Kept(en, alive) \in [Entries -> EntryType]
    BY <1>1 DEF Kept
<1> QED
    BY <1>1, <1>2, <1>3

LEMMA ReferredLaw ==
    ASSUME NEW ctx, NEW act, NEW pp, NEW cl
    PROVE  /\ \A e \in Elements(ctx) : e \in Referred(ctx, act, pp, cl)
           /\ \A r \in Requests : act[r] \in Referred(ctx, act, pp, cl)
           /\ \A k \in Calls : cl[k].entry \in Referred(ctx, act, pp, cl)
PROOF
    BY DEF Referred

(* Contexts go, slots and submissions end: the others keep their talk.        *)
LEMMA TalksFrame ==
    ASSUME NEW ctx, NEW en, NEW act, NEW cl, NEW rn, TalksOK(ctx, en, act, cl, rn),
           NEW ctx2, NEW en2, NEW act2, NEW cl2, NEW rn2,
           Elements(ctx2) \subseteq Elements(ctx),
           \A r \in Requests : act2[r] \in {None, act[r]},
           \A k \in Calls : cl2[k].entry # None => cl2[k].entry = cl[k].entry /\ cl2[k].request = cl[k].request
                                                   /\ cl[k].request \in Requests,
           \A r \in Requests : rn2[r].talk = rn[r].talk,
           \A e : (e \in Elements(ctx2) \/ (\E r \in Requests : e = act2[r] /\ act2[r] # None)
                      \/ (\E k \in Calls : e = cl2[k].entry /\ cl2[k].entry # None))
                    => en2[e].talk = en[e].talk
    PROVE  TalksOK(ctx2, en2, act2, cl2, rn2)
PROOF
<1>1. ASSUME NEW e \in Elements(ctx2)
      PROVE  e \in Elements(ctx) /\ en2[e].talk = en[e].talk
    OBVIOUS
<1>2. ASSUME NEW r \in Requests, act2[r] # None
      PROVE  en2[act2[r]].talk = rn2[r].talk
    <2>1. act2[r] = act[r] /\ en2[act2[r]].talk = en[act2[r]].talk
        BY <1>2
    <2> QED
        BY <1>2, <2>1 DEF TalksOK
<1>3. ASSUME NEW k \in Calls, cl2[k].entry # None
      PROVE  en2[cl2[k].entry].talk = rn2[cl2[k].request].talk
    <2>1. cl2[k].entry = cl[k].entry /\ cl2[k].request = cl[k].request /\ cl[k].request \in Requests
        BY <1>3
    <2>2. en2[cl2[k].entry].talk = en[cl2[k].entry].talk
        BY <1>3
    <2> QED
        BY <1>3, <2>1, <2>2 DEF TalksOK
<1> QED
    BY <1>1, <1>2, <1>3 DEF TalksOK

LEMMA PinsFrame ==
    ASSUME NEW en, NEW act, NEW as, PinsOK(en, act, as), NEW en2, NEW as2,
           \A e \in Entries : en2[e].waiting \subseteq en[e].waiting, as \subseteq as2
    PROVE  PinsOK(en2, act, as2)
PROOF
    BY DEF PinsOK

LEMMA HoldingFinite ==
    ASSUME NEW act
    PROVE  IsFiniteSet(Holding(act)) /\ Cardinality(Holding(act)) \in Nat
PROOF
<1>1. IsFiniteSet(Requests) /\ Holding(act) \in SUBSET Requests
    BY ConversationAssumption DEF Holding
<1> QED
    BY <1>1, FS_Subset, FS_CardinalityType

LEMMA PendingFinite ==
    ASSUME NEW pd \in SUBSET Requests
    PROVE  IsFiniteSet(pd) /\ Cardinality(pd) \in Nat
PROOF
<1>1. IsFiniteSet(Requests)
    BY ConversationAssumption
<1> QED
    BY <1>1, FS_Subset, FS_CardinalityType

(* Steps around one Run that leave submissions, contexts and slots alone.      *)
LEMMA RunFrame ==
    ASSUME ConvInv, NEW r \in Requests,
           UNCHANGED <<call, pending, cached, told, contexts, active, astray>>,
           pipe' \in [Requests -> PipeType], run' \in [Requests -> RunType],
           entry' \in [Entries -> EntryType], due' \in [Requests -> SUBSET {"waiting", "final"}],
           \A q \in Requests \ {r} : pipe'[q] = pipe[q] /\ run'[q] = run[q],
           run'[r].talk = run[r].talk, run'[r].status # "absent",
           pipe[r].pc # "none" \/ r \in told \/ run[r].status # "queued",
           run'[r].status = "over" => run[r].status = "over" \/ "final" \in due'[r],
           \A q \in Requests : "final" \in due[q] => "final" \in due'[q],
           \A e \in Entries : e \in Referred(contexts, active, pipe', call) => entry'[e].talk = entry[e].talk,
           \A e \in Entries : entry'[e].waiting \subseteq entry[e].waiting,
           scenario' \subseteq Requests, direct' \subseteq Requests, DirectHandedOver'
    PROVE  ConvInv'
PROOF
<1>1. Types'
    BY DEF ConvInv, Types
<1>2. TalksOK(contexts, entry', active, call, run')
    <2>1. ASSUME NEW e, \/ e \in Elements(contexts)
                        \/ \E q \in Requests : e = active[q] /\ active[q] # None
                        \/ \E k \in Calls : e = call[k].entry /\ call[k].entry # None
          PROVE  entry'[e].talk = entry[e].talk
        <3>1. e \in Referred(contexts, active, pipe', call)
            BY <2>1, ReferredLaw
        <3>2. Elements(contexts) \subseteq Entries
            BY ElementsLaw DEF ConvInv, Types
        <3>3. e \in Entries
            BY <2>1, <3>2 DEF ConvInv, Types, CallType
        <3> QED
            BY <3>1, <3>3
    <2>2. \A q \in Requests : run'[q].talk = run[q].talk
        OBVIOUS
    <2>3. \A k \in Calls : call[k].entry # None => call[k].request \in Requests
        BY DEF ConvInv, Types, CallsOK, CallOK
    <2>4. TalksOK(contexts, entry, active, call, run)
        BY DEF ConvInv
    <2> QED
        BY <2>1, <2>2, <2>3, <2>4, TalksFrame
<1>3. CallsOK(call, pending, told, run', pipe')
    <2>1. ASSUME NEW k \in Calls
          PROVE  CallOK(call[k], pending, told, run', pipe')
        <3>1. CallOK(call[k], pending, told, run, pipe)
            BY DEF ConvInv, CallsOK
        <3>2. CASE call[k].pc = "creating" /\ call[k].seen # None /\ call[k].seen = "new"
            <4>1. call[k].request \in Requests /\ call[k].request # r
                BY <3>1, <3>2 DEF ConvInv, Types, CallOK
            <4> QED
                BY <3>1, <3>2, <4>1 DEF CallOK
        <3>3. CASE call[k].pc = "creating" /\ ~(call[k].seen # None /\ call[k].seen = "new")
            <4>1. call[k].request \in Requests
                BY <3>1, <3>3 DEF ConvInv, Types, CallOK
            <4>2. call[k].seen # None => run'[call[k].request].status # "absent"
                BY <3>1, <3>3, <4>1 DEF CallOK
            <4> QED
                BY <3>1, <3>3, <4>2 DEF CallOK
        <3> QED
            BY <3>1, <3>2, <3>3 DEF CallOK
    <2> QED
        BY <2>1 DEF ConvInv, CallsOK
<1>4. KnownOK(told, run', pipe')
    BY DEF ConvInv, KnownOK
<1>5. PinsOK(entry', active, astray)
    BY PinsFrame DEF ConvInv
<1>6. EndsOK(run', active, astray, due')
    BY DEF ConvInv, EndsOK
<1> QED
    BY <1>1, <1>2, <1>3, <1>4, <1>5, <1>6 DEF ConvInv

LEMMA SomeTypes ==
    ASSUME ConvInv
    PROVE  /\ call \in [Calls -> CallType] /\ run \in [Requests -> RunType]
           /\ entry \in [Entries -> EntryType] /\ pipe \in [Requests -> PipeType]
           /\ active \in [Requests -> Entries \cup {None}]
           /\ due \in [Requests -> SUBSET {"waiting", "final"}]
           /\ scenario \subseteq Requests /\ direct \subseteq Requests
           /\ pending \subseteq Requests /\ told \subseteq Requests
           /\ astray \subseteq Requests
           /\ contexts \in Seq(Entries) /\ Elements(contexts) \subseteq Entries
           /\ DirectHandedOver
PROOF
    BY ElementsLaw DEF ConvInv, Types

(* A task's step: its place, its Run's status, what is on its way.           *)
LEMMA PcSet ==
    ASSUME NEW r \in Requests, pipe \in [Requests -> PipeType],
           NEW pc \in {"none", "queued", "preparing", "direct", "scenario",
                       "question", "brief", "ready", "graph"},
           pipe' = [pipe EXCEPT ![r].pc = pc]
    PROVE  /\ pipe' \in [Requests -> PipeType]
           /\ \A q \in Requests \ {r} : pipe'[q] = pipe[q]
PROOF
<1> DEFINE x == [pipe[r] EXCEPT !.pc = pc]
<1>1. x \in PipeType
    BY DEF PipeType
<1>2. pipe' = [pipe EXCEPT ![r] = x]
    OBVIOUS
<1> HIDE DEF x
<1> QED
    BY <1>1, <1>2

LEMMA PipeSet ==
    ASSUME NEW p \in [Requests -> PipeType], NEW r \in Requests, NEW x \in PipeType
    PROVE  /\ [p EXCEPT ![r] = x] \in [Requests -> PipeType]
           /\ \A q \in Requests \ {r} : [p EXCEPT ![r] = x][q] = p[q]
           /\ [p EXCEPT ![r] = x][r] = x
PROOF
    OBVIOUS

LEMMA EndedLaw ==
    ASSUME NEW r \in Requests, run \in [Requests -> RunType], Ended(r)
    PROVE  /\ run' \in [Requests -> RunType]
           /\ \A q \in Requests \ {r} : run'[q] = run[q]
           /\ run'[r].talk = run[r].talk /\ run'[r].status = "over"
PROOF
    BY DEF Ended, RunType

LEMMA StatusSet ==
    ASSUME NEW r \in Requests, run \in [Requests -> RunType],
           NEW st \in {"queued", "running", "waiting", "over"},
           run' = [run EXCEPT ![r].status = st]
    PROVE  /\ run' \in [Requests -> RunType]
           /\ \A q \in Requests \ {r} : run'[q] = run[q]
           /\ run'[r].talk = run[r].talk /\ run'[r].status = st
PROOF
    BY DEF RunType

(* A notification is on its way, with what was there already.                *)
LEMMA DueAdded ==
    ASSUME NEW r \in Requests, due \in [Requests -> SUBSET {"waiting", "final"}],
           NEW news \in {"waiting", "final"}, due' = [due EXCEPT ![r] = @ \cup {news}]
    PROVE  /\ due' \in [Requests -> SUBSET {"waiting", "final"}]
           /\ \A q \in Requests : "final" \in due[q] => "final" \in due'[q]
           /\ news \in due'[r]
PROOF
    OBVIOUS

LEMMA TakeTurnStep ==
    ASSUME ConvInv, NEW r \in Requests, TakeTurn(r)
    PROVE  ConvInv'
PROOF
<1>1. /\ pipe[r].pc = "queued" /\ run[r].status # "absent"
      /\ pipe' = [pipe EXCEPT ![r].pc = "preparing"]
      /\ entry' = [entry EXCEPT ![pipe[r].entry].turn = r]
      /\ UNCHANGED <<call, pending, cached, told, contexts, active, run, due, scenario, direct, astray>>
    BY DEF TakeTurn, ConvInv, KnownOK
<1>2. pipe' \in [Requests -> PipeType] /\ \A q \in Requests \ {r} : pipe'[q] = pipe[q]
    BY <1>1, SomeTypes, PcSet
<1>3. /\ entry' \in [Entries -> EntryType]
      /\ \A e \in Entries : entry'[e].talk = entry[e].talk /\ entry'[e].waiting \subseteq entry[e].waiting
    <2> DEFINE at == pipe[r].entry
    <2>1. entry' = [entry EXCEPT ![at].turn = r] /\ entry \in [Entries -> EntryType]
          /\ r \in Requests \cup {None}
        BY <1>1, SomeTypes
    <2> HIDE DEF at
    <2> QED
        BY <2>1 DEF EntryType
<1>4. DirectHandedOver'
    BY <1>1, SomeTypes DEF DirectHandedOver
<1> QED
    BY <1>1, <1>2, <1>3, <1>4, SomeTypes, RunFrame

LEMMA DecideStep ==
    ASSUME ConvInv, NEW r \in Requests, Decide(r)
    PROVE  ConvInv'
PROOF
<1>1. PICK kind \in {"direct", "scenario", "question", "brief"} : pipe' = [pipe EXCEPT ![r].pc = kind]
    BY DEF Decide
<1>2. /\ pipe[r].pc = "preparing" /\ run[r].status # "absent"
      /\ UNCHANGED <<call, pending, cached, told, contexts, entry, active, run, due, scenario, direct, astray>>
    BY DEF Decide, ConvInv, KnownOK
<1>3. pipe' \in [Requests -> PipeType] /\ \A q \in Requests \ {r} : pipe'[q] = pipe[q]
    BY <1>1, SomeTypes, PcSet
<1>4. DirectHandedOver'
    BY <1>2, SomeTypes DEF DirectHandedOver
<1> QED
    BY <1>2, <1>3, <1>4, SomeTypes, RunFrame

LEMMA PutDirectStep ==
    ASSUME ConvInv, NEW r \in Requests, PutDirect(r)
    PROVE  ConvInv'
PROOF
<1>1. /\ pipe[r].pc = "direct" /\ active[r] # None /\ run[r].status # "absent"
      /\ direct' = direct \cup {r}
      /\ entry' = Unlocked([entry EXCEPT ![pipe[r].entry].intent = "none"], r)
      /\ pipe' = [pipe EXCEPT ![r].pc = "ready"]
      /\ UNCHANGED <<call, pending, cached, told, contexts, active, run, due, scenario, astray>>
    BY DEF PutDirect, HasSlot, ConvInv, KnownOK
<1>2. pipe' \in [Requests -> PipeType] /\ \A q \in Requests \ {r} : pipe'[q] = pipe[q]
    BY <1>1, SomeTypes, PcSet
<1>3. /\ entry' \in [Entries -> EntryType]
      /\ \A e \in Entries : entry'[e].talk = entry[e].talk /\ entry'[e].waiting \subseteq entry[e].waiting
    <2> DEFINE at == pipe[r].entry
               f == [entry EXCEPT ![at].intent = "none"]
    <2>1. /\ f \in [Entries -> EntryType]
          /\ \A e \in Entries : f[e].talk = entry[e].talk /\ f[e].waiting = entry[e].waiting
        <3>1. entry \in [Entries -> EntryType]
            BY SomeTypes
        <3>2. f = [entry EXCEPT ![at].intent = "none"]
            OBVIOUS
        <3> HIDE DEF at, f
        <3> QED
            BY <3>1, <3>2 DEF EntryType
    <2>2. entry' = [f EXCEPT ![at].turn = None] /\ None \in Requests \cup {None}
        BY <1>1 DEF Unlocked
    <2> HIDE DEF f, at
    <2>3. /\ entry' \in [Entries -> EntryType]
          /\ \A e \in Entries : entry'[e].talk = f[e].talk /\ entry'[e].waiting = f[e].waiting
        BY <2>1, <2>2, ZenonT(40) DEF EntryType
    <2> QED
        BY <2>1, <2>3
<1>4. DirectHandedOver' /\ direct' \subseteq Requests
    BY <1>1, SomeTypes DEF DirectHandedOver
<1> QED
    BY <1>1, <1>2, <1>3, <1>4, SomeTypes, RunFrame

LEMMA PutScenarioStep ==
    ASSUME ConvInv, NEW r \in Requests, PutScenario(r)
    PROVE  ConvInv'
PROOF
<1>1. PICK by \in {"none", "first", "second"} :
        entry' = Unlocked([entry EXCEPT ![pipe[r].entry].intent = by], r)
    BY DEF PutScenario
<1>2. /\ pipe[r].pc # "none" /\ run[r].status # "absent"
      /\ scenario' = scenario \cup {r}
      /\ pipe' = [pipe EXCEPT ![r].pc = "ready"]
      /\ UNCHANGED <<call, pending, cached, told, contexts, active, run, due, direct, astray>>
    BY DEF PutScenario, ConvInv, KnownOK
<1>3. pipe' \in [Requests -> PipeType] /\ \A q \in Requests \ {r} : pipe'[q] = pipe[q]
    BY <1>2, SomeTypes, PcSet
<1>4. /\ entry' \in [Entries -> EntryType]
      /\ \A e \in Entries : entry'[e].talk = entry[e].talk /\ entry'[e].waiting \subseteq entry[e].waiting
    <2> DEFINE at == pipe[r].entry
               f == [entry EXCEPT ![at].intent = by]
    <2>1. /\ f \in [Entries -> EntryType]
          /\ \A e \in Entries : f[e].talk = entry[e].talk /\ f[e].waiting = entry[e].waiting
        <3>1. entry \in [Entries -> EntryType]
            BY SomeTypes
        <3>2. f = [entry EXCEPT ![at].intent = by]
            OBVIOUS
        <3> HIDE DEF at, f
        <3> QED
            BY <3>1, <3>2 DEF EntryType
    <2>2. entry' = [f EXCEPT ![at].turn = None] /\ None \in Requests \cup {None}
        BY <1>1 DEF Unlocked
    <2> HIDE DEF f, at
    <2>3. /\ entry' \in [Entries -> EntryType]
          /\ \A e \in Entries : entry'[e].talk = f[e].talk /\ entry'[e].waiting = f[e].waiting
        BY <2>1, <2>2, ZenonT(40) DEF EntryType
    <2> QED
        BY <2>1, <2>3
<1>5. DirectHandedOver' /\ scenario' \subseteq Requests
    BY <1>2, SomeTypes DEF DirectHandedOver
<1> QED
    BY <1>2, <1>3, <1>4, <1>5, SomeTypes, RunFrame

LEMMA GoneLaw ==
    ASSUME NEW r \in Requests, pipe \in [Requests -> PipeType], Gone(r)
    PROVE  /\ pipe' \in [Requests -> PipeType]
           /\ \A q \in Requests \ {r} : pipe'[q] = pipe[q]
PROOF
<1> DEFINE x == [pc |-> "none", entry |-> None]
<1>1. x \in PipeType /\ pipe' = [pipe EXCEPT ![r] = x]
    BY DEF PipeType, Gone
<1> HIDE DEF x
<1> QED
    BY <1>1

(* Entries nobody refers to any more are given up.                           *)
LEMMA EntriesKept ==
    ASSUME NEW en \in [Entries -> EntryType], NEW alive,
           \A e \in Entries : en[e].talk = entry[e].talk /\ en[e].waiting \subseteq entry[e].waiting,
           entry' = Kept(en, alive)
    PROVE  /\ entry' \in [Entries -> EntryType]
           /\ \A e \in Entries : e \in alive => entry'[e].talk = entry[e].talk
           /\ \A e \in Entries : entry'[e].waiting \subseteq entry[e].waiting
PROOF
<1>1. /\ entry' \in [Entries -> EntryType]
      /\ \A e \in Entries : e \in alive => entry'[e] = en[e]
      /\ \A e \in Entries : entry'[e].waiting \subseteq en[e].waiting
    BY KeptLaw
<1> QED
    BY <1>1

LEMMA PrepareFailsStep ==
    ASSUME ConvInv, NEW r \in Requests, PrepareFails(r)
    PROVE  ConvInv'
PROOF
<1>1. /\ pipe[r].pc # "none" /\ run[r].status # "absent"
      /\ Settled(r) /\ Gone(r)
      /\ UNCHANGED <<call, pending, cached, told, contexts, active, scenario, direct, astray>>
    BY DEF PrepareFails, ConvInv, KnownOK
<1>2. pipe' \in [Requests -> PipeType] /\ \A q \in Requests \ {r} : pipe'[q] = pipe[q]
    BY <1>1, SomeTypes, GoneLaw
<1>3. /\ entry' \in [Entries -> EntryType]
      /\ \A e \in Entries : e \in Referred(contexts, active, pipe', call) => entry'[e].talk = entry[e].talk
      /\ \A e \in Entries : entry'[e].waiting \subseteq entry[e].waiting
    <2> DEFINE f == IF pipe[r].pc = "queued" THEN entry ELSE Unlocked(entry, r)
    <2>1. /\ f \in [Entries -> EntryType]
          /\ \A e \in Entries : f[e].talk = entry[e].talk /\ f[e].waiting \subseteq entry[e].waiting
        <3> DEFINE at == pipe[r].entry
                   g == [entry EXCEPT ![at].turn = None]
        <3>1. entry \in [Entries -> EntryType] /\ None \in Requests \cup {None}
            BY SomeTypes
        <3>2. g = [entry EXCEPT ![at].turn = None] /\ f \in {entry, g}
            BY DEF Unlocked
        <3> HIDE DEF f, g, at
        <3>3. /\ g \in [Entries -> EntryType]
              /\ \A e \in Entries : g[e].talk = entry[e].talk /\ g[e].waiting = entry[e].waiting
            <4> DEFINE x == [entry[at] EXCEPT !.turn = None]
            <4>1. CASE at \notin Entries
                <5>1. g = entry
                    BY <4>1, <3>1, <3>2
                <5> QED
                    BY <3>1, <5>1
            <4>2. CASE at \in Entries
                <5>1. x \in EntryType /\ x.talk = entry[at].talk /\ x.waiting = entry[at].waiting
                    BY <3>1, <4>2 DEF EntryType
                <5>2. g = [entry EXCEPT ![at] = x]
                    BY <3>2
                <5> HIDE DEF x
                <5> QED
                    BY <3>1, <5>1, <5>2
            <4> QED
                BY <4>1, <4>2
        <3> QED
            BY <3>1, <3>2, <3>3
    <2>2. entry' = Kept(f, Referred(contexts, active, pipe', call))
        BY DEF PrepareFails
    <2> HIDE DEF f
    <2> QED
        BY <2>1, <2>2, EntriesKept
<1>4. /\ run' \in [Requests -> RunType] /\ due' \in [Requests -> SUBSET {"waiting", "final"}]
      /\ \A q \in Requests \ {r} : run'[q] = run[q]
      /\ run'[r].talk = run[r].talk /\ run'[r].status # "absent"
      /\ run'[r].status = "over" => run[r].status = "over" \/ "final" \in due'[r]
      /\ \A q \in Requests : "final" \in due[q] => "final" \in due'[q]
    <2>1. CASE Over(r)
        BY <1>1, <2>1, SomeTypes DEF Settled, Over
    <2>2. CASE ~Over(r)
        <3>1. Ended(r) /\ due' = [due EXCEPT ![r] = @ \cup {"final"}]
            BY <1>1, <2>2 DEF Settled
        <3> QED
            BY <3>1, SomeTypes, EndedLaw, DueAdded
    <2> QED
        BY <2>1, <2>2
<1>5. DirectHandedOver'
    BY <1>1, SomeTypes DEF DirectHandedOver
<1> QED
    BY <1>1, <1>2, <1>3, <1>4, <1>5, SomeTypes, RunFrame

LEMMA StartGraphStep ==
    ASSUME ConvInv, NEW r \in Requests, StartGraph(r)
    PROVE  ConvInv'
PROOF
<1>1. /\ pipe[r].pc = "ready" /\ run[r].status # "absent"
      /\ UNCHANGED <<call, pending, cached, told, contexts, active, due, astray>>
    BY DEF StartGraph, ConvInv, KnownOK
<1>2. CASE Stopped(r)
    <2>1. /\ Gone(r) /\ UNCHANGED <<run, scenario, direct>>
          /\ entry' = Kept(entry, Referred(contexts, active, pipe', call))
        BY <1>2 DEF StartGraph
    <2>2. pipe' \in [Requests -> PipeType] /\ \A q \in Requests \ {r} : pipe'[q] = pipe[q]
        BY <2>1, SomeTypes, GoneLaw
    <2>3. /\ entry' \in [Entries -> EntryType]
          /\ \A e \in Entries : e \in Referred(contexts, active, pipe', call) => entry'[e].talk = entry[e].talk
          /\ \A e \in Entries : entry'[e].waiting \subseteq entry[e].waiting
        BY <2>1, SomeTypes, EntriesKept
    <2>4. DirectHandedOver'
        BY <1>1, <2>1, SomeTypes DEF DirectHandedOver
    <2> QED
        BY <1>1, <2>1, <2>2, <2>3, <2>4, SomeTypes, RunFrame
<1>3. CASE ~Stopped(r)
    <2>1. /\ run' = [run EXCEPT ![r].status = "running"]
          /\ pipe' = [pipe EXCEPT ![r].pc = "graph"]
          /\ scenario' = scenario \ {r} /\ direct' = direct \ {r} /\ UNCHANGED entry
        BY <1>3 DEF StartGraph
    <2>2. pipe' \in [Requests -> PipeType] /\ \A q \in Requests \ {r} : pipe'[q] = pipe[q]
        BY <2>1, SomeTypes, PcSet
    <2>3. /\ run' \in [Requests -> RunType] /\ \A q \in Requests \ {r} : run'[q] = run[q]
          /\ run'[r].talk = run[r].talk /\ run'[r].status = "running"
        BY <2>1, SomeTypes, StatusSet
    <2>4. DirectHandedOver' /\ scenario' \subseteq Requests /\ direct' \subseteq Requests
        BY <1>1, <2>1, SomeTypes DEF DirectHandedOver
    <2> QED
        BY <1>1, <2>1, <2>2, <2>3, <2>4, SomeTypes, RunFrame
<1> QED
    BY <1>2, <1>3

LEMMA FinishGraphStep ==
    ASSUME ConvInv, NEW r \in Requests, FinishGraph(r)
    PROVE  ConvInv'
PROOF
<1>1. /\ pipe[r].pc = "graph" /\ Gone(r)
      /\ entry' = Kept(entry, Referred(contexts, active, pipe', call))
      /\ UNCHANGED <<call, pending, cached, told, contexts, active, scenario, direct, astray>>
    BY DEF FinishGraph
<1>2. pipe' \in [Requests -> PipeType] /\ \A q \in Requests \ {r} : pipe'[q] = pipe[q]
    BY <1>1, SomeTypes, GoneLaw
<1>3. /\ entry' \in [Entries -> EntryType]
      /\ \A e \in Entries : e \in Referred(contexts, active, pipe', call) => entry'[e].talk = entry[e].talk
      /\ \A e \in Entries : entry'[e].waiting \subseteq entry[e].waiting
    BY <1>1, SomeTypes, EntriesKept
<1>4. /\ run' \in [Requests -> RunType] /\ due' \in [Requests -> SUBSET {"waiting", "final"}]
      /\ \A q \in Requests \ {r} : run'[q] = run[q]
      /\ run'[r].talk = run[r].talk /\ run'[r].status # "absent"
      /\ run'[r].status = "over" => run[r].status = "over" \/ "final" \in due'[r]
      /\ \A q \in Requests : "final" \in due[q] => "final" \in due'[q]
    <2>1. CASE Ended(r) /\ due' = [due EXCEPT ![r] = @ \cup {"final"}]
        BY <2>1, SomeTypes, EndedLaw, DueAdded
    <2>2. CASE /\ run' = [run EXCEPT ![r].status = "waiting"]
               /\ due' = [due EXCEPT ![r] = @ \cup {"waiting"}]
        BY <2>2, SomeTypes, StatusSet, DueAdded
    <2> QED
        BY <2>1, <2>2 DEF FinishGraph
<1>5. DirectHandedOver'
    BY <1>1, SomeTypes DEF DirectHandedOver
<1> QED
    BY <1>1, <1>2, <1>3, <1>4, <1>5, SomeTypes, RunFrame

LEMMA CancelStep ==
    ASSUME ConvInv, NEW r \in Requests, Cancel(r)
    PROVE  ConvInv'
PROOF
<1>1. /\ r \in told
      /\ UNCHANGED <<call, pending, cached, told, contexts, entry, active, pipe, scenario, direct, astray>>
    BY DEF Cancel
<1>2. /\ run' \in [Requests -> RunType] /\ due' \in [Requests -> SUBSET {"waiting", "final"}]
      /\ \A q \in Requests \ {r} : run'[q] = run[q]
      /\ run'[r].talk = run[r].talk /\ run'[r].status # "absent"
      /\ run'[r].status = "over" => run[r].status = "over" \/ "final" \in due'[r]
      /\ \A q \in Requests : "final" \in due[q] => "final" \in due'[q]
    <2>1. CASE run[r].status = "running"
        <3>1. run' = [run EXCEPT ![r].cancel = TRUE] /\ UNCHANGED due
            BY <2>1 DEF Cancel
        <3>2. /\ run' \in [Requests -> RunType] /\ run'[r].talk = run[r].talk
              /\ run'[r].status = run[r].status
              /\ \A q \in Requests \ {r} : run'[q] = run[q]
            BY <3>1, SomeTypes DEF RunType
        <3> QED
            BY <2>1, <3>1, <3>2, SomeTypes
    <2>2. CASE run[r].status # "running"
        <3>1. Ended(r) /\ due' = [due EXCEPT ![r] = @ \cup {"final"}]
            BY <2>2 DEF Cancel
        <3> QED
            BY <3>1, SomeTypes, EndedLaw, DueAdded
    <2> QED
        BY <2>1, <2>2
<1>3. DirectHandedOver'
    BY <1>1, SomeTypes DEF DirectHandedOver
<1> QED
    BY <1>1, <1>2, <1>3, SomeTypes, RunFrame

LEMMA ResumeStep ==
    ASSUME ConvInv, NEW r \in Requests, Resume(r)
    PROVE  ConvInv'
PROOF
<1>1. /\ run[r].status = "waiting" /\ run' = [run EXCEPT ![r].status = "running"]
      /\ pipe' = [pipe EXCEPT ![r] = [pc |-> "graph", entry |-> None]]
      /\ UNCHANGED <<call, pending, cached, told, contexts, entry, active, due, scenario, direct, astray>>
    BY DEF Resume
<1>2. pipe' \in [Requests -> PipeType] /\ \A q \in Requests \ {r} : pipe'[q] = pipe[q]
    <2> DEFINE x == [pc |-> "graph", entry |-> None]
    <2>1. x \in PipeType /\ pipe' = [pipe EXCEPT ![r] = x]
        BY <1>1 DEF PipeType
    <2> HIDE DEF x
    <2> QED
        BY <2>1, SomeTypes
<1>3. /\ run' \in [Requests -> RunType] /\ \A q \in Requests \ {r} : run'[q] = run[q]
      /\ run'[r].talk = run[r].talk /\ run'[r].status = "running"
    BY <1>1, SomeTypes, StatusSet
<1>4. DirectHandedOver'
    BY <1>1, SomeTypes DEF DirectHandedOver
<1> QED
    BY <1>1, <1>2, <1>3, <1>4, SomeTypes, RunFrame


LEMMA WaitingHeard ==
    ASSUME ConvInv, NEW r \in Requests, HearWaiting(r), active[r] # None
    PROVE  ConvInv'
PROOF
<1> DEFINE e == active[r]
           talk == run[r].talk
           rest == Without(contexts, Of(contexts, talk))
           more == Append(rest, e)
           en == [entry EXCEPT ![e].waiting = @ \cup {r}]
<1>1. /\ due' = [due EXCEPT ![r] = @ \ {"waiting"}]
      /\ contexts' = Evicted(more, {e})
      /\ entry' = Kept(en, Referred(contexts', active, pipe, call))
      /\ UNCHANGED <<call, pending, cached, told, active, run, pipe, scenario, direct, astray>>
    BY DEF HearWaiting
<1>2. /\ e \in Entries /\ e # None /\ entry[e].talk = talk /\ talk \in Talks
      /\ TalksOK(contexts, entry, active, call, run)
      /\ contexts \in Seq(Entries) /\ Distinct(contexts)
    BY SomeTypes DEF ConvInv, Types, TalksOK, RunType
<1>3. /\ rest \in Seq(Entries) /\ Distinct(rest)
      /\ Elements(rest) = Elements(contexts) \ Of(contexts, talk)
    BY <1>2, WithoutLaw
<1>4. \A f \in Elements(contexts) : f \in Of(contexts, talk) <=> entry[f].talk = talk
    BY DEF Of
<1>5. more \in Seq(Entries) /\ Distinct(more) /\ Elements(more) = Elements(rest) \cup {e}
    <2>1. e \notin Elements(rest)
        BY <1>2, <1>3, <1>4
    <2> HIDE DEF rest, e
    <2> QED
        BY <1>2, <1>3, <2>1, AppendLaw
<1>6. /\ contexts' \in Seq(Entries) /\ Distinct(contexts')
      /\ Elements(contexts') \subseteq Elements(rest) \cup {e}
    <2> HIDE DEF more
    <2> QED
        BY <1>1, <1>5, EvictedLaw
<1>7. /\ en \in [Entries -> EntryType]
      /\ \A f \in Entries : en[f].talk = entry[f].talk
      /\ \A f \in Entries : f # e => en[f].waiting = entry[f].waiting
      /\ en[e].waiting = entry[e].waiting \cup {r}
    <2> DEFINE x == [entry[e] EXCEPT !.waiting = entry[e].waiting \cup {r}]
    <2>1. entry \in [Entries -> EntryType] /\ e \in Entries
        BY <1>2, SomeTypes
    <2> HIDE DEF e
    <2>2. /\ x \in EntryType /\ x.talk = entry[e].talk
          /\ x.waiting = entry[e].waiting \cup {r}
        BY <2>1 DEF EntryType
    <2>3. en = [entry EXCEPT ![e] = x]
        OBVIOUS
    <2> HIDE DEF x, en
    <2> QED
        BY <2>1, <2>2, <2>3
<1> HIDE DEF e, talk, rest, more, en
<1>8. /\ entry' \in [Entries -> EntryType]
      /\ \A f \in Entries : f \in Referred(contexts', active, pipe, call) => entry'[f].talk = entry[f].talk
      /\ \A f \in Entries : entry'[f].waiting \subseteq en[f].waiting
    <2>1. /\ entry' \in [Entries -> EntryType]
          /\ \A f \in Entries : f \in Referred(contexts', active, pipe, call) => entry'[f] = en[f]
          /\ \A f \in Entries : entry'[f].waiting \subseteq en[f].waiting
        BY <1>1, <1>7, KeptLaw
    <2> QED
        BY <2>1, <1>7
<1>9. TalksOK(contexts', entry', active, call, run)
    <2>1. TalksOK(contexts', entry, active, call, run)
        <3>1. ASSUME NEW f \in Elements(contexts')
              PROVE  f = e \/ (f \in Elements(contexts) /\ entry[f].talk # talk)
            BY <1>3, <1>4, <1>6
        <3>2. ASSUME NEW f \in Elements(contexts')
              PROVE  entry[f].talk \in Talks
            BY <1>2, <3>1 DEF TalksOK
        <3>3. ASSUME NEW f \in Elements(contexts'), NEW g \in Elements(contexts'), entry[f].talk = entry[g].talk
              PROVE  f = g
            BY <1>2, <3>1, <3>3 DEF TalksOK
        <3> QED
            BY <1>2, <3>2, <3>3 DEF TalksOK
    <2>2. ASSUME NEW f, \/ f \in Elements(contexts')
                        \/ \E q \in Requests : f = active[q] /\ active[q] # None
                        \/ \E k \in Calls : f = call[k].entry /\ call[k].entry # None
          PROVE  entry'[f].talk = entry[f].talk
        <3>1. f \in Referred(contexts', active, pipe, call)
            BY <2>2, ReferredLaw
        <3>2. Elements(contexts') \subseteq Entries
            BY <1>6, ElementsLaw
        <3>3. f \in Entries
            BY <2>2, <3>2, SomeTypes DEF CallType
        <3> QED
            BY <3>1, <3>3, <1>8
    <2>3. \A k \in Calls : call[k].entry # None => call[k].request \in Requests
        BY DEF ConvInv, Types, CallsOK, CallOK
    <2> QED
        BY <2>1, <2>2, <2>3, TalksFrame
<1>10. PinsOK(entry', active, astray)
    <2>1. PinsOK(entry, active, astray)
        BY DEF ConvInv
    <2>2. ASSUME NEW f \in Entries, NEW q \in entry'[f].waiting \ astray
          PROVE  active[q] = f
        <3>1. q \in en[f].waiting
            BY <1>8
        <3>2. CASE q \in entry[f].waiting
            BY <2>1, <3>2 DEF PinsOK
        <3>3. CASE q \notin entry[f].waiting
            BY <3>1, <3>3, <1>7 DEF e
        <3> QED
            BY <3>2, <3>3
    <2> QED
        BY <2>2 DEF PinsOK
<1>11. due' \in [Requests -> SUBSET {"waiting", "final"}] /\ EndsOK(run, active, astray, due')
    <2>1. /\ due' \in [Requests -> SUBSET {"waiting", "final"}]
          /\ \A q \in Requests : "final" \in due[q] => "final" \in due'[q]
        BY <1>1, SomeTypes
    <2> QED
        BY <2>1 DEF ConvInv, EndsOK
<1>12. Types'
    BY <1>1, <1>6, <1>8, <1>11 DEF ConvInv, Types
<1>13. DirectHandedOver'
    BY <1>1, SomeTypes DEF DirectHandedOver
<1> QED
    BY <1>1, <1>9, <1>10, <1>11, <1>12, <1>13 DEF ConvInv

LEMMA HearWaitingStep ==
    ASSUME ConvInv, NEW r \in Requests, HearWaiting(r)
    PROVE  ConvInv'
PROOF
<1>1. CASE active[r] = None
    <2>1. /\ due' = [due EXCEPT ![r] = @ \ {"waiting"}]
          /\ UNCHANGED <<contexts, entry, call, pending, cached, told, active, run, pipe, scenario, direct, astray>>
        BY <1>1 DEF HearWaiting
    <2>2. /\ due' \in [Requests -> SUBSET {"waiting", "final"}]
          /\ \A q \in Requests : "final" \in due[q] => "final" \in due'[q]
        BY <2>1, SomeTypes
    <2>3. EndsOK(run, active, astray, due')
        BY <2>2 DEF ConvInv, EndsOK
    <2>4. Types'
        BY <2>1, <2>2 DEF ConvInv, Types
    <2>5. DirectHandedOver'
        BY <2>1, SomeTypes DEF DirectHandedOver
    <2> QED
        BY <2>1, <2>3, <2>4, <2>5 DEF ConvInv
<1> QED
    BY <1>1, WaitingHeard

(* The end is heard: the Run's slot, its hold on the context and what was      *)
(* handed over for it go together.                                           *)
LEMMA FinalHeard ==
    ASSUME ConvInv, NEW r \in Requests, HearFinal(r), active[r] # None
    PROVE  ConvInv'
PROOF
<1> DEFINE e == active[r]
           en == Released(e, r)
<1>1. /\ due' = [due EXCEPT ![r] = @ \ {"final"}]
      /\ active' = [active EXCEPT ![r] = None]
      /\ entry' = Kept(en, Referred(contexts, active', pipe, call))
      /\ scenario' = scenario \ {r} /\ direct' = direct \ {r}
      /\ UNCHANGED <<call, pending, cached, told, contexts, run, pipe, astray>>
    BY DEF HearFinal
<1>2. e \in Entries
    BY SomeTypes
<1>3. /\ active' \in [Requests -> Entries \cup {None}] /\ active'[r] = None
      /\ \A q \in Requests \ {r} : active'[q] = active[q]
    BY <1>1, SomeTypes
<1>4. /\ en \in [Entries -> EntryType]
      /\ \A f \in Entries : en[f].talk = entry[f].talk /\ en[f].waiting \subseteq entry[f].waiting
      /\ r \notin en[e].waiting
    <2> DEFINE x == [entry[e] EXCEPT !.waiting = entry[e].waiting \ {r}]
    <2>1. entry \in [Entries -> EntryType] /\ e \in Entries
        BY <1>2, SomeTypes
    <2> HIDE DEF e
    <2>2. /\ x \in EntryType /\ x.talk = entry[e].talk
          /\ x.waiting = entry[e].waiting \ {r}
        BY <2>1 DEF EntryType
    <2>3. en = [entry EXCEPT ![e] = x]
        BY DEF Released
    <2> HIDE DEF x, en
    <2> QED
        BY <2>1, <2>2, <2>3
<1> HIDE DEF en
<1>5. /\ entry' \in [Entries -> EntryType]
      /\ \A f \in Entries : f \in Referred(contexts, active', pipe, call) => entry'[f].talk = entry[f].talk
      /\ \A f \in Entries : entry'[f].waiting \subseteq en[f].waiting
    <2>1. /\ entry' \in [Entries -> EntryType]
          /\ \A f \in Entries : f \in Referred(contexts, active', pipe, call) => entry'[f] = en[f]
          /\ \A f \in Entries : entry'[f].waiting \subseteq en[f].waiting
        BY <1>1, <1>4, KeptLaw
    <2> QED
        BY <2>1, <1>4
<1>6. TalksOK(contexts, entry', active', call, run)
    <2>1. ASSUME NEW f, \/ f \in Elements(contexts)
                        \/ \E q \in Requests : f = active'[q] /\ active'[q] # None
                        \/ \E k \in Calls : f = call[k].entry /\ call[k].entry # None
          PROVE  entry'[f].talk = entry[f].talk
        <3>1. f \in Referred(contexts, active', pipe, call)
            BY <2>1, ReferredLaw
        <3>2. f \in Entries
            BY <2>1, <1>3, SomeTypes DEF CallType
        <3> QED
            BY <3>1, <3>2, <1>5
    <2>2. \A k \in Calls : call[k].entry # None => call[k].request \in Requests
        BY DEF ConvInv, Types, CallsOK, CallOK
    <2>3. TalksOK(contexts, entry, active, call, run)
        BY DEF ConvInv
    <2>4. \A q \in Requests : active'[q] \in {None, active[q]}
        BY <1>3
    <2> QED
        BY <2>1, <2>2, <2>3, <2>4, TalksFrame
<1>7. PinsOK(entry', active', astray)
    <2>1. PinsOK(entry, active, astray)
        BY DEF ConvInv
    <2>2. ASSUME NEW f \in Entries, NEW q \in entry'[f].waiting \ astray
          PROVE  active'[q] = f
        <3>1. q \in en[f].waiting /\ q \in entry[f].waiting
            BY <1>4, <1>5
        <3>2. active[q] = f /\ q \in Requests
            BY <2>1, <3>1, SomeTypes DEF PinsOK, EntryType
        <3>3. q # r
            BY <3>1, <3>2, <1>4
        <3> QED
            BY <3>2, <3>3, <1>3
    <2> QED
        BY <2>2 DEF PinsOK
<1>8. /\ due' \in [Requests -> SUBSET {"waiting", "final"}]
      /\ \A q \in Requests \ {r} : due'[q] = due[q]
    BY <1>1, SomeTypes
<1>9. EndsOK(run, active', astray, due')
    BY <1>3, <1>8 DEF ConvInv, EndsOK
<1>10. SlotsOK(pending, active')
    <2>1. Holding(active') \in SUBSET Holding(active)
        BY <1>3 DEF Holding
    <2>2. Cardinality(Holding(active')) <= Cardinality(Holding(active))
        BY <2>1, HoldingFinite, FS_Subset
    <2>3. Cardinality(Holding(active')) \in Nat /\ Cardinality(Holding(active)) \in Nat
        BY HoldingFinite
    <2>4. Cardinality(pending) \in Nat
        BY PendingFinite, SomeTypes
    <2>5. MaxActive \in Nat
        BY ConversationAssumption
    <2> QED
        BY <2>2, <2>3, <2>4, <2>5 DEF ConvInv, SlotsOK
<1>11. Types'
    BY <1>1, <1>3, <1>5, <1>8 DEF ConvInv, Types
<1>12. DirectHandedOver'
    BY <1>1, <1>3, SomeTypes DEF DirectHandedOver
<1> QED
    BY <1>1, <1>6, <1>7, <1>9, <1>10, <1>11, <1>12 DEF ConvInv

LEMMA HearFinalStep ==
    ASSUME ConvInv, NEW r \in Requests, HearFinal(r)
    PROVE  ConvInv'
PROOF
<1>1. CASE active[r] = None
    <2>1. /\ due' = [due EXCEPT ![r] = @ \ {"final"}]
          /\ UNCHANGED <<contexts, entry, call, pending, cached, told, active, run, pipe, scenario, direct, astray>>
        BY <1>1 DEF HearFinal
    <2>2. /\ due' \in [Requests -> SUBSET {"waiting", "final"}]
          /\ \A q \in Requests \ {r} : due'[q] = due[q]
        BY <2>1, SomeTypes
    <2>3. EndsOK(run, active, astray, due')
        BY <1>1, <2>2 DEF ConvInv, EndsOK
    <2>4. Types'
        BY <2>1, <2>2 DEF ConvInv, Types
    <2>5. DirectHandedOver'
        BY <2>1, SomeTypes DEF DirectHandedOver
    <2> QED
        BY <2>1, <2>3, <2>4, <2>5 DEF ConvInv
<1> QED
    BY <1>1, FinalHeard

LEMMA CreateStep ==
    ASSUME ConvInv, NEW k \in Calls, Create(k)
    PROVE  ConvInv'
PROOF
<1> DEFINE r == call[k].request
<1>1. /\ call[k].pc = "creating" /\ call[k].seen = None
      /\ UNCHANGED <<pending, cached, told, contexts, entry, active, pipe, due, scenario, direct, astray>>
    BY DEF Create
<1>2. r \in pending /\ r \in Requests
    BY <1>1, SomeTypes DEF ConvInv, CallsOK, CallOK
<1>3. \A j \in Calls : j # k /\ call[j].pc = "creating" => call[j].request # r
    BY <1>1 DEF ConvInv, CallsOK
<1>4. /\ run' \in [Requests -> RunType] /\ \A q \in Requests \ {r} : run'[q] = run[q]
      /\ run'[r].talk = run[r].talk
      /\ run'[r].status # "absent"
      /\ run'[r].status = "over" => run[r].status = "over"
    BY <1>1, <1>2, SomeTypes DEF Create, RunType
<1>5. /\ call' \in [Calls -> CallType] /\ \A j \in Calls \ {k} : call'[j] = call[j]
      /\ call'[k].pc = "creating" /\ call'[k].request = r /\ call'[k].entry = call[k].entry
    <2>1. PICK s \in {"new", "over", "live"} : call' = [call EXCEPT ![k].seen = s]
        BY DEF Create
    <2>2. call \in [Calls -> CallType]
        BY SomeTypes
    <2> QED
        BY <1>1, <2>1, <2>2 DEF CallType
<1>6. call'[k].seen = "new" => r \notin told /\ pipe[r].pc = "none" /\ run'[r].status = "queued"
    <2>1. CASE run[r].status = "absent"
        <3>1. run' = [run EXCEPT ![r].status = "queued"]
            BY <2>1 DEF Create
        <3>2. run'[r].status = "queued"
            BY <3>1, <1>2, SomeTypes DEF RunType
        <3> QED
            BY <2>1, <3>2, <1>2 DEF ConvInv, KnownOK
    <2>2. CASE run[r].status # "absent"
        BY <2>2, SomeTypes DEF Create, CallType
    <2> QED
        BY <2>1, <2>2
<1> HIDE DEF r
<1>7. CallsOK(call', pending, told, run', pipe)
    <2>1. ASSUME NEW j \in Calls
          PROVE  CallOK(call'[j], pending, told, run', pipe)
        <3>1. CallOK(call[j], pending, told, run, pipe)
            BY DEF ConvInv, CallsOK
        <3>2. CASE j = k
            BY <3>1, <3>2, <1>1, <1>2, <1>4, <1>5, <1>6 DEF CallOK
        <3>3. CASE j # k /\ call[j].pc = "creating"
            <4>1. call'[j] = call[j] /\ call[j].request # r
                BY <3>3, <1>3, <1>5
            <4>2. call[j].request \in Requests
                BY <3>1, <3>3, SomeTypes DEF CallOK
            <4>3. run'[call[j].request] = run[call[j].request]
                BY <4>1, <4>2, <1>4
            <4> QED
                BY <3>1, <4>1, <4>3 DEF CallOK
        <3>4. CASE j # k /\ call[j].pc # "creating"
            <4>1. call'[j] = call[j]
                BY <3>4, <1>5
            <4> QED
                BY <3>1, <3>4, <4>1 DEF CallOK
        <3> QED
            BY <3>2, <3>3, <3>4
    <2>2. ASSUME NEW i \in Calls, NEW j \in Calls, call'[i].pc = "creating", call'[j].pc = "creating",
                 call'[i].request = call'[j].request
          PROVE  i = j
        <3>1. /\ call[i].pc = "creating" /\ call[i].request = call'[i].request
              /\ call[j].pc = "creating" /\ call[j].request = call'[j].request
            BY <2>2, <1>1, <1>5 DEF r
        <3> QED
            BY <2>2, <3>1 DEF ConvInv, CallsOK
    <2> QED
        BY <2>1, <2>2 DEF CallsOK
<1>8. TalksOK(contexts, entry, active, call', run')
    <2>1. \A j \in Calls : call'[j].entry # None => call'[j].entry = call[j].entry /\ call'[j].request = call[j].request
                                                   /\ call[j].request \in Requests
        <3> SUFFICES ASSUME NEW j \in Calls, call'[j].entry # None
                     PROVE  /\ call'[j].entry = call[j].entry /\ call'[j].request = call[j].request
                            /\ call[j].request \in Requests
            OBVIOUS
        <3>1. call'[j].entry = call[j].entry /\ call'[j].request = call[j].request
            BY <1>5 DEF r
        <3>2. CallOK(call[j], pending, told, run, pipe) /\ pending \subseteq Requests
            BY SomeTypes DEF ConvInv, CallsOK
        <3>3. call[j].request \in Requests
            BY <3>1, <3>2 DEF CallOK
        <3> QED
            BY <3>1, <3>3
    <2>2. TalksOK(contexts, entry, active, call, run)
        BY DEF ConvInv
    <2>3. \A q \in Requests : run'[q].talk = run[q].talk
        BY <1>4
    <2> QED
        BY <2>1, <2>2, <2>3, TalksFrame
<1>9. KnownOK(told, run', pipe)
    BY <1>4 DEF ConvInv, KnownOK
<1>10. EndsOK(run', active, astray, due)
    BY <1>4 DEF ConvInv, EndsOK
<1>11. Types'
    BY <1>1, <1>4, <1>5 DEF ConvInv, Types
<1>12. DirectHandedOver'
    BY <1>1, SomeTypes DEF DirectHandedOver
<1> QED
    BY <1>1, <1>7, <1>8, <1>9, <1>10, <1>11, <1>12 DEF ConvInv

(* The owner of a future returns, and with it everybody who waits for it.     *)
LEMMA AnsweredLaw ==
    ASSUME ConvInv, NEW k \in Calls, call[k].pc = "creating"
    PROVE  LET r == call[k].request
               cl == Answered(k, r)
           IN  /\ cl \in [Calls -> CallType]
               /\ \A j \in Calls : cl[j].pc = "creating" => cl[j] = call[j] /\ j # k
               /\ \A j \in Calls : cl[j].pc # "creating" => cl[j].entry = None
               /\ \A j \in Calls : cl[j].entry # None => cl[j] = call[j] /\ call[j].request \in Requests
PROOF
<1> DEFINE r == call[k].request
           cl == Answered(k, r)
<1>1. Done \in CallType /\ Done.pc = "done" /\ Done.entry = None
    BY DEF Done, CallType
<1>2. ASSUME NEW j \in Calls
      PROVE  /\ cl[j] \in {Done, call[j]} /\ (j = k => cl[j] = Done)
             /\ cl[j] \in CallType
    <2>1. cl[j] = IF j = k \/ (call[j].pc = "waiting" /\ call[j].request = r) THEN Done ELSE call[j]
        BY DEF Answered
    <2> QED
        BY <2>1, <1>1, SomeTypes
<1>3. cl \in [Calls -> CallType]
    BY <1>1, SomeTypes DEF Answered
<1>4. \A j \in Calls : /\ call[j].pc # "creating" => call[j].entry = None
                       /\ call[j].entry # None => call[j].request \in Requests
    BY SomeTypes DEF ConvInv, CallsOK, CallOK
<1> HIDE DEF cl, Done
<1> QED
    BY <1>1, <1>2, <1>3, <1>4 DEF cl

LEMMA CreateFailsStep ==
    ASSUME ConvInv, NEW k \in Calls, CreateFails(k)
    PROVE  ConvInv'
PROOF
<1> DEFINE r == call[k].request
<1>1. /\ call[k].pc = "creating"
      /\ pending' = pending \ {r} /\ call' = Answered(k, r)
      /\ entry' = Kept(entry, Referred(contexts, active, pipe, call'))
      /\ UNCHANGED <<cached, told, contexts, active, run, pipe, due, scenario, direct, astray>>
    BY DEF CreateFails, Failed
<1>2. /\ call' \in [Calls -> CallType]
      /\ \A j \in Calls : call'[j].pc = "creating" => call'[j] = call[j] /\ j # k
      /\ \A j \in Calls : call'[j].pc # "creating" => call'[j].entry = None
      /\ \A j \in Calls : call'[j].entry # None => call'[j] = call[j] /\ call[j].request \in Requests
    BY <1>1, AnsweredLaw
<1>3. /\ entry' \in [Entries -> EntryType]
      /\ \A e \in Entries : e \in Referred(contexts, active, pipe, call') => entry'[e].talk = entry[e].talk
      /\ \A e \in Entries : entry'[e].waiting \subseteq entry[e].waiting
    BY <1>1, SomeTypes, EntriesKept
<1>4. TalksOK(contexts, entry', active, call', run)
    <2>1. ASSUME NEW f, \/ f \in Elements(contexts)
                        \/ \E q \in Requests : f = active[q] /\ active[q] # None
                        \/ \E j \in Calls : f = call'[j].entry /\ call'[j].entry # None
          PROVE  entry'[f].talk = entry[f].talk
        <3>1. f \in Referred(contexts, active, pipe, call')
            BY <2>1, ReferredLaw
        <3>2. f \in Entries
            BY <2>1, <1>2, SomeTypes DEF CallType
        <3> QED
            BY <3>1, <3>2, <1>3
    <2>2. TalksOK(contexts, entry, active, call, run)
        BY DEF ConvInv
    <2> QED
        BY <2>1, <2>2, <1>2, TalksFrame
<1>5. CallsOK(call', pending', told, run, pipe)
    <2>1. ASSUME NEW j \in Calls
          PROVE  CallOK(call'[j], pending', told, run, pipe)
        <3>1. CASE call'[j].pc = "creating"
            <4>1. call'[j] = call[j] /\ j # k /\ CallOK(call[j], pending, told, run, pipe)
                BY <3>1, <1>2 DEF ConvInv, CallsOK
            <4>2. call[j].request # r
                BY <3>1, <4>1, <1>1 DEF ConvInv, CallsOK
            <4> QED
                BY <4>1, <4>2, <1>1 DEF CallOK
        <3>2. CASE call'[j].pc # "creating"
            BY <3>2, <1>2 DEF CallOK
        <3> QED
            BY <3>1, <3>2
    <2> QED
        BY <2>1, <1>2 DEF ConvInv, CallsOK
<1>6. PinsOK(entry', active, astray)
    BY <1>3, PinsFrame DEF ConvInv
<1>7. SlotsOK(pending', active)
    <2>1. pending' \in SUBSET pending /\ pending \in SUBSET Requests
        BY <1>1, SomeTypes
    <2>2. Cardinality(pending') <= Cardinality(pending)
        BY <2>1, PendingFinite, FS_Subset
    <2>3. Cardinality(pending') \in Nat /\ Cardinality(pending) \in Nat /\ Cardinality(Holding(active)) \in Nat
        BY <2>1, PendingFinite, HoldingFinite
    <2>4. MaxActive \in Nat
        BY ConversationAssumption
    <2> QED
        BY <2>2, <2>3, <2>4 DEF ConvInv, SlotsOK
<1>8. Types'
    BY <1>1, <1>2, <1>3 DEF ConvInv, Types
<1>9. DirectHandedOver'
    BY <1>1, SomeTypes DEF DirectHandedOver
<1> QED
    BY <1>1, <1>4, <1>5, <1>6, <1>7, <1>8, <1>9 DEF ConvInv

(* A pending request turns into a slot: no more is occupied than before.      *)
LEMMA SlotTaken ==
    ASSUME ConvInv, NEW r \in pending, NEW e, NEW act, act = [active EXCEPT ![r] = e]
    PROVE  SlotsOK(pending \ {r}, act)
PROOF
<1>1. pending \in SUBSET Requests /\ pending \ {r} \in SUBSET Requests
    BY SomeTypes
<1>2. IsFiniteSet(pending) /\ Cardinality(pending) \in Nat /\ Cardinality(pending \ {r}) \in Nat
    BY <1>1, PendingFinite
<1>3. Cardinality(pending \ {r}) = Cardinality(pending) - 1
    BY <1>2, FS_RemoveElement
<1>4. IsFiniteSet(Holding(active)) /\ Cardinality(Holding(active)) \in Nat /\ Cardinality(Holding(act)) \in Nat
    BY HoldingFinite
<1>5. /\ IsFiniteSet(Holding(active) \cup {r})
      /\ Cardinality(Holding(active) \cup {r}) <= Cardinality(Holding(active)) + 1
    BY <1>4, FS_AddElement
<1>6. Holding(act) \in SUBSET (Holding(active) \cup {r})
    BY SomeTypes DEF Holding
<1>7. Cardinality(Holding(act)) <= Cardinality(Holding(active) \cup {r})
    BY <1>5, <1>6, FS_Subset
<1>8. Cardinality(Holding(active) \cup {r}) \in Nat /\ MaxActive \in Nat
    BY <1>5, FS_CardinalityType, ConversationAssumption
<1> QED
    BY <1>2, <1>3, <1>4, <1>5, <1>7, <1>8 DEF ConvInv, SlotsOK

LEMMA RegisterStep ==
    ASSUME ConvInv, NEW k \in Calls, Register(k)
    PROVE  ConvInv'
PROOF
<1> DEFINE r == call[k].request
           e == call[k].entry
<1>1. /\ call[k].pc = "creating" /\ call[k].seen # None
      /\ told' = told \cup {r} /\ active' = [active EXCEPT ![r] = e]
      /\ pending' = pending \ {r} /\ call' = Answered(k, r) /\ due' = Announced(k, r)
      /\ pipe' = IF call[k].seen = "new" THEN [pipe EXCEPT ![r] = [pc |-> "queued", entry |-> e]] ELSE pipe
      /\ entry' = Kept(entry, Referred(contexts, active', pipe', call'))
      /\ astray' = IF (call[k].seen = "live" /\ Over(r)) \/ active[r] \notin {None, e}
                   THEN astray \cup {r} ELSE astray
      /\ UNCHANGED <<contexts, run, scenario, direct>>
    BY DEF Register
<1>2. /\ r \in pending /\ r \in Requests /\ e \in Entries /\ e # None
      /\ run[r].status # "absent"
      /\ call[k].seen = "new" => run[r].status = "queued"
      /\ call[k].seen \in {"new", "live", "over"}
      /\ entry[e].talk = run[r].talk
    <2>1. CallOK(call[k], pending, told, run, pipe) /\ TalksOK(contexts, entry, active, call, run)
        BY DEF ConvInv, CallsOK
    <2> QED
        BY <2>1, <1>1, SomeTypes DEF CallOK, TalksOK, CallType
<1>3. cached' \in Seq(Requests) /\ Len(cached') <= MaxRequests
    <2> DEFINE known == Touched(cached, r)
    <2>1. cached' = SubSeq(known, IF Len(known) > MaxRequests THEN Len(known) - MaxRequests + 1 ELSE 1, Len(known))
        BY DEF Register
    <2>2. cached \in Seq(Requests) /\ MaxRequests \in Nat \ {0}
        BY ConversationAssumption DEF ConvInv, Types
    <2>3. known \in Seq(Requests)
        BY <1>2, <2>2, TouchedLaw
    <2> HIDE DEF known
    <2> QED
        BY <2>1, <2>2, <2>3, NewestLaw
<1>4. /\ call' \in [Calls -> CallType]
      /\ \A j \in Calls : call'[j].pc = "creating" => call'[j] = call[j] /\ j # k
      /\ \A j \in Calls : call'[j].pc # "creating" => call'[j].entry = None
      /\ \A j \in Calls : call'[j].entry # None => call'[j] = call[j] /\ call[j].request \in Requests
    BY <1>1, AnsweredLaw
<1>5. /\ active' \in [Requests -> Entries \cup {None}] /\ active'[r] = e
      /\ \A q \in Requests \ {r} : active'[q] = active[q]
    BY <1>1, <1>2, SomeTypes
<1>6. pipe' \in [Requests -> PipeType] /\ \A q \in Requests \ {r} : pipe'[q] = pipe[q]
    <2> DEFINE x == [pc |-> "queued", entry |-> e]
    <2>1. x \in PipeType /\ pipe' \in {[pipe EXCEPT ![r] = x], pipe}
        BY <1>1, <1>2 DEF PipeType
    <2> HIDE DEF x
    <2> QED
        BY <2>1, <1>2, SomeTypes
<1>7. /\ due' \in [Requests -> SUBSET {"waiting", "final"}]
      /\ \A q \in Requests : "final" \in due[q] => "final" \in due'[q]
      /\ call[k].seen = "over" => "final" \in due'[r]
    BY <1>1, <1>2, SomeTypes DEF Announced
<1>8. /\ entry' \in [Entries -> EntryType]
      /\ \A f \in Entries : f \in Referred(contexts, active', pipe', call') => entry'[f].talk = entry[f].talk
      /\ \A f \in Entries : entry'[f].waiting \subseteq entry[f].waiting
    BY <1>1, SomeTypes, EntriesKept
<1>9. /\ astray \subseteq astray' /\ astray' \subseteq Requests
      /\ r \notin astray' => ~(call[k].seen = "live" /\ Over(r)) /\ active[r] \in {None, e}
    BY <1>1, <1>2, SomeTypes
<1> HIDE DEF r, e
<1>10. TalksOK(contexts, entry', active', call', run)
    <2>1. ASSUME NEW f, \/ f \in Elements(contexts)
                        \/ \E q \in Requests : f = active'[q] /\ active'[q] # None
                        \/ \E j \in Calls : f = call'[j].entry /\ call'[j].entry # None
          PROVE  entry'[f].talk = entry[f].talk
        <3>1. f \in Referred(contexts, active', pipe', call')
            BY <2>1, ReferredLaw
        <3>2. f \in Entries
            BY <2>1, <1>4, <1>5, SomeTypes DEF CallType
        <3> QED
            BY <3>1, <3>2, <1>8
    <2>2. TalksOK(contexts, entry, active', call, run)
        BY <1>2, <1>5 DEF ConvInv, TalksOK
    <2> QED
        BY <2>1, <2>2, <1>4, TalksFrame
<1>11. CallsOK(call', pending', told', run, pipe')
    <2>1. ASSUME NEW j \in Calls
          PROVE  CallOK(call'[j], pending', told', run, pipe')
        <3>1. CASE call'[j].pc = "creating"
            <4>1. call'[j] = call[j] /\ j # k /\ CallOK(call[j], pending, told, run, pipe)
                BY <3>1, <1>4 DEF ConvInv, CallsOK
            <4>2. call[j].request # r /\ call[j].request \in Requests
                BY <3>1, <4>1, <1>1, SomeTypes DEF r, ConvInv, CallsOK, CallOK
            <4>3. pipe'[call[j].request] = pipe[call[j].request]
                BY <4>2, <1>6
            <4> QED
                BY <4>1, <4>2, <4>3, <1>1 DEF CallOK
        <3>2. CASE call'[j].pc # "creating"
            BY <3>2, <1>4 DEF CallOK
        <3> QED
            BY <3>1, <3>2
    <2> QED
        BY <2>1, <1>4 DEF ConvInv, CallsOK
<1>12. KnownOK(told', run, pipe')
    BY <1>1, <1>2, <1>6 DEF ConvInv, KnownOK
<1>13. PinsOK(entry', active', astray')
    <2>1. ASSUME NEW f \in Entries, NEW q \in entry'[f].waiting \ astray'
          PROVE  active'[q] = f
        <3>1. q \in entry[f].waiting \ astray /\ q \in Requests
            BY <1>8, <1>9, SomeTypes DEF EntryType
        <3>2. active[q] = f
            BY <3>1 DEF ConvInv, PinsOK
        <3>3. CASE q = r
            <4>1. f # None
                BY NoneOther DEF NotNone
            <4> QED
                BY <3>2, <3>3, <4>1, <1>5, <1>9
        <3>4. CASE q # r
            BY <3>1, <3>2, <3>4, <1>5
        <3> QED
            BY <3>3, <3>4
    <2> QED
        BY <2>1 DEF PinsOK
<1>14. EndsOK(run, active', astray', due')
    <2>1. ASSUME NEW q \in Requests, run[q].status = "over", active'[q] # None, q \notin astray'
          PROVE  "final" \in due'[q]
        <3>1. CASE q = r
            <4>1. call[k].seen = "over"
                BY <2>1, <3>1, <1>2, <1>9 DEF Over
            <4> QED
                BY <3>1, <4>1, <1>7
        <3>2. CASE q # r
            BY <2>1, <3>2, <1>5, <1>7, <1>9 DEF ConvInv, EndsOK
        <3> QED
            BY <3>1, <3>2
    <2> QED
        BY <2>1 DEF EndsOK
<1>15. SlotsOK(pending', active')
    BY <1>1, <1>2, SlotTaken
<1>16. Types'
    <2>1. pending' \subseteq Requests /\ told' \subseteq Requests
        BY <1>1, <1>2, SomeTypes
    <2> QED
        BY <2>1, <1>1, <1>3, <1>4, <1>5, <1>6, <1>7, <1>8, <1>9 DEF ConvInv, Types
<1>17. DirectHandedOver'
    BY <1>1, <1>2, <1>5, SomeTypes DEF DirectHandedOver
<1> QED
    BY <1>1, <1>10, <1>11, <1>12, <1>13, <1>14, <1>15, <1>16, <1>17 DEF ConvInv

(* The context a message is put into: the conversation's own, or an entry     *)
(* nobody refers to if it has none.                                          *)
LEMMA OpenedLaw ==
    ASSUME ConvInv, Spare # {}, NEW s \in Seq(Entries), Distinct(s),
           Elements(s) \subseteq Elements(contexts), NEW talk
    PROVE  LET p == Opened(s, talk)
           IN  /\ p.entry \in Entries
               /\ p.contexts \in Seq(Entries) /\ Distinct(p.contexts)
               /\ Elements(p.contexts) \subseteq Elements(s) \cup {p.entry}
               /\ \/ p.entry \in Of(s, talk)
                  \/ p.entry \in Spare /\ Of(s, talk) = {}
PROOF
<1>1. CASE Of(s, talk) # {}
    <2> DEFINE e == CHOOSE x \in Of(s, talk) : TRUE
    <2>1. e \in Of(s, talk) /\ e \in Elements(s) /\ e \in Entries
        BY <1>1, ElementsLaw DEF Of
    <2>2. Opened(s, talk) = [entry |-> e, contexts |-> Evicted(Touched(s, e), {})]
        BY <1>1 DEF Opened
    <2> HIDE DEF e
    <2> DEFINE t == Touched(s, e)
               c == Evicted(t, {})
    <2>3. t \in Seq(Entries) /\ Elements(t) = Elements(s) \cup {e} /\ Distinct(t)
        BY <2>1, TouchedLaw
    <2> HIDE DEF t
    <2>4. c \in Seq(Entries) /\ Elements(c) \subseteq Elements(t) /\ Distinct(c)
        BY <2>3, EvictedLaw
    <2>5. Opened(s, talk).entry = e /\ Opened(s, talk).contexts = c
        BY <2>2 DEF t
    <2> HIDE DEF c
    <2> QED
        BY <2>1, <2>3, <2>4, <2>5
<1>2. CASE Of(s, talk) = {}
    <2> DEFINE room == IF Len(s) >= MaxContexts THEN Without(s, First(Unpinned(s), 1)) ELSE s
               t == Append(room, Fresh)
               c == Evicted(t, {})
    <2>1. Fresh \in Spare
        BY DEF Fresh
    <2>2. Fresh \in Entries /\ Fresh \notin Elements(contexts)
        BY <2>1, ReferredLaw DEF Spare
    <2>3. Opened(s, talk).entry = Fresh /\ Opened(s, talk).contexts = c
        BY <1>2 DEF Opened
    <2>4. room \in Seq(Entries) /\ Elements(room) \subseteq Elements(s) /\ Distinct(room)
        <3>1. \A g : LET w == Without(s, g)
                     IN  w \in Seq(Entries) /\ Elements(w) = Elements(s) \ g /\ Distinct(w)
            BY WithoutLaw
        <3> QED
            BY <3>1
    <2> HIDE DEF room, Fresh
    <2>5. t \in Seq(Entries) /\ Elements(t) = Elements(room) \cup {Fresh} /\ Distinct(t)
        <3>1. Fresh \notin Elements(room)
            BY <2>2, <2>4
        <3> QED
            BY <2>2, <2>4, <3>1, AppendLaw
    <2> HIDE DEF t
    <2>6. c \in Seq(Entries) /\ Elements(c) \subseteq Elements(t) /\ Distinct(c)
        BY <2>5, EvictedLaw
    <2> HIDE DEF c
    <2> QED
        BY <1>2, <2>1, <2>2, <2>3, <2>4, <2>5, <2>6
<1> QED
    BY <1>1, <1>2

(* One more future, if there was room for it.                                *)
LEMMA FutureAdded ==
    ASSUME ConvInv, NEW r \in Requests, SlotFree(r)
    PROVE  SlotsOK(pending \cup {r}, active)
PROOF
<1>1. pending \in SUBSET Requests /\ pending \cup {r} \in SUBSET Requests
    BY SomeTypes
<1>2. /\ IsFiniteSet(pending) /\ Cardinality(pending) \in Nat
      /\ Cardinality(pending \cup {r}) \in Nat /\ Cardinality(Holding(active)) \in Nat
    BY <1>1, PendingFinite, HoldingFinite
<1>3. Cardinality(pending \cup {r}) <= Cardinality(pending) + 1
    BY <1>2, FS_AddElement
<1>4. Cardinality(pending) + Cardinality(Holding(active)) < MaxActive /\ MaxActive \in Nat
    BY ConversationAssumption DEF SlotFree, Holding
<1> QED
    BY <1>2, <1>3, <1>4 DEF SlotsOK

(* What a call of submit does, up to the Harness: contexts and one entry       *)
(* change, and the call itself to x.                                         *)
LEMMA SubmitFrame ==
    ASSUME ConvInv, NEW k \in Calls, NEW r \in Requests, call[k].pc = "idle",
           NEW x \in CallType, call' = [call EXCEPT ![k] = x],
           NEW at \in Entries, NEW open \in Seq(Entries), Elements(open) \subseteq Elements(contexts),
           \/ at \in Of(open, run[r].talk)
           \/ at \in Spare /\ Of(open, run[r].talk) = {},
           contexts' \in Seq(Entries), Distinct(contexts'),
           Elements(contexts') \subseteq Elements(open) \cup {at},
           x.entry # None => x.entry = at /\ x.request = r /\ x.pc = "creating",
           x.pc = "creating" => x.entry # None /\ x.seen = None /\ r \in pending' /\ r \notin pending,
           pending' = pending \/ (pending' = pending \cup {r} /\ SlotFree(r)),
           cached' \in Seq(Requests), Len(cached') <= MaxRequests,
           astray' \in {astray, astray \cup {r}},
           entry' = Kept([entry EXCEPT ![at].talk =
                             IF at \in Elements(contexts') \/ call'[k].entry # None THEN run[r].talk ELSE @],
                         Referred(contexts', active, pipe, call')),
           UNCHANGED <<told, active, run, pipe, due, scenario, direct>>
    PROVE  ConvInv'
PROOF
<1> DEFINE talk == run[r].talk
           used == at \in Elements(contexts') \/ call'[k].entry # None
           en == [entry EXCEPT ![at].talk = IF used THEN talk ELSE @]
<1>1. /\ TalksOK(contexts, entry, active, call, run) /\ talk \in Talks
      /\ contexts \in Seq(Entries) /\ Elements(contexts) \subseteq Entries
    BY SomeTypes DEF ConvInv, RunType
<1>2. /\ call' \in [Calls -> CallType] /\ call'[k] = x
      /\ \A j \in Calls \ {k} : call'[j] = call[j]
    BY SomeTypes
<1>3. /\ en \in [Entries -> EntryType]
      /\ \A f \in Entries : en[f].waiting = entry[f].waiting
      /\ \A f \in Entries \ {at} : en[f].talk = entry[f].talk
      /\ en[at].talk = IF used THEN talk ELSE entry[at].talk
    <2> DEFINE to == IF used THEN talk ELSE entry[at].talk
    <2>1. entry \in [Entries -> EntryType]
        BY SomeTypes
    <2>2. en = [entry EXCEPT ![at].talk = to]
        <3> HIDE DEF used, talk
        <3> QED
            OBVIOUS
    <2>3. to \in Talks \cup {None}
        <3> HIDE DEF used, talk
        <3> QED
            BY <1>1, <2>1 DEF EntryType
    <2>4. at \in Entries
        OBVIOUS
    <2> HIDE DEF en, to
    <2>5. /\ en \in [Entries -> EntryType]
          /\ \A f \in Entries : en[f].waiting = entry[f].waiting
          /\ \A f \in Entries \ {at} : en[f].talk = entry[f].talk
          /\ en[at].talk = to
        BY ONLY <2>1, <2>2, <2>3, <2>4 DEF EntryType
    <2> QED
        BY ONLY <2>5 DEF to
<1> DEFINE alive == Referred(contexts', active, pipe, call')
<1>4. entry' = Kept(en, alive)
    OBVIOUS
<1>5. \A f \in Elements(open) : f \in Of(open, talk) <=> entry[f].talk = talk
    BY DEF Of
<1>6. Of(open, talk) \subseteq Elements(open)
    BY DEF Of
<1> HIDE DEF en, talk
<1>7. /\ entry' \in [Entries -> EntryType]
      /\ \A f \in Entries : f \in Referred(contexts', active, pipe, call') => entry'[f].talk = en[f].talk
      /\ \A f \in Entries : entry'[f].waiting \subseteq entry[f].waiting
    <2>1. /\ entry' \in [Entries -> EntryType]
          /\ \A f \in Entries : f \in Referred(contexts', active, pipe, call') => entry'[f] = en[f]
          /\ \A f \in Entries : entry'[f].waiting \subseteq en[f].waiting
        <3> HIDE DEF alive
        <3>1. /\ Kept(en, alive) \in [Entries -> EntryType]
              /\ \A f \in Entries : f \in alive => Kept(en, alive)[f] = en[f]
              /\ \A f \in Entries : Kept(en, alive)[f].waiting \subseteq en[f].waiting
            BY ONLY <1>3, KeptLaw
        <3> QED
            BY ONLY <1>4, <3>1 DEF alive
    <2> QED
        BY <2>1, <1>3
<1>8. \* An entry that is referred to has the talk it had.
      ASSUME NEW f \in Entries, f \notin Spare
      PROVE  en[f].talk = entry[f].talk
    <2>1. CASE f = at
        <3>1. at \in Of(open, talk)
            BY <1>8, <2>1 DEF talk
        <3>2. entry[at].talk = talk
            BY <3>1, <1>5, <1>6
        <3> QED
            BY <2>1, <3>2, <1>3
    <2>2. CASE f # at
        BY <2>2, <1>3
    <2> QED
        BY <2>1, <2>2
<1>9. TalksOK(contexts', entry', active, call', run)
    <2>1. TalksOK(contexts', en, active, call', run)
        <3>1. ASSUME NEW f \in Elements(contexts')
              PROVE  \/ f = at /\ en[f].talk = talk
                     \/ f # at /\ f \in Elements(open) /\ en[f].talk = entry[f].talk
            <4>1. CASE f = at
                BY <4>1, <1>3
            <4>2. CASE f # at
                BY <4>2, <1>1, <1>3
            <4> QED
                BY <4>1, <4>2
        <3>2. ASSUME NEW f \in Elements(contexts')
              PROVE  en[f].talk \in Talks
            <4>1. f \in Elements(open) => entry[f].talk \in Talks
                BY <1>1 DEF TalksOK
            <4> QED
                BY <3>1, <4>1, <1>1
        <3>3. ASSUME NEW f \in Elements(open), entry[f].talk = talk
              PROVE  f = at
            <4>1. f \in Of(open, talk)
                BY <3>3, <1>5
            <4>2. at \in Of(open, talk)
                BY <4>1 DEF talk
            <4>3. at \in Elements(open) /\ entry[at].talk = talk
                BY <4>2, <1>5, <1>6
            <4> QED
                BY <3>3, <4>3, <1>1 DEF TalksOK
        <3>4. ASSUME NEW f \in Elements(contexts'), NEW g \in Elements(contexts'), en[f].talk = en[g].talk
              PROVE  f = g
            <4>1. CASE f # at /\ g # at
                <5>1. /\ f \in Elements(contexts) /\ g \in Elements(contexts)
                      /\ entry[f].talk = entry[g].talk
                    BY <3>1, <3>4, <4>1
                <5> QED
                    BY <5>1, <1>1 DEF TalksOK
            <4>2. CASE f = at \/ g = at
                BY <3>1, <3>3, <3>4, <4>2
            <4> QED
                BY <4>1, <4>2
        <3>5. ASSUME NEW q \in Requests, active[q] # None
              PROVE  en[active[q]].talk = run[q].talk
            <4>1. active[q] \in Entries /\ active[q] \notin Spare
                BY <3>5, SomeTypes, ReferredLaw DEF Spare
            <4> QED
                BY <3>5, <4>1, <1>1, <1>8 DEF TalksOK
        <3>6. ASSUME NEW j \in Calls, call'[j].entry # None
              PROVE  en[call'[j].entry].talk = run[call'[j].request].talk
            <4>1. CASE j = k
                <5>1. call'[j].entry = at /\ call'[j].request = r /\ used
                    BY <3>6, <4>1, <1>2
                <5> QED
                    BY <5>1, <1>3 DEF talk
            <4>2. CASE j # k
                <5>1. call'[j] = call[j]
                    BY <4>2, <1>2
                <5>2. call[j].entry \in Entries /\ call[j].entry \notin Spare
                    BY <3>6, <5>1, SomeTypes, ReferredLaw DEF Spare, CallType
                <5> QED
                    BY <3>6, <5>1, <5>2, <1>1, <1>8 DEF TalksOK
            <4> QED
                BY <4>1, <4>2
        <3> QED
            BY <3>2, <3>4, <3>5, <3>6 DEF TalksOK
    <2>2. ASSUME NEW f, \/ f \in Elements(contexts')
                        \/ \E q \in Requests : f = active[q] /\ active[q] # None
                        \/ \E j \in Calls : f = call'[j].entry /\ call'[j].entry # None
          PROVE  entry'[f].talk = en[f].talk
        <3>1. f \in Referred(contexts', active, pipe, call')
            BY <2>2, ReferredLaw
        <3>2. Elements(contexts') \subseteq Entries
            BY ElementsLaw
        <3>3. f \in Entries
            BY <2>2, <3>2, <1>2, SomeTypes DEF CallType
        <3> QED
            BY <3>1, <3>3, <1>7
    <2>3. \A j \in Calls : call'[j].entry # None => call'[j].request \in Requests
        BY <1>2, SomeTypes DEF ConvInv, CallsOK, CallOK
    <2>4. /\ \A q \in Requests : active[q] \in {None, active[q]}
          /\ \A j \in Calls : call'[j].entry # None =>
               call'[j].entry = call'[j].entry /\ call'[j].request = call'[j].request /\ call'[j].request \in Requests
          /\ \A q \in Requests : run[q].talk = run[q].talk
          /\ Elements(contexts') \subseteq Elements(contexts')
        BY ONLY <2>3
    <2> QED
        BY ONLY <2>1, <2>2, <2>4, TalksFrame
<1>10. CallsOK(call', pending', told, run, pipe)
    <2>1. pending \subseteq pending'
        OBVIOUS
    <2>2. ASSUME NEW j \in Calls
          PROVE  CallOK(call'[j], pending', told, run, pipe)
        <3>1. CASE j = k
            <4>1. call'[j] = x
                BY <3>1, <1>2
            <4>2. CallOK(x, pending', told, run, pipe)
                BY DEF CallOK
            <4> QED
                BY <4>1, <4>2
        <3>2. CASE j # k
            <4>1. call'[j] = call[j] /\ CallOK(call[j], pending, told, run, pipe)
                BY <3>2, <1>2 DEF ConvInv, CallsOK
            <4> QED
                BY <4>1, <2>1 DEF CallOK
        <3> QED
            BY <3>1, <3>2
    <2>3. ASSUME NEW j \in Calls, j # k, call'[j].pc = "creating"
          PROVE  call'[j] = call[j] /\ call[j].request \in pending
        BY <2>3, <1>2 DEF ConvInv, CallsOK, CallOK
    <2>4. ASSUME call'[k].pc = "creating"
          PROVE  call'[k].request = r /\ r \notin pending
        BY <2>4, <1>2
    <2>5. ASSUME NEW i \in Calls, NEW j \in Calls, call'[i].pc = "creating", call'[j].pc = "creating",
                 call'[i].request = call'[j].request
          PROVE  i = j
        <3>1. CASE i # k /\ j # k
            BY <2>3, <2>5, <3>1 DEF ConvInv, CallsOK
        <3>2. CASE i = k \/ j = k
            BY <2>3, <2>4, <2>5, <3>2
        <3> QED
            BY <3>1, <3>2
    <2> QED
        BY <2>2, <2>5 DEF CallsOK
<1>11. PinsOK(entry', active, astray')
    BY <1>7, PinsFrame DEF ConvInv
<1>12. EndsOK(run, active, astray', due)
    BY DEF ConvInv, EndsOK
<1>13. SlotsOK(pending', active)
    BY FutureAdded DEF ConvInv
<1>14. Types'
    <2>1. pending' \subseteq Requests /\ astray' \subseteq Requests
        BY SomeTypes
    <2> QED
        BY <2>1, <1>2, <1>7 DEF ConvInv, Types
<1>15. DirectHandedOver'
    BY SomeTypes DEF DirectHandedOver
<1> QED
    BY <1>9, <1>10, <1>11, <1>12, <1>13, <1>14, <1>15 DEF ConvInv

LEMMA SubmitStep ==
    ASSUME ConvInv, NEW k \in Calls, NEW r \in Requests, Submit(k, r)
    PROVE  ConvInv'
PROOF
<1> DEFINE talk == run[r].talk
<1>1. PICK stale, aged :
        LET known == Without(cached, stale)
            open  == Without(contexts, aged)
            gone  == NoContext(open, run[r].talk)
            place == Opened(open, run[r].talk)
        IN  /\ \/ /\ r \in Elements(known)
                  /\ cached' \in {Touched(known, r), known}
                  /\ contexts' = open
                  /\ call' = [call EXCEPT ![k] = Done]
                  /\ UNCHANGED <<pending, astray>>
               \/ /\ r \notin Elements(known) \cup pending
                  /\ ~SlotFree(r)
                  /\ cached' = known /\ contexts' = open
                  /\ call' = [call EXCEPT ![k] = Done]
                  /\ UNCHANGED <<pending, astray>>
               \/ /\ r \notin Elements(known) \cup pending
                  /\ SlotFree(r)
                  /\ pending' = pending \cup {r}
                  /\ cached' = known
                  /\ IF gone
                     THEN /\ contexts' = open
                          /\ astray' = astray \cup {r}
                          /\ call' = [call EXCEPT ![k] = Done]
                     ELSE /\ contexts' = place.contexts
                          /\ call' = [call EXCEPT ![k] = [pc |-> "creating", request |-> r,
                                         entry |-> place.entry, seen |-> None]]
                          /\ UNCHANGED astray
               \/ /\ r \in pending \ Elements(known)
                  /\ cached' = known
                  /\ IF gone
                     THEN contexts' = open /\ call' = [call EXCEPT ![k] = Done]
                     ELSE /\ contexts' = place.contexts
                          /\ call' = [call EXCEPT ![k] = [Done EXCEPT !.pc = "waiting", !.request = r]]
                  /\ UNCHANGED <<pending, astray>>
            /\ entry' = Kept([entry EXCEPT ![place.entry].talk =
                                 IF place.entry \in Elements(contexts') \/ call'[k].entry # None
                                 THEN run[r].talk ELSE @],
                             Referred(contexts', active, pipe, call'))
    BY DEF Submit
<1>2. /\ call[k].pc = "idle" /\ Spare # {}
      /\ UNCHANGED <<told, active, run, pipe, due, scenario, direct>>
    BY DEF Submit
<1> DEFINE known == Without(cached, stale)
           open  == Without(contexts, aged)
           place == Opened(open, talk)
           at    == place.entry
<1>3. /\ known \in Seq(Requests) /\ Len(known) <= MaxRequests
    <2>1. cached \in Seq(Requests) /\ Len(cached) <= MaxRequests /\ MaxRequests \in Nat
        BY ConversationAssumption DEF ConvInv, Types
    <2>2. known \in Seq(Requests) /\ Len(known) <= Len(cached)
        BY <2>1, WithoutLaw
    <2>3. Len(known) \in Nat /\ Len(cached) \in Nat
        BY <2>1, <2>2
    <2> HIDE DEF known
    <2> QED
        BY <2>1, <2>2, <2>3
<1>4. r \in Elements(known) => Touched(known, r) \in Seq(Requests) /\ Len(Touched(known, r)) <= MaxRequests
    <2> HIDE DEF known
    <2>1. Touched(known, r) \in Seq(Requests)
        BY <1>3, TouchedLaw
    <2>2. r \in Elements(known) => Len(Touched(known, r)) <= Len(known)
        BY <1>3, TouchedLaw
    <2>3. Len(Touched(known, r)) \in Nat /\ Len(known) \in Nat /\ MaxRequests \in Nat
        BY <1>3, <2>1, ConversationAssumption
    <2> QED
        BY <1>3, <2>1, <2>2, <2>3
<1>5. open \in Seq(Entries) /\ Distinct(open) /\ Elements(open) \subseteq Elements(contexts)
    <2>1. contexts \in Seq(Entries) /\ Distinct(contexts)
        BY DEF ConvInv, Types
    <2> QED
        BY <2>1, WithoutLaw
<1> HIDE DEF known, open
<1>6. /\ at \in Entries
      /\ place.contexts \in Seq(Entries) /\ Distinct(place.contexts)
      /\ Elements(place.contexts) \subseteq Elements(open) \cup {at}
      /\ \/ at \in Of(open, talk)
         \/ at \in Spare /\ Of(open, talk) = {}
    BY <1>2, <1>5, OpenedLaw
<1>7. entry' = Kept([entry EXCEPT ![at].talk =
                        IF at \in Elements(contexts') \/ call'[k].entry # None THEN talk ELSE @],
                    Referred(contexts', active, pipe, call'))
    BY <1>1 DEF open
<1>8. /\ contexts' \in {open, place.contexts}
      /\ cached' \in Seq(Requests) /\ Len(cached') <= MaxRequests
      /\ astray' \in {astray, astray \cup {r}}
      /\ pending' = pending \/ (pending' = pending \cup {r} /\ SlotFree(r))
    BY <1>1, <1>3, <1>4 DEF known, open
<1> DEFINE new  == [pc |-> "creating", request |-> r, entry |-> at, seen |-> None]
           wait == [Done EXCEPT !.pc = "waiting", !.request = r]
<1>9. /\ new \in CallType /\ wait \in CallType /\ Done \in CallType
      /\ new.pc = "creating" /\ new.request = r /\ new.entry = at /\ new.seen = None
      /\ wait.pc = "waiting" /\ wait.entry = None /\ Done.pc = "done" /\ Done.entry = None
    BY <1>6 DEF CallType, Done
<1>10. PICK x \in {Done, new, wait} :
         call' = [call EXCEPT ![k] = x] /\ (x = new => r \in pending' /\ r \notin pending)
    <2>1. \/ call' = [call EXCEPT ![k] = Done]
          \/ call' = [call EXCEPT ![k] = new] /\ r \in pending' /\ r \notin pending
          \/ call' = [call EXCEPT ![k] = wait]
        BY <1>1 DEF known, open
    <2>2. Done # new /\ wait # new
        <3>1. Done.pc # new.pc /\ wait.pc # new.pc
            BY <1>9
        <3> HIDE DEF new, wait
        <3> QED
            BY <3>1
    <2> HIDE DEF new, wait
    <2> QED
        BY <2>1, <2>2
<1> HIDE DEF new, wait, at, place
<1>11. /\ x \in CallType
       /\ x.entry # None => x.entry = at /\ x.request = r /\ x.pc = "creating"
       /\ x.pc = "creating" => x.entry # None /\ x.seen = None /\ r \in pending' /\ r \notin pending
    <2>1. at # None
        BY <1>6, NoneOther DEF NotNone
    <2>2. CASE x = Done
        BY <2>2, <1>9
    <2>3. CASE x = wait
        BY <2>3, <1>9
    <2>4. CASE x = new
        BY <2>1, <2>4, <1>9, <1>10
    <2> QED
        BY <2>2, <2>3, <2>4, <1>10
<1>12. /\ contexts' \in Seq(Entries) /\ Distinct(contexts')
       /\ Elements(contexts') \subseteq Elements(open) \cup {at}
    BY <1>5, <1>6, <1>8
<1> QED
    BY <1>2, <1>5, <1>6, <1>7, <1>8, <1>10, <1>11, <1>12, SubmitFrame

----------------------------------------------------------------------------
LEMMA ConversationInit == Init => ConvInv
PROOF
<1> SUFFICES ASSUME Init PROVE ConvInv
    OBVIOUS
<1> DEFINE idle == [Done EXCEPT !.pc = "idle"]
<1>1. /\ call = [k \in Calls |-> idle]
      /\ pending = {} /\ cached = <<>> /\ contexts = <<>> /\ told = {}
      /\ entry = [e \in Entries |-> Blank] /\ active = [r \in Requests |-> None]
      /\ pipe = [r \in Requests |-> [pc |-> "none", entry |-> None]]
      /\ due = [r \in Requests |-> {}] /\ scenario = {} /\ direct = {} /\ astray = {}
    BY DEF Init
<1>2. /\ run \in [Requests -> RunType] /\ \A r \in Requests : run[r].status = "absent"
    <2>1. PICK place \in Placements :
            run = [r \in Requests |-> [talk |-> place[r], status |-> "absent", cancel |-> FALSE]]
        BY DEF Init
    <2>2. \A r \in Requests : place[r] \in Talks
        BY ConversationAssumption
    <2> QED
        BY <2>1, <2>2 DEF RunType
<1>3. idle \in CallType /\ idle.pc = "idle" /\ idle.entry = None
    BY DEF CallType, Done
<1> HIDE DEF idle
<1>4. \A k \in Calls : call[k] = idle
    BY <1>1
<1>5. <<>> \in Seq(Requests) /\ <<>> \in Seq(Entries) /\ Len(<<>>) = 0
    OBVIOUS
<1>6. Elements(contexts) = {} /\ Distinct(contexts)
    <2>1. Elements(contexts) = {}
        BY <1>1, <1>5, ElementsLaw
    <2>2. Distinct(contexts)
        <3>1. \A i \in 1..0 : FALSE
            OBVIOUS
        <3> QED
            BY <3>1, <1>1, <1>5 DEF Distinct
    <2> QED
        BY <2>1, <2>2
<1>7. Types
    <2>1. Blank \in EntryType
        BY DEF Blank, EntryType
    <2>2. entry \in [Entries -> EntryType] /\ pipe \in [Requests -> PipeType]
        BY <1>1, <2>1 DEF PipeType
    <2>3. cached \in Seq(Requests) /\ Len(cached) <= MaxRequests /\ contexts \in Seq(Entries)
        BY <1>1, <1>5, ConversationAssumption
    <2>4. call \in [Calls -> CallType]
        BY <1>1, <1>3
    <2> QED
        BY <1>1, <1>2, <1>6, <2>2, <2>3, <2>4 DEF Types
<1>8. TalksOK(contexts, entry, active, call, run)
    BY <1>1, <1>3, <1>4, <1>6 DEF TalksOK
<1>9. CallsOK(call, pending, told, run, pipe)
    BY <1>3, <1>4 DEF CallsOK, CallOK
<1>10. KnownOK(told, run, pipe)
    BY <1>1 DEF KnownOK
<1>11. PinsOK(entry, active, astray)
    BY <1>1 DEF PinsOK, Blank
<1>12. EndsOK(run, active, astray, due)
    BY <1>1 DEF EndsOK
<1>13. SlotsOK(pending, active)
    <2>1. Holding(active) = {}
        BY <1>1 DEF Holding
    <2>2. Cardinality({}) = 0
        BY FS_EmptySet
    <2>3. MaxActive \in Nat /\ Cardinality(pending) = 0 /\ Cardinality(Holding(active)) = 0
        BY <1>1, <2>1, <2>2, ConversationAssumption
    <2> QED
        BY <2>3 DEF SlotsOK
<1>14. DirectHandedOver
    BY <1>1 DEF DirectHandedOver
<1> QED
    BY <1>7, <1>8, <1>9, <1>10, <1>11, <1>12, <1>13, <1>14 DEF ConvInv

LEMMA ConversationNext == ConvInv /\ [Next]_vars => ConvInv'
PROOF
<1> SUFFICES ASSUME ConvInv, [Next]_vars PROVE ConvInv'
    OBVIOUS
<1>1. ASSUME NEW k \in Calls, NEW r \in Requests, Submit(k, r) PROVE ConvInv'
    BY <1>1, SubmitStep
<1>2. ASSUME NEW k \in Calls, Create(k) \/ CreateFails(k) \/ Register(k) PROVE ConvInv'
    BY <1>2, CreateStep, CreateFailsStep, RegisterStep
<1>3. ASSUME NEW r \in Requests, Work(r) PROVE ConvInv'
    BY <1>3, TakeTurnStep, DecideStep, PutDirectStep, PutScenarioStep, PrepareFailsStep,
       StartGraphStep, FinishGraphStep DEF Work
<1>4. ASSUME NEW r \in Requests, Cancel(r) \/ Resume(r) \/ HearWaiting(r) \/ HearFinal(r) PROVE ConvInv'
    BY <1>4, CancelStep, ResumeStep, HearWaitingStep, HearFinalStep
<1>5. CASE UNCHANGED vars
    BY <1>5 DEF vars, ConvInv, Types, DirectHandedOver
<1> QED
    BY <1>1, <1>2, <1>3, <1>4, <1>5 DEF Next

(* Every step of submit, of a Run's task, of its user and of the listener     *)
(* keeps the service's tables consistent.                                    *)
THEOREM ConversationInvariance == Spec => []ConvInv
PROOF
<1>1. Init => ConvInv
    BY ConversationInit
<1>2. ConvInv /\ [Next]_vars => ConvInv'
    BY ConversationNext
<1> QED
    BY <1>1, <1>2, PTL DEF Spec

LEMMA SlotsFollow == ConvInv => SlotInvariant
PROOF
<1> SUFFICES ASSUME ConvInv PROVE SlotInvariant
    OBVIOUS
<1>1. contexts \in Seq(Entries) /\ Distinct(contexts) /\ TalksOK(contexts, entry, active, call, run)
    BY DEF ConvInv, Types
<1>2. Cardinality(Elements(contexts)) = Len(contexts)
    BY <1>1, DistinctCount
<1>3. ASSUME NEW talk \in Talks
      PROVE  Cardinality(Of(contexts, talk)) <= 1
    <2>1. CASE Of(contexts, talk) = {}
        <3>1. Cardinality({}) = 0
            BY FS_EmptySet
        <3> QED
            BY <2>1, <3>1
    <2>2. CASE Of(contexts, talk) # {}
        <3>1. PICK e : e \in Of(contexts, talk)
            BY <2>2
        <3>2. Of(contexts, talk) = {e}
            BY <3>1, <1>1 DEF Of, TalksOK
        <3>3. Cardinality({e}) = 1
            BY FS_Singleton
        <3> QED
            BY <3>2, <3>3
    <2> QED
        BY <2>1, <2>2
<1>4. TypeOK
    BY <1>2, <1>3 DEF TypeOK, ConvInv, Types, CallType, RunType, EntryType, PipeType
<1>5. SlotsBounded
    BY DEF SlotsBounded, ConvInv, SlotsOK, Holding
<1> QED
    BY <1>4, <1>5 DEF SlotInvariant, ConvInv

(* The Runs that hold a slot and the submissions under way are never more      *)
(* than max_active_runs, a direct submission never outlives its Run's slot,    *)
(* the answers remembered are within their capacity and a conversation has at  *)
(* most one context (submit, _context_entry, _prepare_direct, on_run_state).    *)
THEOREM SlotsKept == Spec => []SlotInvariant
PROOF
    BY ConversationInvariance, SlotsFollow, PTL

LEMMA PinsFollow == ConvInv => PinnedForLive
PROOF
<1> SUFFICES ASSUME ConvInv, NEW e \in Elements(contexts), NEW r \in entry[e].waiting \ astray, Over(r)
             PROVE  "final" \in due[r]
    BY DEF PinnedForLive
<1>1. e \in Entries /\ r \in Requests /\ entry \in [Entries -> EntryType]
    BY SomeTypes DEF EntryType
<1>2. active[r] = e
    BY <1>1 DEF ConvInv, PinsOK
<1>3. e # None
    BY <1>1, NoneOther DEF NotNone
<1> QED
    BY <1>1, <1>2, <1>3 DEF ConvInv, EndsOK, Over

(* A context is pinned only for Runs that still wait or whose end is about to  *)
(* be heard, however submissions, notifications and evictions interleave       *)
(* (on_run_state, _evict_contexts).                                          *)
THEOREM PinsReleased == Spec => []PinnedForLive
PROOF
    BY ConversationInvariance, PinsFollow, PTL

-----------------------------------------------------------------------------
(* One Run per request.                                                      *)

\* A task starts with the answer that tells of its Run, which nobody was told of
\* before, or goes on with a Run that waited for its user.
Starts(r) ==
    pipe[r].pc = "none" /\ pipe'[r].pc # "none" =>
        \/ /\ pipe'[r].pc = "queued" /\ run[r].status = "queued"
           /\ r \notin told /\ r \in told'
        \/ pipe'[r].pc = "graph" /\ run[r].status = "waiting"

\* A request has one Run, one start of its task and one end.
OneRun(r) ==
    /\ r \in told => r \in told'
    /\ run[r].status # "absent" => run'[r].status # "absent"
    /\ Over(r) => run'[r] = run[r]
    /\ Starts(r)

\* A graph works for a Run that runs.
Driven == \A r \in Requests : pipe[r].pc = "graph" => run[r].status = "running"

\* What a step leaves of Driven and OneRun when it starts no task.
LEMMA RunRests ==
    ASSUME Driven, NEW r \in Requests, r \in told => r \in told', run'[r] = run[r],
           \/ pipe'[r] = pipe[r]
           \/ pipe'[r].pc \notin {"none", "graph"} /\ pipe[r].pc # "none"
           \/ pipe'[r].pc = "none"
    PROVE  OneRun(r) /\ (pipe'[r].pc = "graph" => run'[r].status = "running")
PROOF
    BY DEF OneRun, Starts, Driven

\* A step of one Run's task leaves the others alone.
LEMMA OthersRest ==
    ASSUME Driven, NEW r \in Requests, UNCHANGED told,
           \A x \in Requests \ {r} : run'[x] = run[x] /\ pipe'[x] = pipe[x],
           OneRun(r), pipe'[r].pc = "graph" => run'[r].status = "running"
    PROVE  Driven' /\ \A x \in Requests : OneRun(x)
PROOF
<1>1. ASSUME NEW x \in Requests, x # r
      PROVE  OneRun(x) /\ (pipe'[x].pc = "graph" => run'[x].status = "running")
    BY <1>1, RunRests
<1> QED
    BY <1>1 DEF Driven

LEMMA WorkOnce ==
    ASSUME ConvInv, Driven, NEW r \in Requests, Work(r)
    PROVE  Driven' /\ \A x \in Requests : OneRun(x)
PROOF
<1>1. /\ run \in [Requests -> RunType] /\ pipe \in [Requests -> PipeType]
      /\ run[r] \in RunType /\ pipe[r] \in PipeType
    BY DEF ConvInv, Types
<1>2. told' = told
    BY DEF Work, TakeTurn, Decide, PutDirect, PutScenario, PrepareFails, StartGraph, FinishGraph
<1>3. pipe[r].pc # "none"
    BY DEF Work, TakeTurn, Decide, PutDirect, PutScenario, PrepareFails, StartGraph, FinishGraph
<1>4. CASE TakeTurn(r) \/ Decide(r) \/ PutDirect(r) \/ PutScenario(r)
    <2>1. run' = run
        BY <1>4 DEF TakeTurn, Decide, PutDirect, PutScenario
    <2>2. PICK pc \in {"preparing", "direct", "scenario", "question", "brief", "ready"} :
             pipe' = [pipe EXCEPT ![r].pc = pc]
        BY <1>4 DEF TakeTurn, Decide, PutDirect, PutScenario
    <2>3. pipe'[r].pc = pc /\ \A x \in Requests \ {r} : pipe'[x] = pipe[x]
        BY <1>1, <2>2 DEF PipeType
    <2>4. OneRun(r) /\ pipe'[r].pc # "graph"
        BY <1>2, <1>3, <2>1, <2>3, RunRests
    <2> QED
        BY <1>2, <2>1, <2>3, <2>4, OthersRest
<1>5. ASSUME Gone(r), Ended(r) \/ run' = run \/ run' = [run EXCEPT ![r].status = "waiting"],
             run' = run \/ ~Over(r)
      PROVE  Driven' /\ \A x \in Requests : OneRun(x)
    <2>1. pipe'[r].pc = "none" /\ \A x \in Requests \ {r} : pipe'[x] = pipe[x]
        BY <1>1, <1>5 DEF Gone
    <2>2. \A x \in Requests \ {r} : run'[x] = run[x]
        BY <1>1, <1>5 DEF Ended
    <2>3. run'[r] = run[r] \/ run'[r].status \in {"over", "waiting"}
        BY <1>1, <1>5 DEF Ended, RunType
    <2>4. OneRun(r)
        BY <1>2, <1>5, <2>1, <2>3 DEF OneRun, Starts
    <2> QED
        BY <1>2, <2>1, <2>2, <2>4, OthersRest
<1>6. CASE PrepareFails(r)
    <2>1. Gone(r) /\ Settled(r)
        BY <1>6 DEF PrepareFails
    <2> QED
        BY <1>5, <2>1 DEF Settled
<1>7. CASE StartGraph(r)
    <2>1. CASE Stopped(r)
        <3>1. Gone(r) /\ run' = run
            BY <1>7, <2>1 DEF StartGraph
        <3> QED
            BY <1>5, <3>1
    <2>2. CASE ~Stopped(r)
        <3>1. /\ run' = [run EXCEPT ![r].status = "running"]
              /\ pipe' = [pipe EXCEPT ![r].pc = "graph"]
            BY <1>7, <2>2 DEF StartGraph
        <3>2. /\ run'[r].status = "running"
              /\ \A x \in Requests \ {r} : run'[x] = run[x] /\ pipe'[x] = pipe[x]
            BY <1>1, <3>1 DEF RunType
        <3>3. OneRun(r)
            BY <1>2, <1>3, <2>2, <3>2 DEF OneRun, Starts, Stopped
        <3> QED
            BY <1>2, <3>2, <3>3, OthersRest
    <2> QED
        BY <2>1, <2>2
<1>8. CASE FinishGraph(r)
    <2>1. /\ Gone(r) /\ pipe[r].pc = "graph"
          /\ Ended(r) \/ run' = [run EXCEPT ![r].status = "waiting"]
        BY <1>8 DEF FinishGraph
    <2>2. ~Over(r)
        BY <2>1 DEF Driven, Over
    <2> QED
        BY <1>5, <2>1, <2>2
<1> QED
    BY <1>4, <1>6, <1>7, <1>8 DEF Work

LEMMA UserOnce ==
    ASSUME ConvInv, Driven, NEW r \in Requests, Cancel(r) \/ Resume(r)
    PROVE  Driven' /\ \A x \in Requests : OneRun(x)
PROOF
<1>1. /\ run \in [Requests -> RunType] /\ pipe \in [Requests -> PipeType]
      /\ run[r] \in RunType /\ pipe[r] \in PipeType
    BY DEF ConvInv, Types
<1>2. told' = told
    BY DEF Cancel, Resume
<1>3. CASE Cancel(r)
    <2>1. /\ pipe' = pipe /\ run[r].status \in {"queued", "running", "waiting"}
          /\ IF run[r].status = "running" THEN run' = [run EXCEPT ![r].cancel = TRUE] ELSE Ended(r)
        BY <1>3 DEF Cancel
    <2>2. \A x \in Requests \ {r} : run'[x] = run[x] /\ pipe'[x] = pipe[x]
        BY <1>1, <2>1 DEF Ended
    <2>3. IF run[r].status = "running" THEN run'[r].status = "running" ELSE run'[r].status = "over"
        BY <1>1, <2>1 DEF Ended, RunType
    <2>4. pipe[r].pc = "graph" => run'[r].status = "running"
        BY <2>3 DEF Driven
    <2>5. OneRun(r)
        BY <1>2, <2>1, <2>3 DEF OneRun, Starts, Over
    <2> QED
        BY <1>2, <2>1, <2>2, <2>4, <2>5, OthersRest
<1>4. CASE Resume(r)
    <2>1. /\ run[r].status = "waiting" /\ pipe[r].pc = "none"
          /\ run' = [run EXCEPT ![r].status = "running"]
          /\ pipe' = [pipe EXCEPT ![r] = [pc |-> "graph", entry |-> None]]
        BY <1>4 DEF Resume
    <2>2. \A x \in Requests \ {r} : run'[x] = run[x] /\ pipe'[x] = pipe[x]
        BY <1>1, <2>1
    <2>3. run'[r].status = "running" /\ pipe'[r].pc = "graph"
        BY <1>1, <2>1 DEF RunType
    <2>4. OneRun(r)
        BY <1>2, <2>1, <2>3 DEF OneRun, Starts, Over
    <2> QED
        BY <1>2, <2>2, <2>3, <2>4, OthersRest
<1> QED
    BY <1>3, <1>4

LEMMA CallsOnce ==
    ASSUME ConvInv, Driven, NEW k \in Calls, Create(k) \/ CreateFails(k) \/ Register(k)
    PROVE  Driven' /\ \A x \in Requests : OneRun(x)
PROOF
<1> DEFINE r == call[k].request
<1>1. /\ run \in [Requests -> RunType] /\ pipe \in [Requests -> PipeType]
      /\ call[k] \in CallType /\ CallOK(call[k], pending, told, run, pipe)
      /\ pending \subseteq Requests /\ KnownOK(told, run, pipe)
    BY DEF ConvInv, Types, CallsOK
<1>2. call[k].pc = "creating"
    BY DEF Create, CreateFails, Register
<1>3. r \in Requests /\ run[r] \in RunType /\ pipe[r] \in PipeType
    BY <1>1, <1>2 DEF CallOK
<1>4. CASE CreateFails(k)
    <2>1. UNCHANGED <<told, run, pipe>>
        BY <1>4 DEF CreateFails
    <2> QED
        BY <1>3, <2>1, RunRests, OthersRest
<1>5. CASE Create(k)
    <2>1. UNCHANGED <<told, pipe>>
        BY <1>5 DEF Create
    <2>2. CASE run' = run
        BY <1>3, <2>1, <2>2, RunRests, OthersRest
    <2>3. CASE run[r].status = "absent" /\ run' = [run EXCEPT ![r].status = "queued"]
        <3>1. run'[r].status = "queued" /\ \A x \in Requests \ {r} : run'[x] = run[x]
            BY <1>1, <1>3, <2>3 DEF RunType
        <3>2. pipe[r].pc = "none"
            BY <1>1, <1>3, <2>3 DEF KnownOK
        <3>3. OneRun(r)
            BY <2>1, <2>3, <3>1, <3>2 DEF OneRun, Starts, Over
        <3> HIDE DEF r
        <3> QED
            BY <1>3, <2>1, <3>1, <3>2, <3>3, OthersRest
    <2> QED
        BY <1>5, <2>2, <2>3 DEF Create
<1>6. CASE Register(k)
    <2>1. /\ call[k].seen # None /\ told' = told \cup {r} /\ run' = run
          /\ pipe' = IF call[k].seen = "new"
                     THEN [pipe EXCEPT ![r] = [pc |-> "queued", entry |-> call[k].entry]] ELSE pipe
        BY <1>6 DEF Register
    <2>2. ASSUME NEW x \in Requests
          PROVE  OneRun(x) /\ (pipe'[x].pc = "graph" => run'[x].status = "running")
        <3>1. CASE x # r \/ call[k].seen # "new"
            <4>1. pipe'[x] = pipe[x]
                BY <1>1, <1>3, <2>1, <3>1
            <4> QED
                BY <2>1, <4>1, RunRests
        <3>2. CASE x = r /\ call[k].seen = "new"
            <4>1. run[r].status = "queued" /\ r \notin told /\ pipe[r].pc = "none"
                BY <1>1, <1>2, <2>1, <3>2 DEF CallOK
            <4>2. pipe'[r].pc = "queued"
                BY <1>1, <1>3, <2>1, <3>2
            <4> QED
                BY <2>1, <3>2, <4>1, <4>2 DEF OneRun, Starts, Over
        <3> QED
            BY <3>1, <3>2
    <2> QED
        BY <2>2 DEF Driven
<1> QED
    BY <1>4, <1>5, <1>6

LEMMA StepOnce ==
    ASSUME ConvInv, Driven, [Next]_vars
    PROVE  Driven' /\ \A x \in Requests : OneRun(x)
PROOF
<1>1. CASE UNCHANGED <<told, run, pipe>>
    <2>1. \A x \in Requests : OneRun(x)
        BY <1>1, RunRests
    <2> QED
        BY <1>1, <2>1 DEF Driven
<1>2. ASSUME NEW k \in Calls, NEW r \in Requests, Submit(k, r) PROVE UNCHANGED <<told, run, pipe>>
    BY <1>2 DEF Submit
<1>3. ASSUME NEW r \in Requests, HearWaiting(r) \/ HearFinal(r) PROVE UNCHANGED <<told, run, pipe>>
    BY <1>3 DEF HearWaiting, HearFinal
<1>4. UNCHANGED vars => UNCHANGED <<told, run, pipe>>
    BY DEF vars
<1> QED
    BY <1>1, <1>2, <1>3, <1>4, WorkOnce, UserOnce, CallsOnce DEF Next

(* The same request submitted again, concurrently, after a failure of the     *)
(* repository or after its answer has expired, finds its one Run: the Run's   *)
(* task starts once, is only resumed from a question, and no step of it, of a *)
(* late preparation or of a cancellation changes a Run that has ended         *)
(* (submit, _create_queued, _settle_background_failure).                       *)
THEOREM OneRunPerRequest == Spec => [][\A r \in Requests : OneRun(r)]_vars
PROOF
<1>1. Init => Driven
    <2> SUFFICES ASSUME Init, NEW r \in Requests PROVE pipe[r].pc # "graph"
        BY DEF Driven
    <2>1. pipe[r].pc = "none"
        BY DEF Init
    <2> QED
        BY <2>1
<1>2. ConvInv /\ Driven /\ [Next]_vars => Driven' /\ [\A r \in Requests : OneRun(r)]_vars
    BY StepOnce
<1> QED
    BY <1>1, <1>2, ConversationInvariance, PTL DEF Spec

=============================================================================
