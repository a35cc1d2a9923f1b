--------------------------- MODULE CustomerProofs ---------------------------
(***************************************************************************)
(* The customer service's answer, for every number of pages, subscriptions,  *)
(* reconnections and events: what is stored is the answer so far, it ends as  *)
(* the Agent's Run did, and what a page shows is never out of order and in    *)
(* the end complete; it grows piece by piece, and stays once it is over.      *)
(***************************************************************************)
EXTENDS CustomerAnswer, NaturalsInduction, WellFoundedInduction, TLAPS

(***************************************************************************)
(* The pieces of a log: what the recursive function inside Pieces computes.  *)
(***************************************************************************)

(* Induction over the naturals, for a set of them.                           *)
LEMMA SetInduction ==
    ASSUME NEW T, 0 \in T, \A n \in Nat : n \in T => n + 1 \in T
    PROVE  Nat \subseteq T
PROOF
<1> DEFINE Bad == Nat \ T
<1> SUFFICES ASSUME Bad # {} PROVE FALSE
    OBVIOUS
<1>1. PICK n \in Bad : \A m \in Bad : ~ <<m, n>> \in OpToRel(<, Nat)
    <2>1. IsWellFoundedOn(OpToRel(<, Nat), Nat)
        BY NatLessThanWellFounded
    <2>2. Bad \subseteq Nat
        OBVIOUS
    <2> HIDE DEF Bad
    <2> QED
        BY <2>1, <2>2, WFMin
<1>2. n - 1 \in Nat /\ n - 1 \in Bad
    OBVIOUS
<1>3. <<n - 1, n>> \in OpToRel(<, Nat)
    BY <1>2 DEF OpToRel
<1> QED
    BY <1>1, <1>2, <1>3

Step(log, from, n, before) == IF n >= from /\ log[n] = "delta" THEN Append(before, n) ELSE before

Reads(log, from, to, f) ==
    f = [n \in 0..to |-> IF n = 0 THEN <<>>
                         ELSE IF n >= from /\ log[n] = "delta" THEN Append(f[n - 1], n)
                         ELSE f[n - 1]]

PiecesIn(log, from, to) == (CHOOSE f : Reads(log, from, to, f))[to]

LEMMA ReadsExists ==
    ASSUME NEW log, NEW from, NEW to \in Nat
    PROVE  \E f : Reads(log, from, to, f)
PROOF
<1> DEFINE Reached == {n \in Nat : \E f : Reads(log, from, n, f)}
<1>1. 0 \in Reached
    <2> DEFINE f == [n \in 0..0 |-> <<>>]
    <2>1. Reads(log, from, 0, f)
        BY DEF Reads
    <2> QED
        BY <2>1
<1>2. ASSUME NEW n \in Nat, n \in Reached
      PROVE  n + 1 \in Reached
    <2>1. PICK f : Reads(log, from, n, f)
        BY <1>2
    <2> DEFINE g == [m \in 0..(n + 1) |-> IF m = 0 THEN <<>> ELSE Step(log, from, m, f[m - 1])]
    <2>2. ASSUME NEW m \in 0..n
          PROVE  g[m] = f[m]
        <3>1. f[m] = IF m = 0 THEN <<>> ELSE Step(log, from, m, f[m - 1])
            BY <2>1 DEF Reads, Step
        <3>2. m \in 0..(n + 1)
            OBVIOUS
        <3> HIDE DEF Step
        <3> QED
            BY <3>1, <3>2
    <2>3. ASSUME NEW m \in 0..(n + 1)
          PROVE  g[m] = IF m = 0 THEN <<>> ELSE Step(log, from, m, g[m - 1])
        <3>1. m = 0 \/ m - 1 \in 0..n
            OBVIOUS
        <3> QED
            BY <3>1, <2>2
    <2>4. g = [m \in 0..(n + 1) |-> IF m = 0 THEN <<>> ELSE Step(log, from, m, g[m - 1])]
        <3>1. g = [m \in 0..(n + 1) |-> g[m]]
            OBVIOUS
        <3> HIDE DEF g
        <3> QED
            BY <3>1, <2>3
    <2>5. Reads(log, from, n + 1, g)
        <3> HIDE DEF g
        <3> QED
            BY <2>4 DEF Reads, Step
    <2> QED
        BY <2>5
<1> HIDE DEF Reached
<1>3. Nat \subseteq Reached
    BY <1>1, <1>2, SetInduction
<1> QED
    BY <1>3 DEF Reached

LEMMA ReadsLaw ==
    ASSUME NEW log, NEW from, NEW to \in Nat, NEW f, Reads(log, from, to, f), NEW n \in Nat \ {0}, n <= to
    PROVE  f[n] = Step(log, from, n, f[n - 1])
PROOF
<1>1. n \in 0..to /\ n # 0
    OBVIOUS
<1>2. f[n] = IF n >= from /\ log[n] = "delta" THEN Append(f[n - 1], n) ELSE f[n - 1]
    BY <1>1, Zenon DEF Reads
<1> QED
    BY <1>2 DEF Step

(* Two readings of logs that agree agree where both are defined.             *)
LEMMA ReadsAgree ==
    ASSUME NEW log, NEW more, NEW from, NEW to \in Nat, NEW upto \in Nat, to <= upto,
           \A n \in 1..to : more[n] = log[n],
           NEW f, NEW g, Reads(log, from, to, f), Reads(more, from, upto, g)
    PROVE  g[to] = f[to]
PROOF
<1> DEFINE Same == {n \in Nat : n <= to => g[n] = f[n]}
<1>1. 0 \in Same
    BY DEF Reads
<1>2. ASSUME NEW n \in Nat, n \in Same
      PROVE  n + 1 \in Same
    <2> SUFFICES ASSUME n + 1 <= to PROVE g[n + 1] = f[n + 1]
        OBVIOUS
    <2> DEFINE m == n + 1
    <2>1. m \in Nat \ {0} /\ m <= to /\ m <= upto /\ m - 1 = n /\ g[n] = f[n] /\ more[m] = log[m]
        BY <1>2
    <2> HIDE DEF m, Same
    <2>2. f[m] = Step(log, from, m, f[m - 1])
        BY <2>1, ReadsLaw, SMTT(30)
    <2>3. g[m] = Step(more, from, m, g[m - 1])
        <3>1. upto \in Nat /\ m \in Nat \ {0} /\ m <= upto /\ Reads(more, from, upto, g)
            BY <2>1
        <3> QED
            BY ONLY <3>1, ReadsLaw
    <2>4. g[m] = f[m]
        BY <2>1, <2>2, <2>3 DEF Step
    <2> QED
        BY <2>4 DEF m
<1> HIDE DEF Same
<1>3. Nat \subseteq Same
    BY <1>1, <1>2, SetInduction
<1> QED
    BY <1>3 DEF Same

LEMMA PiecesAreIn ==
    ASSUME NEW from, NEW to
    PROVE  Pieces(from, to) = PiecesIn(agent.log, from, to)
PROOF
    BY DEF Pieces, PiecesIn, Reads

(* A log that goes on says the same up to where it was.                      *)
LEMMA PiecesKept ==
    ASSUME NEW log, NEW more, NEW from, NEW to \in Nat, \A n \in 1..to : more[n] = log[n]
    PROVE  PiecesIn(more, from, to) = PiecesIn(log, from, to)
PROOF
<1>1. Reads(log, from, to, CHOOSE f : Reads(log, from, to, f))
    BY ReadsExists
<1>2. Reads(more, from, to, CHOOSE f : Reads(more, from, to, f))
    BY ReadsExists
<1> QED
    BY <1>1, <1>2, ReadsAgree DEF PiecesIn

(* The law of the pieces: each event adds its own, if it has one.            *)
LEMMA PiecesLaw ==
    ASSUME NEW log, NEW from
    PROVE  /\ PiecesIn(log, from, 0) = <<>>
           /\ \A n \in Nat \ {0} :
                PiecesIn(log, from, n) = Step(log, from, n, PiecesIn(log, from, n - 1))
PROOF
<1>1. \A n \in Nat : Reads(log, from, n, CHOOSE f : Reads(log, from, n, f))
    BY ReadsExists
<1>2. PiecesIn(log, from, 0) = <<>>
    <2>1. Reads(log, from, 0, CHOOSE f : Reads(log, from, 0, f))
        BY <1>1
    <2> QED
        BY <2>1 DEF PiecesIn, Reads
<1>3. ASSUME NEW n \in Nat \ {0}
      PROVE  PiecesIn(log, from, n) = Step(log, from, n, PiecesIn(log, from, n - 1))
    <2> DEFINE f == CHOOSE h : Reads(log, from, n - 1, h)
               g == CHOOSE h : Reads(log, from, n, h)
    <2>1. n - 1 \in Nat /\ n - 1 <= n
        OBVIOUS
    <2>2. Reads(log, from, n - 1, f) /\ Reads(log, from, n, g)
        BY <1>1, <2>1
    <2>3. PiecesIn(log, from, n) = g[n] /\ PiecesIn(log, from, n - 1) = f[n - 1]
        BY DEF PiecesIn
    <2> HIDE DEF f, g
    <2>4. g[n - 1] = f[n - 1]
        BY <2>1, <2>2, ReadsAgree
    <2>5. g[n] = Step(log, from, n, g[n - 1])
        BY <2>2, ReadsLaw
    <2> QED
        BY <2>3, <2>4, <2>5
<1> QED
    BY <1>2, <1>3

Increasing(q) == \A i, j \in DOMAIN q : i < j => q[i] < q[j]

(* The pieces come in order, each once, from the range that was asked for.   *)
LEMMA PiecesInOrder ==
    ASSUME NEW log, NEW from \in Nat, NEW to \in Nat
    PROVE  /\ PiecesIn(log, from, to) \in Seq(Nat)
           /\ Increasing(PiecesIn(log, from, to))
           /\ \A i \in DOMAIN PiecesIn(log, from, to) : PiecesIn(log, from, to)[i] \in from..to
PROOF
<1> DEFINE P(n) == PiecesIn(log, from, n)
           Good == {n \in Nat : /\ P(n) \in Seq(Nat) /\ Increasing(P(n))
                                /\ \A i \in DOMAIN P(n) : P(n)[i] \in from..n}
<1>1. 0 \in Good
    <2>1. P(0) = <<>>
        BY PiecesLaw
    <2>2. <<>> \in Seq(Nat) /\ DOMAIN <<>> = {}
        OBVIOUS
    <2> HIDE DEF P
    <2> QED
        BY <2>1, <2>2 DEF Increasing
<1>2. ASSUME NEW n \in Nat, n \in Good
      PROVE  n + 1 \in Good
    <2> DEFINE q == P(n)
               r == P(n + 1)
    <2>1. r = Step(log, from, n + 1, q)
        <3>1. n + 1 \in Nat \ {0} /\ (n + 1) - 1 = n
            OBVIOUS
        <3>2. PiecesIn(log, from, n + 1) = Step(log, from, n + 1, PiecesIn(log, from, (n + 1) - 1))
            BY <3>1, PiecesLaw
        <3> QED
            BY <3>1, <3>2
    <2>2. q \in Seq(Nat) /\ Increasing(q) /\ \A i \in DOMAIN q : q[i] \in from..n
        BY <1>2
    <2> SUFFICES r \in Seq(Nat) /\ Increasing(r) /\ \A i \in DOMAIN r : r[i] \in from..(n + 1)
        OBVIOUS
    <2> HIDE DEF q, r, P
    <2>3. CASE n + 1 >= from /\ log[n + 1] = "delta"
        <3>1. r = Append(q, n + 1)
            BY <2>1, <2>3 DEF Step
        <3>2. /\ r \in Seq(Nat) /\ Len(r) = Len(q) + 1
              /\ \A i \in 1..Len(q) : r[i] = q[i]
              /\ r[Len(q) + 1] = n + 1
            BY <3>1, <2>2
        <3>3. ASSUME NEW i \in DOMAIN r
              PROVE  /\ r[i] \in from..(n + 1)
                     /\ i \in 1..Len(q) => r[i] \in from..n
            <4>1. CASE i \in 1..Len(q)
                <5>1. DOMAIN q = 1..Len(q)
                    BY ONLY <2>2
                <5>2. r[i] = q[i] /\ q[i] \in from..n
                    BY <4>1, <5>1, <3>2, <2>2, Zenon
                <5>3. r[i] \in from..n
                    BY ONLY <5>2
                <5>4. r[i] \in from..(n + 1)
                    BY ONLY <5>3, from \in Nat, n \in Nat
                <5> QED
                    BY <5>3, <5>4, Zenon
            <4>2. CASE i = Len(q) + 1
                <5>1. Len(q) \in Nat /\ i \notin 1..Len(q)
                    BY <4>2, <2>2
                <5>2. n + 1 \in from..(n + 1)
                    BY <2>3
                <5>3. r[i] = n + 1
                    BY <4>2, <3>2
                <5> QED
                    BY <5>1, <5>2, <5>3, Zenon
            <4>3. i \in 1..Len(q) \/ i = Len(q) + 1
                <5>1. DOMAIN r = 1..Len(r) /\ Len(q) \in Nat /\ Len(r) = Len(q) + 1
                    BY <3>2, <2>2
                <5>2. i \in 1..(Len(q) + 1) /\ Len(q) \in Nat
                    BY <5>1
                <5> QED
                    BY ONLY <5>2
            <4> QED
                BY <4>1, <4>2, <4>3, Zenon
        <3>4. ASSUME NEW i \in DOMAIN r, NEW j \in DOMAIN r, i < j
              PROVE  r[i] < r[j]
            <4>1. i \in 1..Len(q) /\ (j \in 1..Len(q) \/ j = Len(q) + 1)
                <5>1. DOMAIN r = 1..Len(r) /\ Len(q) \in Nat /\ Len(r) = Len(q) + 1
                    BY <3>2, <2>2
                <5>2. i \in 1..(Len(q) + 1) /\ j \in 1..(Len(q) + 1) /\ Len(q) \in Nat /\ i < j
                    BY <5>1, <3>4
                <5> QED
                    BY ONLY <5>2
            <4>2. CASE j \in 1..Len(q)
                <5>1. r[i] = q[i] /\ r[j] = q[j]
                    BY ONLY <4>1, <4>2, <3>2
                <5>2. DOMAIN q = 1..Len(q)
                    BY ONLY <2>2
                <5>3. q[i] < q[j]
                    BY <4>1, <4>2, <5>2, <3>4, <2>2, Zenon DEF Increasing
                <5> QED
                    BY <5>1, <5>3, Zenon
            <4>3. CASE j = Len(q) + 1
                <5>1. r[i] \in from..n /\ r[j] = n + 1
                    BY <4>1, <4>3, <3>2, <3>3, Zenon
                <5> QED
                    BY ONLY <5>1, from \in Nat, n \in Nat
            <4> QED
                BY <4>1, <4>2, <4>3
        <3> QED
            BY <3>2, <3>3, <3>4 DEF Increasing
    <2>4. CASE ~(n + 1 >= from /\ log[n + 1] = "delta")
        BY <2>1, <2>2, <2>4 DEF Step
    <2> QED
        BY <2>3, <2>4
<1> HIDE DEF Good, P
<1>3. Nat \subseteq Good
    BY <1>1, <1>2, SetInduction
<1> QED
    BY <1>3 DEF Good, P

(***************************************************************************)
(* The invariant.  Its parts speak of one record at a time, so that what a    *)
(* step does to one subscription or one page concerns no other.              *)
(***************************************************************************)
Kind     == {"accepted", "started", "step", "delta", "completed", "failed", "cancelled"}
Statuses == {"none", "PENDING", "RUNNING"} \cup Terminal

AgentRun == [status : Statuses \cup {"lost"}, log : Seq(Kind)]
Sending  == [pc : {"idle", "sending", "accepted", "failing", "failed", "done"}, tries : {0, 1},
             reply : Statuses, by : Pages \cup {Nobody}]
Row      == [status : Statuses, last : Nat, bound : BOOLEAN]
Message  == [status : {"none", "PENDING", "STREAMING", "COMPLETED", "FAILED", "CANCELLED"},
             text : Seq(Nat)]
Subscription == [pc : {"free", "sending", "waiting", "projecting"}, at : Nat, upto : Nat,
                 owner : Pages \cup {Nobody}, seen : Nat, text : Seq(Nat)]
View     == [pc : {"closed", "submitting", "opening", "live", "refreshing", "ended", "kept"},
             shows : {"IDLE", "SUBMITTING", "STREAMING"} \cup Statuses,
             cursor : Nat, text : Seq(Nat), tries : Nat]

Types ==
    /\ agent \in AgentRun /\ call \in Sending /\ row \in Row /\ msg \in Message
    /\ sess \in [Sessions -> Subscription]
    /\ page \in [Pages -> View]

\* The end of a Run is the last event of its log, and only there once the Run ended.
StoryOK(a) ==
    /\ a.status = "none" => a.log = <<>>
    /\ \A i \in 1..Len(a.log) : StatusOf(a.log[i]) \in Terminal =>
            i = Len(a.log) /\ (a.status = "lost" \/ a.status = StatusOf(a.log[i]))

\* Until the Run is bound to its row, nothing of it was projected or subscribed to.
Binding ==
    /\ call.pc = "accepted" => call.reply # "none"
    /\ row.bound => call.pc = "done"
    /\ ~row.bound => /\ row.last = 0 /\ row.status \in {"none", "PENDING", "FAILED"}
                     /\ \A s \in Sessions : sess[s] = Free

\* Row and message tell the story as far as they go.
RowOK(rw, m, log) ==
    /\ rw.last <= Len(log)
    /\ rw.last > 0 => rw.status = StatusOf(log[rw.last])
    /\ m.text = PiecesIn(log, 1, rw.last)
    /\ Over(rw) /\ rw.last > 0 =>
            m.status = IF rw.status = "SUCCEEDED" THEN "COMPLETED" ELSE rw.status

\* A subscription never gives an event before the row has it, and what its
\* projection read is what the message was then.
SessionOK(x, rw, log) ==
    /\ x.pc = "free" => x = Free
    /\ x.pc # "free" => /\ Over(rw) => rw.last > 0
                        /\ x.at <= rw.last /\ x.at <= x.upto /\ x.upto <= Len(log)
    /\ x.pc = "projecting" => /\ x.at < x.upto /\ x.at <= x.seen /\ x.seen <= rw.last
                              /\ x.text = PiecesIn(log, 1, x.seen)

\* A page that reads has one subscription, and only such a page has one.
Owned(ss, pp) ==
    /\ \A s, t \in Sessions : ss[s].owner = ss[t].owner => s = t \/ ss[s].owner = Nobody
    /\ \A p \in Pages : (pp[p].pc = "live") <=> \E s \in Sessions : ss[s].owner = p

\* What a page shows is ordered, behind its cursor while it reads on, and
\* called complete only when the row says so.
ViewOK(v, rw, m) ==
    /\ v.cursor <= rw.last
    /\ Increasing(v.text)
    /\ v.pc \in {"opening", "live"} => \A i \in DOMAIN v.text : v.text[i] <= v.cursor
    /\ v.shows = "SUCCEEDED" => rw.status = "SUCCEEDED"
    /\ v.pc = "ended" /\ v.shows = "SUCCEEDED" => v.text = m.text

CustomerInv ==
    /\ Types
    /\ StoryOK(agent)
    /\ Binding
    /\ RowOK(row, msg, agent.log)
    /\ \A s \in Sessions : SessionOK(sess[s], row, agent.log)
    /\ Owned(sess, page)
    /\ \A p \in Pages : ViewOK(page[p], row, msg)

-----------------------------------------------------------------------------
(* The parts, one record at a time.                                          *)

\* The log of the second goes on where that of the first ends.
GoesOn(log, more) == Len(log) <= Len(more) /\ \A n \in 1..Len(log) : more[n] = log[n]

LEMMA RowKept ==
    ASSUME NEW rw \in Row, NEW m, NEW log \in Seq(Kind), NEW more \in Seq(Kind),
           RowOK(rw, m, log), GoesOn(log, more)
    PROVE  RowOK(rw, m, more)
PROOF
<1>1. rw.last \in Nat /\ Len(log) \in Nat /\ Len(more) \in Nat
    BY DEF Row
<1>2. PiecesIn(more, 1, rw.last) = PiecesIn(log, 1, rw.last)
    <2>1. \A n \in 1..rw.last : more[n] = log[n]
        BY <1>1 DEF RowOK, GoesOn
    <2> QED
        BY <2>1, <1>1, PiecesKept
<1> QED
    BY <1>1, <1>2 DEF RowOK, GoesOn

(* A subscription stays right while the log goes on and the row advances.    *)
LEMMA SessionKept ==
    ASSUME NEW x \in Subscription, NEW rw \in Row, NEW rv \in Row,
           NEW log \in Seq(Kind), NEW more \in Seq(Kind),
           SessionOK(x, rw, log), GoesOn(log, more), rw.last <= rv.last, rw.last <= Len(log),
           Over(rv) => Over(rw) \/ rv.last > 0
    PROVE  SessionOK(x, rv, more)
PROOF
<1>1. /\ rw.last \in Nat /\ rv.last \in Nat /\ Len(log) \in Nat /\ Len(more) \in Nat
      /\ x.at \in Nat /\ x.upto \in Nat /\ x.seen \in Nat
    BY DEF Row, Subscription
<1>2. x.pc = "projecting" => PiecesIn(more, 1, x.seen) = PiecesIn(log, 1, x.seen)
    <2> SUFFICES ASSUME x.pc = "projecting" PROVE PiecesIn(more, 1, x.seen) = PiecesIn(log, 1, x.seen)
        OBVIOUS
    <2>1. \A n \in 1..x.seen : more[n] = log[n]
        BY <1>1 DEF SessionOK, GoesOn
    <2> QED
        BY <2>1, <1>1, PiecesKept
<1> QED
    BY <1>1, <1>2 DEF SessionOK, GoesOn

LEMMA FreeOK ==
    ASSUME NEW rw, NEW log
    PROVE  Free \in Subscription /\ SessionOK(Free, rw, log)
PROOF
    BY DEF Free, Subscription, SessionOK

(* A page stays right while the row advances and a success stays what it was. *)
LEMMA ViewKept ==
    ASSUME NEW v \in View, NEW rw \in Row, NEW rv \in Row, NEW m, NEW n, ViewOK(v, rw, m),
           rw.last <= rv.last,
           rw.status = "SUCCEEDED" => rv.status = "SUCCEEDED" /\ n.text = m.text
    PROVE  ViewOK(v, rv, n)
PROOF
<1>1. rw.last \in Nat /\ rv.last \in Nat /\ v.cursor \in Nat
    BY DEF Row, View
<1> QED
    BY <1>1 DEF ViewOK

(* An event is read where its status has become the row's.                   *)
LEMMA EventKnown ==
    ASSUME NEW a \in AgentRun, NEW rw \in Row, NEW m, StoryOK(a), RowOK(rw, m, a.log),
           NEW n \in 1..rw.last, StatusOf(a.log[n]) \in Terminal
    PROVE  n = rw.last /\ n = Len(a.log) /\ rw.status = StatusOf(a.log[n])
PROOF
<1>1. rw.last \in Nat /\ Len(a.log) \in Nat /\ n \in 1..Len(a.log)
    BY DEF Row, AgentRun, RowOK
<1> QED
    BY <1>1 DEF StoryOK, RowOK

LEMMA StatusOfTyped == \A kind : StatusOf(kind) \in Statuses \ {"none"}
PROOF
    BY DEF StatusOf, Statuses, Terminal

(* An event comes to a page that reads.                                      *)
LEMMA ReadKeeps ==
    ASSUME NEW v \in View, NEW a \in AgentRun, NEW rw \in Row, NEW m,
           ViewOK(v, rw, m), v.pc = "live", StoryOK(a), RowOK(rw, m, a.log), NEW n \in 1..rw.last
    PROVE  /\ Read(v, n, a.log[n]) \in View /\ ViewOK(Read(v, n, a.log[n]), rw, m)
           /\ Read(v, n, a.log[n]).pc \in {"live", "refreshing"}
PROOF
<1> DEFINE kind == a.log[n]
           w == Read(v, n, kind)
<1>1. v.cursor \in Nat /\ rw.last \in Nat /\ v.text \in Seq(Nat) /\ n \in Nat
    BY DEF View, Row
<1>2. CASE n <= v.cursor
    BY <1>2 DEF Read
<1>3. CASE ~(n <= v.cursor)
    <2> DEFINE over == StatusOf(kind) \in Terminal
               text == IF kind = "delta" THEN Append(v.text, n) ELSE v.text
    <2>1. w = [v EXCEPT !.cursor = n, !.text = text,
                        !.shows = IF over THEN StatusOf(kind) ELSE @,
                        !.pc = IF over THEN "refreshing" ELSE @]
        BY <1>3 DEF Read
    <2>2. over => rw.status = StatusOf(kind)
        BY EventKnown
    <2>3. text \in Seq(Nat) /\ Increasing(text) /\ \A i \in DOMAIN text : text[i] <= n
        <3>1. /\ \A i \in DOMAIN v.text : v.text[i] <= v.cursor /\ v.text[i] \in Nat
              /\ \A i, j \in DOMAIN v.text : i < j => v.text[i] < v.text[j]
              /\ DOMAIN v.text = 1..Len(v.text) /\ Len(v.text) \in Nat
            BY <1>1 DEF ViewOK, Increasing
        <3>2. CASE kind = "delta"
            <4>1. /\ text \in Seq(Nat) /\ DOMAIN text = 1..(Len(v.text) + 1)
                  /\ \A i \in 1..Len(v.text) : text[i] = v.text[i]
                  /\ text[Len(v.text) + 1] = n
                BY <1>1, <3>2
            <4> HIDE DEF text
            <4>2. \A i \in DOMAIN text : text[i] <= n /\ (i \in 1..Len(v.text) => text[i] < n)
                <5> TAKE i \in DOMAIN text
                <5>1. i \in 1..Len(v.text) \/ i = Len(v.text) + 1
                    BY ONLY <4>1, <3>1, i \in DOMAIN text
                <5>2. CASE i \in 1..Len(v.text)
                    <6>1. text[i] <= v.cursor /\ text[i] \in Nat
                        BY <5>2, <4>1, <3>1, Zenon
                    <6> QED
                        BY ONLY <6>1, <1>1, <1>3
                <5>3. CASE i = Len(v.text) + 1
                    <6>1. text[i] = n /\ i \notin 1..Len(v.text)
                        BY ONLY <5>3, <4>1, <3>1
                    <6> QED
                        BY ONLY <6>1, <1>1
                <5> QED
                    BY <5>1, <5>2, <5>3, Zenon
            <4>3. \A i, j \in DOMAIN text : i < j => text[i] < text[j]
                <5> SUFFICES ASSUME NEW i \in DOMAIN text, NEW j \in DOMAIN text, i < j
                             PROVE  text[i] < text[j]
                    OBVIOUS
                <5>1. i \in 1..(Len(v.text) + 1) /\ j \in 1..(Len(v.text) + 1) /\ Len(v.text) \in Nat
                    BY <4>1, <3>1
                <5>2. i \in 1..Len(v.text) /\ (j \in 1..Len(v.text) \/ j = Len(v.text) + 1)
                    BY ONLY <5>1, i < j
                <5>3. CASE j \in 1..Len(v.text)
                    BY <5>2, <5>3, <4>1, <3>1
                <5>4. CASE j = Len(v.text) + 1
                    BY <5>2, <5>4, <4>1, <4>2
                <5> QED
                    BY <5>2, <5>3, <5>4
            <4> QED
                BY <4>1, <4>2, <4>3 DEF Increasing
        <3>3. CASE kind # "delta"
            <4>1. text = v.text
                BY <3>3
            <4> HIDE DEF text
            <4> QED
                BY <4>1, <3>1, <1>1, <1>3 DEF ViewOK
        <3> QED
            BY <3>2, <3>3
    <2> HIDE DEF text, over
    <2>4. w.cursor = n /\ w.text = text
        BY <2>1 DEF View
    <2>5. w.shows = (IF over THEN StatusOf(kind) ELSE v.shows) /\ w.pc = (IF over THEN "refreshing" ELSE v.pc)
        BY <2>1 DEF View
    <2>6. w \in View
        <3>1. StatusOf(kind) \in Statuses
            BY StatusOfTyped
        <3> DEFINE pc == IF over THEN "refreshing" ELSE v.pc
                   shows == IF over THEN StatusOf(kind) ELSE v.shows
        <3>2. /\ pc \in {"closed", "submitting", "opening", "live", "refreshing", "ended", "kept"}
              /\ shows \in {"IDLE", "SUBMITTING", "STREAMING"} \cup Statuses
            BY <3>1 DEF View
        <3>3. w = [v EXCEPT !.cursor = n, !.text = text, !.shows = shows, !.pc = pc]
            BY <2>1 DEF View
        <3> HIDE DEF pc, shows, w
        <3> QED
            BY <3>2, <3>3, <2>3, <1>1 DEF View
    <2> HIDE DEF w, kind
    <2>7. ViewOK(w, rw, m)
        BY <2>2, <2>3, <2>4, <2>5, <1>1 DEF ViewOK
    <2>8. w.pc \in {"live", "refreshing"}
        BY <2>5
    <2> QED
        BY <2>6, <2>7, <2>8 DEF w, kind
<1> QED
    BY <1>2, <1>3

LEMMA AgainKeeps ==
    ASSUME NEW v \in View, NEW rw \in Row, NEW m, ViewOK(v, rw, m), v.pc \in {"live", "opening"}
    PROVE  Again(v) \in View /\ ViewOK(Again(v), rw, m) /\ Again(v).pc # "live"
PROOF
<1>1. CASE v.tries < MaxReconnects
    <2> DEFINE w == [v EXCEPT !.pc = "opening", !.tries = @ + 1]
    <2>1. v.tries + 1 \in Nat
        BY DEF View
    <2>2. w \in View /\ w.pc = "opening" /\ w.text = v.text /\ w.shows = v.shows /\ w.cursor = v.cursor
        BY <2>1 DEF View
    <2> HIDE DEF w
    <2>3. ViewOK(w, rw, m)
        BY <2>2 DEF ViewOK
    <2> QED
        BY <2>2, <2>3, <1>1 DEF Again, w
<1>2. CASE ~(v.tries < MaxReconnects)
    <2> DEFINE w == [v EXCEPT !.pc = "refreshing", !.shows = "FAILED"]
    <2>1. w \in View /\ w.pc = "refreshing" /\ w.text = v.text /\ w.shows = "FAILED" /\ w.cursor = v.cursor
        BY DEF View, Statuses, Terminal
    <2> HIDE DEF w
    <2>2. ViewOK(w, rw, m)
        BY <2>1 DEF ViewOK
    <2> QED
        BY <2>1, <2>2, <1>2 DEF Again, w
<1> QED
    BY <1>1, <1>2

(* The stored events after the cursor come to a page after the end.          *)
LEMMA ReplayKeeps ==
    ASSUME Types, RowOK(row, msg, agent.log), NEW v \in View, ViewOK(v, row, msg), v.pc = "opening"
    PROVE  /\ Replayed(v) \in View /\ ViewOK(Replayed(v), row, msg) /\ Replayed(v).pc # "live"
PROOF
<1> DEFINE ends == row.last > v.cursor /\ StatusOf(agent.log[row.last]) \in Terminal
           more == Pieces(v.cursor + 1, row.last)
           text == v.text \o more
           w    == [v EXCEPT !.pc = "refreshing", !.shows = row.status, !.cursor = row.last,
                             !.text = @ \o more]
<1>1. /\ v.cursor \in Nat /\ v.cursor + 1 \in Nat /\ row.last \in Nat /\ row.status \in Statuses
      /\ v.text \in Seq(Nat)
    BY DEF View, Row, Types
<1>2. CASE ends
    <2>1. Replayed(v) = w
        BY <1>2 DEF Replayed
    <2>2. more = PiecesIn(agent.log, v.cursor + 1, row.last)
        BY PiecesAreIn
    <2>3. /\ more \in Seq(Nat) /\ Increasing(more)
          /\ \A i \in DOMAIN more : more[i] \in (v.cursor + 1)..row.last
        <3> HIDE DEF more
        <3> QED
            BY <2>2, <1>1, PiecesInOrder
    <2>4. /\ Increasing(v.text) /\ \A i \in DOMAIN v.text : v.text[i] <= v.cursor /\ v.text[i] \in Nat
        BY <1>1 DEF ViewOK
    <2> HIDE DEF more
    <2>5. /\ text \in Seq(Nat) /\ DOMAIN text = 1..(Len(v.text) + Len(more))
          /\ \A i \in 1..Len(v.text) : text[i] = v.text[i]
          /\ \A i \in DOMAIN text : i > Len(v.text) => i - Len(v.text) \in DOMAIN more
                                                       /\ text[i] = more[i - Len(v.text)]
          /\ DOMAIN v.text = 1..Len(v.text) /\ Len(v.text) \in Nat
        BY <1>1, <2>3
    <2> HIDE DEF text
    <2>6. Increasing(text)
        <3> SUFFICES ASSUME NEW i \in DOMAIN text, NEW j \in DOMAIN text, i < j
                     PROVE  text[i] < text[j]
            BY DEF Increasing
        <3>1. i \in Nat /\ j \in Nat
            BY <2>3, <2>5
        <3>2. CASE j <= Len(v.text)
            <4>1. i \in 1..Len(v.text) /\ j \in 1..Len(v.text)
                <5>1. i >= 1 /\ i <= Len(v.text) /\ j >= 1
                    BY <3>1, <3>2, <2>5
                <5> QED
                    BY <3>1, <3>2, <5>1, <2>5
            <4>2. text[i] = v.text[i] /\ text[j] = v.text[j]
                BY <4>1, <2>5, Zenon
            <4>3. v.text[i] < v.text[j]
                BY <4>1, <2>4, <2>5, Zenon DEF Increasing
            <4> QED
                BY <4>2, <4>3, Zenon
        <3>3. CASE i <= Len(v.text) /\ j > Len(v.text)
            <4>1. text[i] <= v.cursor /\ text[i] \in Nat
                BY <3>1, <3>3, <2>4, <2>5
            <4>2. text[j] \in (v.cursor + 1)..row.last
                BY <3>3, <2>3, <2>5
            <4> QED
                BY <4>1, <4>2, <1>1
        <3>4. CASE i > Len(v.text)
            <4> DEFINE k == i - Len(v.text)
                       l == j - Len(v.text)
            <4>1. j > Len(v.text)
                BY <3>1, <3>4, <2>5
            <4>2. k \in DOMAIN more /\ l \in DOMAIN more /\ text[i] = more[k] /\ text[j] = more[l]
                BY <3>4, <4>1, <2>5
            <4>3. k < l
                BY <3>1, <2>5
            <4> HIDE DEF k, l
            <4> QED
                BY <4>2, <4>3, <2>3 DEF Increasing
        <3> QED
            BY <3>1, <3>2, <3>3, <3>4, <2>5
    <2>7. w.pc = "refreshing" /\ w.shows = row.status /\ w.cursor = row.last /\ w.text = text
        BY DEF View, text
    <2>8. w \in View
        <3>1. w = [v EXCEPT !.pc = "refreshing", !.shows = row.status, !.cursor = row.last, !.text = text]
            BY DEF text, View
        <3> HIDE DEF w
        <3> QED
            BY <3>1, <2>5, <1>1 DEF View
    <2> HIDE DEF w
    <2>9. ViewOK(w, row, msg)
        BY <2>6, <2>7, <1>1 DEF ViewOK
    <2> QED
        BY <2>1, <2>7, <2>8, <2>9
<1>3. CASE ~ends
    <2>1. Replayed(v) = Again(v)
        BY <1>3 DEF Replayed
    <2>2. row \in Row
        BY DEF Types
    <2> QED
        BY <2>1, <2>2, AgainKeeps
<1> QED
    BY <1>2, <1>3

(* The subscriptions of some pages are given up, or go, and these read no more. *)
LEMMA OwnedAfter ==
    ASSUME Types, Owned(sess, page), NEW P, Nobody \notin P,
           \A s \in Sessions : sess'[s].owner = IF sess[s].owner \in P THEN Nobody ELSE sess[s].owner,
           \A p \in Pages : IF p \in P THEN page'[p].pc # "live"
                                       ELSE page'[p].pc = "live" <=> page[p].pc = "live"
    PROVE  Owned(sess', page')
PROOF
<1>1. \A s \in Sessions : sess[s].owner \in Pages \cup {Nobody}
    BY DEF Types, Subscription
<1>2. ASSUME NEW s \in Sessions, NEW t \in Sessions, sess'[s].owner = sess'[t].owner
      PROVE  s = t \/ sess'[s].owner = Nobody
    BY <1>2 DEF Owned
<1>3. ASSUME NEW p \in Pages
      PROVE  (page'[p].pc = "live") <=> \E s \in Sessions : sess'[s].owner = p
    <2>1. p # Nobody
        BY CustomerAssumption
    <2>2. CASE p \in P
        BY <2>1, <2>2
    <2>3. CASE p \notin P
        BY <2>1, <2>3 DEF Owned
    <2> QED
        BY <2>2, <2>3
<1> QED
    BY <1>2, <1>3 DEF Owned

(* The common frame of the steps that leave row and message alone: the rest   *)
(* holds when it holds of the subscriptions and pages the step touched.       *)
LEMMA Frame ==
    ASSUME CustomerInv, UNCHANGED <<row, msg>>, agent' \in AgentRun, call' \in Sending,
           StoryOK(agent'), GoesOn(agent.log, agent'.log), Binding',
           sess' \in [Sessions -> Subscription],
           page' \in [Pages -> View], Owned(sess', page'),
           \A s \in Sessions : sess'[s] = sess[s] \/ SessionOK(sess'[s], row, agent.log),
           \A p \in Pages : page'[p] = page[p] \/ ViewOK(page'[p], row, msg)
    PROVE  CustomerInv'
PROOF
<1> USE DEF CustomerInv
<1>1. Types'
    BY DEF Types
<1>2. /\ agent.log \in Seq(Kind) /\ agent'.log \in Seq(Kind) /\ row \in Row
      /\ row.last \in Nat /\ row.last <= Len(agent.log)
    BY DEF Types, AgentRun, Row, RowOK
<1>3. RowOK(row, msg, agent'.log)
    BY <1>2, RowKept
<1>4. \A s \in Sessions : SessionOK(sess'[s], row, agent'.log)
    <2> SUFFICES ASSUME NEW s \in Sessions PROVE SessionOK(sess'[s], row, agent'.log)
        OBVIOUS
    <2>1. sess'[s] \in Subscription /\ SessionOK(sess'[s], row, agent.log)
        OBVIOUS
    <2>2. row.last <= row.last /\ (Over(row) => Over(row) \/ row.last > 0)
        BY <1>2
    <2> QED
        BY <2>1, <2>2, <1>2, SessionKept
<1>5. \A p \in Pages : ViewOK(page'[p], row, msg)
    OBVIOUS
<1> QED
    BY <1>1, <1>3, <1>4, <1>5

LEMMA LogStays == ASSUME Types PROVE GoesOn(agent.log, agent.log)
PROOF
<1>1. Len(agent.log) \in Nat
    BY DEF Types, AgentRun
<1> QED
    BY <1>1 DEF GoesOn

-----------------------------------------------------------------------------
(* The steps of the Agent.                                                   *)

(* Events are appended only while the log has no end, and the end comes last. *)
LEMMA LogGrows ==
    ASSUME Types, StoryOK(agent), agent.status \in {"PENDING", "RUNNING"},
           NEW status \in Statuses \ {"none"}, NEW kinds \in Seq(Kind), Logged(status, kinds),
           \A i \in 1..Len(kinds) : StatusOf(kinds[i]) \in Terminal =>
                                        i = Len(kinds) /\ status = StatusOf(kinds[i])
    PROVE  agent' \in AgentRun /\ StoryOK(agent') /\ GoesOn(agent.log, agent'.log)
PROOF
<1> DEFINE log == agent.log \o kinds
<1>1. agent.log \in Seq(Kind) /\ Len(agent.log) \in Nat /\ Len(kinds) \in Nat
    BY DEF Types, AgentRun
<1>2. agent' = [status |-> status, log |-> log]
    BY DEF Logged
<1>3. /\ log \in Seq(Kind) /\ Len(log) = Len(agent.log) + Len(kinds)
      /\ \A i \in 1..Len(agent.log) : log[i] = agent.log[i]
      /\ \A i \in 1..Len(log) : i > Len(agent.log) =>
              i - Len(agent.log) \in 1..Len(kinds) /\ log[i] = kinds[i - Len(agent.log)]
    BY <1>1
<1> HIDE DEF log
<1>4. agent' \in AgentRun
    BY <1>2, <1>3 DEF AgentRun
<1>5. \A i \in 1..Len(agent.log) : StatusOf(agent.log[i]) \notin Terminal
    BY DEF StoryOK, Terminal
<1>6. ASSUME NEW i \in 1..Len(log), StatusOf(log[i]) \in Terminal
      PROVE  i = Len(log) /\ status = StatusOf(log[i])
    <2>1. i > Len(agent.log)
        BY <1>1, <1>3, <1>5, <1>6
    <2> DEFINE j == i - Len(agent.log)
    <2>2. j \in 1..Len(kinds) /\ log[i] = kinds[j]
        BY <2>1, <1>3
    <2>3. j = Len(kinds) /\ status = StatusOf(kinds[j])
        BY <2>2, <1>6
    <2> QED
        BY <2>2, <2>3, <1>1, <1>3
<1>7. StoryOK(agent')
    BY <1>2, <1>6 DEF StoryOK
<1>8. GoesOn(agent.log, agent'.log)
    BY <1>1, <1>2, <1>3 DEF GoesOn
<1> QED
    BY <1>4, <1>7, <1>8

(* A step of the Agent's task changes nothing but the Run and its log.        *)
LEMMA AgentKeeps ==
    ASSUME CustomerInv, UNCHANGED <<call, row, msg, sess, page>>,
           agent' \in AgentRun, StoryOK(agent'), GoesOn(agent.log, agent'.log)
    PROVE  CustomerInv'
PROOF
<1>1. Binding'
    BY DEF CustomerInv, Binding
<1> QED
    BY <1>1, Frame DEF CustomerInv, Types

LEMMA KindsOf ==
    /\ StatusOf("started") = "RUNNING" /\ StatusOf("step") = "RUNNING" /\ StatusOf("delta") = "RUNNING"
    /\ StatusOf("accepted") = "PENDING" /\ StatusOf("completed") = "SUCCEEDED"
    /\ StatusOf("failed") = "FAILED" /\ StatusOf("cancelled") = "CANCELLED"
PROOF
    BY DEF StatusOf

LEMMA TaskSteps ==
    ASSUME CustomerInv, Start \/ Work \/ Publish \/ Fail
    PROVE  CustomerInv'
PROOF
<1> USE DEF CustomerInv
<1>1. {"RUNNING", "SUCCEEDED", "FAILED", "CANCELLED"} \subseteq Statuses \ {"none"}
    BY DEF Statuses, Terminal
<1>2. \A kind \in Kind : <<kind>> \in Seq(Kind) /\ Len(<<kind>>) = 1 /\ <<kind>>[1] = kind
    OBVIOUS
<1>3. CASE Start
    <2>1. <<"started">> \in Seq(Kind) /\ Len(<<"started">>) = 1 /\ <<"started">>[1] = "started"
        BY <1>2 DEF Kind
    <2>2. \A i \in 1..Len(<<"started">>) : StatusOf(<<"started">>[i]) \notin Terminal
        BY <2>1, KindsOf DEF Terminal
    <2>3. agent' \in AgentRun /\ StoryOK(agent') /\ GoesOn(agent.log, agent'.log)
        BY <1>1, <1>3, <2>1, <2>2, LogGrows DEF Start
    <2> QED
        BY <1>3, <2>3, AgentKeeps DEF Start
<1>4. CASE Work
    <2>1. PICK kind \in {"step", "delta"} : Logged("RUNNING", <<kind>>)
        BY <1>4 DEF Work
    <2>2. <<kind>> \in Seq(Kind) /\ Len(<<kind>>) = 1 /\ <<kind>>[1] = kind
        BY <1>2 DEF Kind
    <2>3. \A i \in 1..Len(<<kind>>) : StatusOf(<<kind>>[i]) \notin Terminal
        BY <2>1, <2>2, KindsOf DEF Terminal
    <2>4. agent' \in AgentRun /\ StoryOK(agent') /\ GoesOn(agent.log, agent'.log)
        BY <1>1, <1>4, <2>1, <2>2, <2>3, LogGrows DEF Work
    <2> QED
        BY <1>4, <2>4, AgentKeeps DEF Work
<1>5. CASE Publish
    <2>1. PICK rest \in {<<>>, <<"delta">>} : Logged("SUCCEEDED", rest \o <<"completed">>)
        BY <1>5 DEF Publish, Remaining
    <2> DEFINE kinds == rest \o <<"completed">>
    <2>2. /\ kinds \in Seq(Kind) /\ Len(kinds) \in 1..2 /\ kinds[Len(kinds)] = "completed"
          /\ Len(kinds) = 2 => kinds[1] = "delta"
        <3>1. CASE rest = <<>>
            BY <3>1 DEF Kind
        <3>2. CASE rest = <<"delta">>
            BY <3>2 DEF Kind
        <3> QED
            BY <2>1, <3>1, <3>2
    <2> HIDE DEF kinds
    <2>3. \A i \in 1..Len(kinds) : StatusOf(kinds[i]) \in Terminal =>
                                       i = Len(kinds) /\ "SUCCEEDED" = StatusOf(kinds[i])
        BY <2>2, KindsOf DEF Terminal
    <2>4. Logged("SUCCEEDED", kinds)
        BY <2>1 DEF kinds
    <2>5. agent' \in AgentRun /\ StoryOK(agent') /\ GoesOn(agent.log, agent'.log)
        BY <1>1, <1>5, <2>2, <2>3, <2>4, LogGrows DEF Publish
    <2> QED
        BY <1>5, <2>5, AgentKeeps DEF Publish
<1>6. CASE Fail
    <2>1. <<"failed">> \in Seq(Kind) /\ Len(<<"failed">>) = 1 /\ <<"failed">>[1] = "failed"
        BY <1>2 DEF Kind
    <2>2. \A i \in 1..Len(<<"failed">>) : StatusOf(<<"failed">>[i]) \in Terminal =>
              i = Len(<<"failed">>) /\ "FAILED" = StatusOf(<<"failed">>[i])
        BY <2>1, KindsOf
    <2>3. agent' \in AgentRun /\ StoryOK(agent') /\ GoesOn(agent.log, agent'.log)
        BY <1>1, <1>6, <2>1, <2>2, LogGrows DEF Fail
    <2> QED
        BY <1>6, <2>3, AgentKeeps DEF Fail
<1> QED
    BY <1>3, <1>4, <1>5, <1>6

LEMMA ErredKeeps ==
    ASSUME NEW v \in View, NEW rw, NEW m, ViewOK(v, rw, m)
    PROVE  LET w == [v EXCEPT !.pc = "refreshing", !.shows = "FAILED"]
           IN  w \in View /\ ViewOK(w, rw, m) /\ w.pc # "live"
PROOF
<1> DEFINE w == [v EXCEPT !.pc = "refreshing", !.shows = "FAILED"]
<1>1. w \in View /\ w.pc = "refreshing" /\ w.text = v.text /\ w.shows = "FAILED" /\ w.cursor = v.cursor
    BY DEF View, Statuses, Terminal
<1> HIDE DEF w
<1>2. ViewOK(w, rw, m)
    BY <1>1 DEF ViewOK
<1> QED
    BY <1>1, <1>2 DEF w

(* Pages whose stream ended in an error read no more.                        *)
LEMMA ErredPages ==
    ASSUME CustomerInv, NEW P, Erred(P)
    PROVE  /\ page' \in [Pages -> View]
           /\ \A p \in Pages : page'[p] = page[p] \/ ViewOK(page'[p], row, msg)
           /\ \A p \in Pages : IF p \in P THEN page'[p].pc # "live" ELSE page'[p] = page[p]
PROOF
<1>1. \A p \in Pages : page[p] \in View /\ ViewOK(page[p], row, msg)
    BY DEF CustomerInv, Types
<1> DEFINE W(v) == [v EXCEPT !.pc = "refreshing", !.shows = "FAILED"]
<1>2. \A p \in Pages : W(page[p]) \in View /\ ViewOK(W(page[p]), row, msg) /\ W(page[p]).pc # "live"
    BY <1>1, ErredKeeps
<1>3. page' = [p \in Pages |-> IF p \in P THEN W(page[p]) ELSE page[p]]
    BY DEF Erred
<1> HIDE DEF W
<1> QED
    BY <1>1, <1>2, <1>3

LEMMA RestartStep ==
    ASSUME CustomerInv, Restart
    PROVE  CustomerInv'
PROOF
<1> USE DEF CustomerInv
<1>1. agent' = [agent EXCEPT !.status = "lost"] /\ UNCHANGED <<call, row, msg>>
    BY DEF Restart
<1>2. agent' \in AgentRun /\ agent'.log = agent.log /\ agent'.status = "lost"
    BY <1>1 DEF Types, AgentRun
<1>3. StoryOK(agent') /\ GoesOn(agent.log, agent'.log)
    BY <1>2, LogStays DEF StoryOK
<1>4. /\ page' \in [Pages -> View]
      /\ \A p \in Pages : page'[p] = page[p] \/ ViewOK(page'[p], row, msg)
      /\ \A p \in Pages : IF page[p].pc = "live" THEN page'[p].pc # "live" ELSE page'[p] = page[p]
    BY ErredPages DEF Restart
<1>5. sess' = [s \in Sessions |-> Free]
    BY DEF Restart
<1>6. /\ sess' \in [Sessions -> Subscription]
      /\ \A s \in Sessions : SessionOK(sess'[s], row, agent.log) /\ sess'[s] = Free
    BY <1>5, FreeOK
<1>7. Owned(sess', page')
    <2>1. \A s \in Sessions : sess'[s].owner = Nobody
        BY <1>6 DEF Free
    <2>2. \A p \in Pages : page'[p].pc # "live" /\ p # Nobody
        BY <1>4, CustomerAssumption
    <2> QED
        BY <2>1, <2>2 DEF Owned
<1>8. Binding'
    BY <1>1, <1>6 DEF Binding
<1> QED
    BY <1>1, <1>2, <1>3, <1>4, <1>6, <1>7, <1>8, Frame DEF Types

-----------------------------------------------------------------------------
(* The steps of a submission, before the Run is bound.                       *)

(* Before the binding, nothing was projected and nobody subscribed.          *)
LEMMA UnboundFrame ==
    ASSUME CustomerInv, ~row.bound, UNCHANGED sess,
           agent' \in AgentRun, StoryOK(agent'), call' \in Sending, Binding',
           row' \in Row, row'.last = 0, msg' \in Message, msg'.text = <<>>,
           page' \in [Pages -> View],
           \A p \in Pages : page'[p] = page[p]
                            \/ (ViewOK(page'[p], row', msg') /\ page'[p].pc # "live")
    PROVE  CustomerInv'
PROOF
<1> USE DEF CustomerInv
<1>1. row.last = 0 /\ row.status # "SUCCEEDED" /\ row \in Row /\ \A s \in Sessions : sess[s] = Free
    BY DEF Binding, Types
<1>2. Types'
    BY DEF Types
<1>3. RowOK(row', msg', agent'.log)
    <2>1. Len(agent'.log) \in Nat
        BY DEF AgentRun
    <2>2. PiecesIn(agent'.log, 1, 0) = <<>>
        BY PiecesLaw
    <2> QED
        BY <2>1, <2>2 DEF RowOK
<1>4. \A s \in Sessions : SessionOK(sess'[s], row', agent'.log)
    BY <1>1, FreeOK
<1>5. \A p \in Pages : page[p].pc # "live"
    <2>1. \A s \in Sessions : sess[s].owner = Nobody
        BY <1>1 DEF Free
    <2> QED
        BY <2>1, CustomerAssumption DEF Owned
<1>6. Owned(sess', page')
    <2>1. \A s \in Sessions : sess'[s].owner = sess[s].owner
        OBVIOUS
    <2>2. \A p \in Pages : page'[p].pc = "live" <=> page[p].pc = "live"
        BY <1>5
    <2> QED
        BY <2>1, <2>2 DEF Owned
<1>7. ASSUME NEW p \in Pages
      PROVE  ViewOK(page'[p], row', msg')
    <2>1. CASE page'[p] = page[p]
        <3>1. page[p] \in View /\ ViewOK(page[p], row, msg) /\ row.last <= row'.last
            BY <1>1 DEF Types
        <3>2. ViewOK(page[p], row', msg')
            BY <3>1, <1>1, ViewKept
        <3> QED
            BY <2>1, <3>2
    <2>2. CASE ViewOK(page'[p], row', msg')
        BY <2>2
    <2> QED
        BY <2>1, <2>2
<1> QED
    BY <1>2, <1>3, <1>4, <1>6, <1>7

LEMMA StartOfText ==
    ASSUME CustomerInv, ~row.bound
    PROVE  msg.text = <<>> /\ row.last = 0
PROOF
    BY PiecesLaw DEF CustomerInv, Binding, RowOK

(* A page that starts anew.                                                  *)
LEMMA BlankKeeps ==
    ASSUME NEW v \in View, v.cursor = 0, v.text = <<>>, v.shows # "SUCCEEDED",
           NEW rw \in Row, NEW m
    PROVE  ViewOK(v, rw, m)
PROOF
<1>1. rw.last \in Nat /\ DOMAIN v.text = {}
    BY DEF Row
<1> QED
    BY <1>1 DEF ViewOK, Increasing

LEMMA ClosedTyped ==
    /\ Closed \in View /\ Closed.cursor = 0 /\ Closed.text = <<>>
    /\ \A pc \in {"submitting", "opening", "ended"}, shows \in {"SUBMITTING", "STREAMING", "FAILED"} :
            LET v == [Closed EXCEPT !.pc = pc, !.shows = shows]
            IN  v \in View /\ v.cursor = 0 /\ v.text = <<>> /\ v.shows = shows /\ v.pc = pc
PROOF
<1>1. <<>> \in Seq(Nat) /\ 0 \in Nat
    OBVIOUS
<1>2. Closed \in View /\ Closed.cursor = 0 /\ Closed.text = <<>>
    BY <1>1 DEF Closed, View
<1>3. {"SUBMITTING", "STREAMING", "FAILED"} \subseteq {"IDLE", "SUBMITTING", "STREAMING"} \cup Statuses
    BY DEF Statuses, Terminal
<1>4. ASSUME NEW pc \in {"submitting", "opening", "ended"},
             NEW shows \in {"SUBMITTING", "STREAMING", "FAILED"}
      PROVE  LET v == [Closed EXCEPT !.pc = pc, !.shows = shows]
             IN  v \in View /\ v.cursor = 0 /\ v.text = <<>> /\ v.shows = shows /\ v.pc = pc
    BY <1>2, <1>3 DEF View
<1> QED
    BY <1>2, <1>4

\* The page that asked learns of the answer.
LEMMA AnsweredPages ==
    ASSUME Types, NEW v \in View, Answered(v)
    PROVE  /\ page' \in [Pages -> View]
           /\ \A p \in Pages : page'[p] = page[p] \/ page'[p] = v
PROOF
    BY DEF Types, Answered

LEMMA SubmitStep ==
    ASSUME CustomerInv, NEW p \in Pages, Submit(p)
    PROVE  CustomerInv'
PROOF
<1> USE DEF CustomerInv
<1> DEFINE v == [Closed EXCEPT !.pc = "submitting", !.shows = "SUBMITTING"]
<1>1. /\ call' = [call EXCEPT !.pc = "sending", !.by = p] /\ call.pc = "idle"
      /\ row' = [row EXCEPT !.status = "PENDING"]
      /\ msg' = [msg EXCEPT !.status = "PENDING"]
      /\ page' = [page EXCEPT ![p] = v]
      /\ UNCHANGED <<agent, sess>>
    BY DEF Submit
<1>2. ~row.bound /\ row \in Row /\ call \in Sending
    BY <1>1 DEF Binding, Types
<1>3. call' \in Sending /\ call'.pc = "sending"
    BY <1>1, <1>2 DEF Sending
<1>4. row' \in Row /\ row'.last = row.last /\ row'.bound = row.bound /\ row'.status = "PENDING"
    BY <1>1, <1>2 DEF Row, Statuses
<1>5. msg' \in Message /\ msg'.text = msg.text
    BY <1>1 DEF Types, Message
<1>6. v \in View /\ v.cursor = 0 /\ v.text = <<>> /\ v.shows = "SUBMITTING" /\ v.pc = "submitting"
    BY ClosedTyped
<1> HIDE DEF v
<1>7. page' \in [Pages -> View] /\ \A q \in Pages : page'[q] = page[q] \/ page'[q] = v
    BY <1>1, <1>6 DEF Types
<1>8. ViewOK(v, row', msg')
    BY <1>4, <1>6, BlankKeeps
<1>9. Binding'
    BY <1>1, <1>2, <1>3, <1>4 DEF Binding
<1> HIDE DEF CustomerInv
<1>10. /\ agent' \in AgentRun /\ StoryOK(agent') /\ call' \in Sending /\ Binding' /\ UNCHANGED sess
      /\ row' \in Row /\ row'.last = 0 /\ msg' \in Message /\ msg'.text = <<>>
      /\ page' \in [Pages -> View]
    BY <1>1, <1>2, <1>3, <1>4, <1>5, <1>6, <1>7, <1>8, <1>9, StartOfText DEF CustomerInv, Types
<1>11. \A q \in Pages : page'[q] = page[q] \/ (ViewOK(page'[q], row', msg') /\ page'[q].pc # "live")
    BY <1>6, <1>7, <1>8
<1> QED
    BY <1>2, <1>10, <1>11, UnboundFrame

LEMMA AcceptStep ==
    ASSUME CustomerInv, Accept
    PROVE  CustomerInv'
PROOF
<1> USE DEF CustomerInv
<1> DEFINE fresh == [status |-> "PENDING", log |-> <<"accepted">>]
<1>1. /\ call.pc = "sending"
      /\ agent' = IF agent.status \in {"none", "lost"} THEN fresh ELSE agent
      /\ call' = [call EXCEPT !.pc = "accepted", !.reply = agent'.status]
      /\ UNCHANGED <<row, msg, sess, page>>
    BY DEF Accept
<1>2. fresh \in AgentRun /\ StoryOK(fresh) /\ fresh.status = "PENDING"
    <2>1. <<"accepted">> \in Seq(Kind)
        BY DEF Kind
    <2>2. fresh \in AgentRun
        BY <2>1 DEF AgentRun, Statuses
    <2>3. Len(<<"accepted">>) = 1 /\ <<"accepted">>[1] = "accepted"
        OBVIOUS
    <2>4. StoryOK(fresh)
        BY <2>3, KindsOf DEF StoryOK, Terminal
    <2> QED
        BY <2>2, <2>4
<1> HIDE DEF fresh
<1>3. agent' \in AgentRun /\ StoryOK(agent') /\ agent'.status \in Statuses \ {"none"}
    BY <1>1, <1>2 DEF Types, AgentRun, Statuses
<1>4. ~row.bound /\ call \in Sending
    BY <1>1 DEF Binding, Types
<1>5. call' \in Sending /\ call'.pc = "accepted" /\ call'.reply = agent'.status
    BY <1>1, <1>3, <1>4 DEF Sending
<1>6. Binding'
    BY <1>1, <1>3, <1>4, <1>5 DEF Binding
<1> HIDE DEF CustomerInv
<1>7. /\ agent' \in AgentRun /\ StoryOK(agent') /\ call' \in Sending /\ Binding' /\ UNCHANGED sess
      /\ row' \in Row /\ row'.last = 0 /\ msg' \in Message /\ msg'.text = <<>>
      /\ page' \in [Pages -> View]
    BY <1>1, <1>2, <1>3, <1>4, <1>5, <1>6, StartOfText DEF CustomerInv, Types
<1>8. \A q \in Pages : page'[q] = page[q] \/ (ViewOK(page'[q], row', msg') /\ page'[q].pc # "live")
    BY <1>1
<1> QED
    BY <1>4, <1>7, <1>8, UnboundFrame

LEMMA LoseAnswerStep ==
    ASSUME CustomerInv, LoseAnswer
    PROVE  CustomerInv'
PROOF
<1> USE DEF CustomerInv
<1>1. call.pc \in {"sending", "accepted"} /\ UNCHANGED <<agent, row, msg, sess, page>>
    BY DEF LoseAnswer
<1>2. ~row.bound /\ call \in Sending
    BY <1>1 DEF Binding, Types
<1>3. call' \in Sending /\ call'.pc \in {"sending", "failing"}
    BY <1>2 DEF LoseAnswer, Sending
<1>4. Binding'
    BY <1>1, <1>2, <1>3 DEF Binding
<1> HIDE DEF CustomerInv
<1>5. /\ agent' \in AgentRun /\ StoryOK(agent') /\ call' \in Sending /\ Binding' /\ UNCHANGED sess
      /\ row' \in Row /\ row'.last = 0 /\ msg' \in Message /\ msg'.text = <<>>
      /\ page' \in [Pages -> View]
    BY <1>1, <1>2, <1>3, <1>4, StartOfText DEF CustomerInv, Types
<1>6. \A q \in Pages : page'[q] = page[q] \/ (ViewOK(page'[q], row', msg') /\ page'[q].pc # "live")
    BY <1>1
<1> QED
    BY <1>2, <1>5, <1>6, UnboundFrame

LEMMA DoneTyped == Done \in Sending /\ Done.pc = "done"
PROOF
    BY DEF Done, Sending, Statuses

LEMMA BindStep ==
    ASSUME CustomerInv, Bind
    PROVE  CustomerInv'
PROOF
<1> USE DEF CustomerInv
<1> DEFINE v == [Closed EXCEPT !.pc = "opening", !.shows = "STREAMING"]
<1>1. /\ call.pc = "accepted" /\ row' = [row EXCEPT !.status = call.reply, !.bound = TRUE]
      /\ call' = Done /\ Answered(v) /\ UNCHANGED <<agent, msg, sess>>
    BY DEF Bind
<1>2. ~row.bound /\ row \in Row /\ call \in Sending
    BY <1>1 DEF Binding, Types
<1>3. row' \in Row /\ row'.last = row.last /\ row'.bound = TRUE
    BY <1>1, <1>2 DEF Row, Sending
<1>4. v \in View /\ v.cursor = 0 /\ v.text = <<>> /\ v.shows = "STREAMING" /\ v.pc = "opening"
    BY ClosedTyped
<1> HIDE DEF v
<1>5. page' \in [Pages -> View] /\ \A q \in Pages : page'[q] = page[q] \/ page'[q] = v
    BY <1>1, <1>4, AnsweredPages
<1>6. ViewOK(v, row', msg')
    BY <1>3, <1>4, BlankKeeps
<1>7. Binding'
    BY <1>1, <1>3, DoneTyped DEF Binding
<1> HIDE DEF CustomerInv
<1>8. /\ agent' \in AgentRun /\ StoryOK(agent') /\ call' \in Sending /\ Binding' /\ UNCHANGED sess
      /\ row' \in Row /\ row'.last = 0 /\ msg' \in Message /\ msg'.text = <<>>
      /\ page' \in [Pages -> View]
    BY <1>1, <1>2, <1>3, <1>4, <1>5, <1>6, <1>7, DoneTyped, StartOfText DEF CustomerInv, Types
<1>9. \A q \in Pages : page'[q] = page[q] \/ (ViewOK(page'[q], row', msg') /\ page'[q].pc # "live")
    BY <1>4, <1>5, <1>6
<1> QED
    BY <1>2, <1>8, <1>9, UnboundFrame

LEMMA FailRowStep ==
    ASSUME CustomerInv, FailRow
    PROVE  CustomerInv'
PROOF
<1> USE DEF CustomerInv
<1>1. /\ call.pc = "failing"
      /\ row' = IF row.last = 0 /\ ~Over(row) THEN [row EXCEPT !.status = "FAILED"] ELSE row
      /\ call' = [call EXCEPT !.pc = "failed"] /\ UNCHANGED <<agent, msg, sess, page>>
    BY DEF FailRow
<1>2. ~row.bound /\ row \in Row /\ call \in Sending
    BY <1>1 DEF Binding, Types
<1>3. /\ row' \in Row /\ row'.last = row.last /\ row'.bound = row.bound
      /\ row'.status \in {row.status, "FAILED"}
    BY <1>1, <1>2 DEF Row, Statuses, Terminal
<1>4. call' \in Sending /\ call'.pc = "failed"
    BY <1>1, <1>2 DEF Sending
<1>5. Binding'
    BY <1>1, <1>2, <1>3, <1>4 DEF Binding
<1> HIDE DEF CustomerInv
<1>6. /\ agent' \in AgentRun /\ StoryOK(agent') /\ call' \in Sending /\ Binding' /\ UNCHANGED sess
      /\ row' \in Row /\ row'.last = 0 /\ msg' \in Message /\ msg'.text = <<>>
      /\ page' \in [Pages -> View]
    BY <1>1, <1>2, <1>3, <1>4, <1>5, StartOfText DEF CustomerInv, Types
<1>7. \A q \in Pages : page'[q] = page[q] \/ (ViewOK(page'[q], row', msg') /\ page'[q].pc # "live")
    BY <1>1
<1> QED
    BY <1>2, <1>6, <1>7, UnboundFrame

LEMMA FailMessageStep ==
    ASSUME CustomerInv, FailMessage
    PROVE  CustomerInv'
PROOF
<1> USE DEF CustomerInv
<1> DEFINE v == [Closed EXCEPT !.pc = "ended", !.shows = "FAILED"]
<1>1. /\ call.pc = "failed" /\ msg' = [status |-> "FAILED", text |-> <<>>]
      /\ call' = Done /\ Answered(v) /\ UNCHANGED <<agent, row, sess>>
    BY DEF FailMessage
<1>2. ~row.bound /\ row \in Row
    BY <1>1 DEF Binding, Types
<1>3. msg' \in Message /\ msg'.text = <<>>
    BY <1>1 DEF Message
<1>4. v \in View /\ v.cursor = 0 /\ v.text = <<>> /\ v.shows = "FAILED" /\ v.pc = "ended"
    BY ClosedTyped
<1> HIDE DEF v
<1>5. page' \in [Pages -> View] /\ \A q \in Pages : page'[q] = page[q] \/ page'[q] = v
    BY <1>1, <1>4, AnsweredPages
<1>6. ViewOK(v, row', msg')
    BY <1>1, <1>2, <1>4, BlankKeeps
<1>7. Binding'
    BY <1>1, <1>2, DoneTyped DEF Binding
<1> HIDE DEF CustomerInv
<1>8. /\ agent' \in AgentRun /\ StoryOK(agent') /\ call' \in Sending /\ Binding' /\ UNCHANGED sess
      /\ row' \in Row /\ row'.last = 0 /\ msg' \in Message /\ msg'.text = <<>>
      /\ page' \in [Pages -> View]
    BY <1>1, <1>2, <1>3, <1>4, <1>5, <1>6, <1>7, DoneTyped, StartOfText DEF CustomerInv, Types
<1>9. \A q \in Pages : page'[q] = page[q] \/ (ViewOK(page'[q], row', msg') /\ page'[q].pc # "live")
    BY <1>4, <1>5, <1>6
<1> QED
    BY <1>2, <1>8, <1>9, UnboundFrame

-----------------------------------------------------------------------------
(* The steps of a page.                                                      *)

\* What a step of a page leaves alone.
LEMMA PageFrame ==
    ASSUME CustomerInv, UNCHANGED <<agent, call, row, msg>>, Binding',
           sess' \in [Sessions -> Subscription], page' \in [Pages -> View], Owned(sess', page'),
           \A s \in Sessions : sess'[s] = sess[s] \/ SessionOK(sess'[s], row, agent.log),
           \A p \in Pages : page'[p] = page[p] \/ ViewOK(page'[p], row, msg)
    PROVE  CustomerInv'
PROOF
<1>1. agent' \in AgentRun /\ call' \in Sending /\ StoryOK(agent') /\ GoesOn(agent.log, agent'.log)
    BY LogStays DEF CustomerInv, Types
<1> QED
    BY <1>1, Frame

(* Only an answered page changes, and it does not read.                      *)
LEMMA OnePage ==
    ASSUME CustomerInv, UNCHANGED <<agent, call, row, msg, sess>>, NEW p \in Pages, NEW v \in View,
           page' = [page EXCEPT ![p] = v], page[p].pc # "live", v.pc # "live", ViewOK(v, row, msg)
    PROVE  CustomerInv'
PROOF
<1>1. page \in [Pages -> View] /\ sess \in [Sessions -> Subscription]
    BY DEF CustomerInv, Types
<1>2. page' \in [Pages -> View] /\ \A q \in Pages : page'[q] = IF q = p THEN v ELSE page[q]
    BY <1>1
<1>3. Owned(sess', page')
    <2>1. Owned(sess, page)
        BY DEF CustomerInv
    <2>2. \A q \in Pages : page'[q].pc = "live" <=> page[q].pc = "live"
        BY <1>2
    <2> QED
        BY <2>1, <2>2 DEF Owned
<1>4. Binding'
    BY DEF CustomerInv, Binding
<1> QED
    BY <1>1, <1>2, <1>3, <1>4, PageFrame

\* What a page shows of the stored messages is the answer so far, in order.
LEMMA StoredOrdered ==
    ASSUME CustomerInv
    PROVE  /\ row.last \in Nat /\ msg.text \in Seq(Nat) /\ Increasing(msg.text)
           /\ \A i \in DOMAIN msg.text : msg.text[i] <= row.last
PROOF
<1>1. row.last \in Nat /\ msg.text \in Seq(Nat) /\ msg.text = PiecesIn(agent.log, 1, row.last)
    BY DEF CustomerInv, Types, Row, Message, RowOK
<1>2. /\ Increasing(msg.text)
      /\ \A i \in DOMAIN msg.text : msg.text[i] \in 1..row.last
    BY <1>1, PiecesInOrder
<1> QED
    BY <1>1, <1>2

LEMMA OpenStep ==
    ASSUME CustomerInv, NEW p \in Pages, Open(p)
    PROVE  CustomerInv'
PROOF
<1> DEFINE pc == IF Over(row) THEN "ended" ELSE "opening"
           v  == [pc |-> pc, shows |-> Pending, cursor |-> row.last, text |-> msg.text, tries |-> 0]
<1>1. /\ page[p].pc # "live" /\ UNCHANGED <<agent, call, row, msg, sess>>
      /\ page' = [page EXCEPT ![p] = v]
    BY DEF Open, Rests
<1>2. pc \in {"ended", "opening"} /\ Pending \in {"STREAMING", "IDLE"}
    BY DEF Pending
<1> HIDE DEF pc
<1>3. v \in View /\ v.pc # "live"
    BY StoredOrdered, <1>2 DEF View
<1>4. ViewOK(v, row, msg)
    BY StoredOrdered, <1>2 DEF ViewOK
<1> HIDE DEF v
<1> QED
    BY <1>1, <1>3, <1>4, OnePage

LEMMA OpenUnreadStep ==
    ASSUME CustomerInv, NEW p \in Pages, OpenUnread(p)
    PROVE  CustomerInv'
PROOF
<1> DEFINE v == [pc |-> "ended", shows |-> Pending, cursor |-> 0, text |-> msg.text, tries |-> 0]
<1>1. /\ page[p].pc # "live" /\ UNCHANGED <<agent, call, row, msg, sess>>
      /\ page' = [page EXCEPT ![p] = v]
    BY DEF OpenUnread, Rests
<1>2. Pending \in {"STREAMING", "IDLE"}
    BY DEF Pending
<1>3. v \in View /\ v.pc # "live"
    BY StoredOrdered, <1>2 DEF View
<1>4. ViewOK(v, row, msg)
    BY StoredOrdered, <1>2 DEF ViewOK
<1> HIDE DEF v
<1> QED
    BY <1>1, <1>3, <1>4, OnePage

LEMMA RefreshStep ==
    ASSUME CustomerInv, NEW p \in Pages, Refresh(p)
    PROVE  CustomerInv'
PROOF
<1> DEFINE old == page[p]
<1>1. page \in [Pages -> View] /\ old \in View /\ ViewOK(old, row, msg)
    BY DEF CustomerInv, Types
<1>2. old.pc = "refreshing" /\ UNCHANGED <<agent, call, row, msg, sess>>
    BY DEF Refresh
<1>3. CASE page' = [page EXCEPT ![p] = Kept(old)]
    <2> DEFINE v == Kept(old)
    <2>1. /\ v \in View /\ v.pc = "kept" /\ v.text = old.text /\ v.shows = old.shows
          /\ v.cursor = old.cursor
        BY <1>1 DEF Kept, View
    <2>2. page' = [page EXCEPT ![p] = v]
        BY <1>3
    <2> HIDE DEF v, old
    <2>3. ViewOK(v, row, msg)
        BY <1>1, <2>1 DEF ViewOK
    <2> QED
        BY <1>2, <2>1, <2>2, <2>3, OnePage DEF old
<1>4. ASSUME NEW status \in {old.shows, "SUCCEEDED"}, status = "SUCCEEDED" => row.status = "SUCCEEDED",
             page' = [page EXCEPT ![p] = Taken(old, status)]
      PROVE  CustomerInv'
    <2> DEFINE v == Taken(old, status)
    <2>1. status \in {"IDLE", "SUBMITTING", "STREAMING"} \cup Statuses
        BY <1>1 DEF View, Statuses, Terminal
    <2>2. /\ v \in View /\ v.pc = "ended" /\ v.text = msg.text /\ v.shows = status
          /\ v.cursor = old.cursor
        BY <1>1, <2>1, StoredOrdered DEF Taken, View
    <2>3. page' = [page EXCEPT ![p] = v]
        BY <1>4
    <2> HIDE DEF v, old
    <2>4. ViewOK(v, row, msg)
        BY <1>1, <1>4, <2>2, StoredOrdered DEF ViewOK
    <2> QED
        BY <1>2, <2>2, <2>3, <2>4, OnePage DEF old
<1>5. old.shows = "SUCCEEDED" => row.status = "SUCCEEDED"
    BY <1>1 DEF ViewOK
<1>6. \/ page' = [page EXCEPT ![p] = Kept(old)]
      \/ page' = [page EXCEPT ![p] = Taken(old, old.shows)]
      \/ row.status = "SUCCEEDED" /\ page' = [page EXCEPT ![p] = Taken(old, "SUCCEEDED")]
    BY <1>1 DEF Refresh
<1> QED
    BY <1>3, <1>4, <1>5, <1>6

(* A subscription given up by its page goes on as it was.                     *)
LEMMA OrphanedOK ==
    ASSUME CustomerInv, NEW p \in Pages, sess' = Orphaned(p)
    PROVE  /\ sess' \in [Sessions -> Subscription]
           /\ \A s \in Sessions : SessionOK(sess'[s], row, agent.log)
           /\ \A s \in Sessions : sess'[s].owner = IF sess[s].owner \in {p} THEN Nobody ELSE sess[s].owner
           /\ \A s \in Sessions : sess[s] = Free => sess'[s] = Free
PROOF
<1>1. sess \in [Sessions -> Subscription] /\ p # Nobody
    BY CustomerAssumption DEF CustomerInv, Types
<1> DEFINE W(x) == [x EXCEPT !.owner = Nobody]
<1>2. ASSUME NEW s \in Sessions
      PROVE  /\ sess'[s] = IF sess[s].owner = p THEN W(sess[s]) ELSE sess[s]
             /\ sess'[s] \in Subscription
             /\ SessionOK(sess'[s], row, agent.log)
             /\ sess'[s].owner = IF sess[s].owner \in {p} THEN Nobody ELSE sess[s].owner
             /\ sess[s] = Free => sess'[s] = Free
    <2> DEFINE x == sess[s]
               y == W(x)
    <2>1. x \in Subscription /\ SessionOK(x, row, agent.log)
        BY <1>1 DEF CustomerInv
    <2>2. sess'[s] = IF x.owner = p THEN y ELSE x
        BY DEF Orphaned
    <2>3. /\ y \in Subscription /\ y.pc = x.pc /\ y.at = x.at /\ y.upto = x.upto /\ y.seen = x.seen
          /\ y.text = x.text /\ y.owner = Nobody
        <3> HIDE DEF x
        <3> QED
            BY <2>1 DEF Subscription
    <2>4. Free.owner = Nobody
        BY DEF Free
    <2> HIDE DEF x, y
    <2>5. x.owner = p => x # Free /\ x.pc # "free"
        BY <1>1, <2>1, <2>4 DEF SessionOK
    <2>6. x.owner = p => SessionOK(y, row, agent.log)
        BY <2>1, <2>3, <2>5 DEF SessionOK
    <2> QED
        BY <2>1, <2>2, <2>3, <2>5, <2>6 DEF x, y
<1>3. sess' = [s \in Sessions |-> sess'[s]]
    BY DEF Orphaned
<1> QED
    BY <1>2, <1>3

\* What a step of a page that stops reading leaves right.
LEMMA LeavesReading ==
    ASSUME CustomerInv, UNCHANGED <<call, row, msg>>, NEW p \in Pages, sess' = Orphaned(p),
           agent' \in AgentRun, StoryOK(agent'), GoesOn(agent.log, agent'.log),
           NEW v \in View, page' = [page EXCEPT ![p] = v], v.pc # "live", ViewOK(v, row, msg)
    PROVE  CustomerInv'
PROOF
<1>1. page \in [Pages -> View] /\ Owned(sess, page) /\ Types /\ p # Nobody /\ call' \in Sending
    BY CustomerAssumption DEF CustomerInv, Types
<1>2. page' \in [Pages -> View] /\ \A q \in Pages : page'[q] = IF q = p THEN v ELSE page[q]
    BY <1>1
<1>3. /\ sess' \in [Sessions -> Subscription]
      /\ \A s \in Sessions : SessionOK(sess'[s], row, agent.log)
      /\ \A s \in Sessions : sess'[s].owner = IF sess[s].owner \in {p} THEN Nobody ELSE sess[s].owner
      /\ \A s \in Sessions : sess[s] = Free => sess'[s] = Free
    BY OrphanedOK
<1>4. Owned(sess', page')
    <2>1. \A q \in Pages : IF q \in {p} THEN page'[q].pc # "live"
                                        ELSE page'[q].pc = "live" <=> page[q].pc = "live"
        BY <1>2
    <2>2. Nobody \notin {p}
        BY <1>1
    <2> QED
        BY <1>1, <1>3, <2>1, <2>2, OwnedAfter
<1>5. Binding'
    BY <1>3 DEF CustomerInv, Binding
<1> QED
    BY <1>1, <1>2, <1>3, <1>4, <1>5, Frame

LEMMA BreakStep ==
    ASSUME CustomerInv, NEW p \in Pages, Break(p)
    PROVE  CustomerInv'
PROOF
<1> DEFINE v == [page[p] EXCEPT !.pc = "refreshing", !.shows = "FAILED"]
<1>1. Erred({p}) /\ sess' = Orphaned(p) /\ UNCHANGED <<agent, call, row, msg>>
    BY DEF Break
<1>2. page \in [Pages -> View] /\ page[p] \in View /\ ViewOK(page[p], row, msg)
    BY DEF CustomerInv, Types
<1>3. v \in View /\ ViewOK(v, row, msg) /\ v.pc # "live"
    BY <1>2, ErredKeeps
<1>4. page' = [page EXCEPT ![p] = v]
    BY <1>1, <1>2 DEF Erred
<1>5. agent' \in AgentRun /\ StoryOK(agent') /\ GoesOn(agent.log, agent'.log)
    BY <1>1, LogStays DEF CustomerInv, Types
<1> HIDE DEF v
<1> QED
    BY <1>1, <1>3, <1>4, <1>5, LeavesReading

LEMMA LeaveStep ==
    ASSUME CustomerInv, NEW p \in Pages, Leave(p)
    PROVE  CustomerInv'
PROOF
<1>1. page' = [page EXCEPT ![p] = Closed] /\ sess' = Orphaned(p) /\ UNCHANGED <<agent, call, row, msg>>
    BY DEF Leave
<1>2. Closed \in View /\ Closed.pc # "live" /\ Closed.shows # "SUCCEEDED"
    BY ClosedTyped DEF Closed
<1>3. ViewOK(Closed, row, msg)
    BY <1>2, ClosedTyped, BlankKeeps DEF CustomerInv, Types
<1>4. agent' \in AgentRun /\ StoryOK(agent') /\ GoesOn(agent.log, agent'.log)
    BY <1>1, LogStays DEF CustomerInv, Types
<1> QED
    BY <1>1, <1>2, <1>3, <1>4, LeavesReading

LEMMA CancelStep ==
    ASSUME CustomerInv, NEW p \in Pages, Cancel(p)
    PROVE  CustomerInv'
PROOF
<1> DEFINE old == page[p]
           v == [old EXCEPT !.pc = "ended", !.shows = "CANCELLED"]
<1>1. page \in [Pages -> View] /\ old \in View /\ ViewOK(old, row, msg)
    BY DEF CustomerInv, Types
<1>2. sess' = Orphaned(p) /\ UNCHANGED <<call, row, msg>> /\ page' = [page EXCEPT ![p] = v]
    BY <1>1 DEF Cancel, View
<1> HIDE DEF old
<1>3. /\ v \in View /\ v.pc = "ended" /\ v.shows = "CANCELLED" /\ v.text = old.text
      /\ v.cursor = old.cursor
    BY <1>1 DEF View, Statuses, Terminal
<1> HIDE DEF v
<1>4. ViewOK(v, row, msg)
    BY <1>1, <1>3 DEF ViewOK
<1>5. agent' \in AgentRun /\ StoryOK(agent') /\ GoesOn(agent.log, agent'.log)
    <2>1. CASE Logged("CANCELLED", <<"cancelled">>) /\ Cancelled
        <3>1. <<"cancelled">> \in Seq(Kind) /\ Len(<<"cancelled">>) = 1 /\ <<"cancelled">>[1] = "cancelled"
            BY DEF Kind
        <3>2. \A i \in 1..Len(<<"cancelled">>) : StatusOf(<<"cancelled">>[i]) \in Terminal =>
                  i = Len(<<"cancelled">>) /\ "CANCELLED" = StatusOf(<<"cancelled">>[i])
            BY <3>1, KindsOf
        <3>3. agent.status \in {"PENDING", "RUNNING"}
            BY <2>1 DEF Cancelled, Over, CustomerInv, Types, AgentRun, Statuses
        <3>4. "CANCELLED" \in Statuses \ {"none"}
            BY DEF Statuses, Terminal
        <3>5. Types /\ StoryOK(agent)
            BY DEF CustomerInv
        <3> QED
            BY <2>1, <3>1, <3>2, <3>3, <3>4, <3>5, LogGrows
    <2>2. CASE UNCHANGED agent
        BY <2>2, LogStays DEF CustomerInv, Types
    <2> QED
        BY <2>1, <2>2 DEF Cancel
<1> QED
    BY <1>2, <1>3, <1>4, <1>5, LeavesReading

LEMMA ConnectStep ==
    ASSUME CustomerInv, NEW p \in Pages, Connect(p)
    PROVE  CustomerInv'
PROOF
<1>1. page[p].pc = "opening" /\ UNCHANGED <<agent, call, row, msg>>
    BY DEF Connect
<1>2. /\ page \in [Pages -> View] /\ page[p] \in View /\ ViewOK(page[p], row, msg)
      /\ sess \in [Sessions -> Subscription] /\ Types /\ RowOK(row, msg, agent.log)
      /\ Owned(sess, page) /\ p # Nobody
    BY CustomerAssumption DEF CustomerInv, Types
<1>3. CASE Over(row) /\ page' = [page EXCEPT ![p] = Replayed(@)] /\ UNCHANGED sess
    <2>1. Replayed(page[p]) \in View /\ ViewOK(Replayed(page[p]), row, msg) /\ Replayed(page[p]).pc # "live"
        BY <1>1, <1>2, ReplayKeeps
    <2>2. page' = [page EXCEPT ![p] = Replayed(page[p])]
        BY <1>3
    <2> QED
        BY <1>1, <1>3, <2>1, <2>2, OnePage
<1>4. CASE Erred({p}) /\ UNCHANGED sess
    <2> DEFINE v == [page[p] EXCEPT !.pc = "refreshing", !.shows = "FAILED"]
    <2>1. v \in View /\ ViewOK(v, row, msg) /\ v.pc # "live"
        BY <1>2, ErredKeeps
    <2>2. page' = [page EXCEPT ![p] = v]
        BY <1>2, <1>4 DEF Erred
    <2> HIDE DEF v
    <2> QED
        BY <1>1, <1>4, <2>1, <2>2, OnePage
<1>5. ASSUME ~Over(row), row.bound, NEW s \in Sessions, sess[s].pc = "free",
             sess' = [sess EXCEPT ![s] = [Free EXCEPT !.pc = "sending", !.owner = p,
                                     !.at = page[p].cursor, !.upto = Len(agent.log)]],
             page' = [page EXCEPT ![p].pc = "live"]
      PROVE  CustomerInv'
    <2> DEFINE x == [Free EXCEPT !.pc = "sending", !.owner = p, !.at = page[p].cursor, !.upto = Len(agent.log)]
               v == [page[p] EXCEPT !.pc = "live"]
    <2>1. /\ page[p].cursor \in Nat /\ Len(agent.log) \in Nat /\ row.last \in Nat
          /\ page[p].cursor <= row.last /\ row.last <= Len(agent.log)
        BY <1>2 DEF Types, AgentRun, Row, View, ViewOK, RowOK
    <2>2. /\ x \in Subscription /\ x.pc = "sending" /\ x.owner = p
          /\ x.at = page[p].cursor /\ x.upto = Len(agent.log)
        BY <2>1, FreeOK DEF Subscription
    <2>3. /\ v \in View /\ v.pc = "live" /\ v.text = page[p].text /\ v.cursor = page[p].cursor
          /\ v.shows = page[p].shows
        BY <1>2 DEF View
    <2>4. sess' = [sess EXCEPT ![s] = x] /\ page' = [page EXCEPT ![p] = v]
        BY <1>2, <1>5
    <2> HIDE DEF x, v
    <2>5. SessionOK(x, row, agent.log)
        BY <1>5, <2>1, <2>2 DEF SessionOK
    <2>6. ViewOK(v, row, msg)
        BY <1>1, <1>2, <2>3 DEF ViewOK
    <2>7. /\ sess' \in [Sessions -> Subscription] /\ page' \in [Pages -> View]
          /\ \A t \in Sessions : sess'[t] = IF t = s THEN x ELSE sess[t]
          /\ \A q \in Pages : page'[q] = IF q = p THEN v ELSE page[q]
        BY <1>2, <2>2, <2>3, <2>4
    <2>8. Owned(sess', page')
        <3>1. \A t \in Sessions : sess[t].owner # p
            BY <1>1, <1>2 DEF Owned
        <3>2. sess[s].owner = Nobody
            <4>1. sess[s] = Free
                BY <1>5 DEF CustomerInv, SessionOK
            <4> QED
                BY <4>1 DEF Free
        <3>3. ASSUME NEW t \in Sessions, NEW u \in Sessions, sess'[t].owner = sess'[u].owner
              PROVE  t = u \/ sess'[t].owner = Nobody
            BY <1>2, <2>2, <2>7, <3>1, <3>3 DEF Owned
        <3>4. ASSUME NEW q \in Pages
              PROVE  (page'[q].pc = "live") <=> \E t \in Sessions : sess'[t].owner = q
            <4>1. CASE q = p
                BY <4>1, <2>2, <2>3, <2>7
            <4>2. CASE q # p
                <5>1. q # Nobody
                    BY CustomerAssumption
                <5> QED
                    BY <4>2, <5>1, <1>2, <2>2, <2>7, <3>2 DEF Owned
            <4> QED
                BY <4>1, <4>2
        <3> QED
            BY <3>3, <3>4 DEF Owned
    <2>9. Binding'
        BY <1>1, <1>5 DEF CustomerInv, Binding
    <2> QED
        BY <1>1, <2>5, <2>6, <2>7, <2>8, <2>9, PageFrame
<1> QED
    BY <1>3, <1>4, <1>5 DEF Connect

-----------------------------------------------------------------------------
(* The steps of a subscription.                                              *)

\* One subscription changes, its owner stays, and no page notices.
LEMMA OneSession ==
    ASSUME CustomerInv, UNCHANGED <<agent, call, row, msg, page>>, NEW s \in Sessions,
           NEW x \in Subscription, sess' = [sess EXCEPT ![s] = x], x.owner = sess[s].owner,
           sess[s].pc # "free", SessionOK(x, row, agent.log)
    PROVE  CustomerInv'
PROOF
<1>1. sess \in [Sessions -> Subscription] /\ page \in [Pages -> View] /\ Owned(sess, page)
    BY DEF CustomerInv, Types
<1>2. /\ sess' \in [Sessions -> Subscription]
      /\ \A t \in Sessions : sess'[t] = IF t = s THEN x ELSE sess[t]
    BY <1>1
<1>3. Owned(sess', page')
    <2>1. \A t \in Sessions : sess'[t].owner = sess[t].owner
        BY <1>2
    <2> QED
        BY <1>1, <2>1 DEF Owned
<1>4. Binding'
    <2>1. row.bound
        BY DEF CustomerInv, Binding, Free
    <2> QED
        BY <2>1 DEF CustomerInv, Binding
<1> QED
    BY <1>1, <1>2, <1>3, <1>4, PageFrame

\* The facts of a subscription that is not free.
LEMMA SessionFacts ==
    ASSUME CustomerInv, NEW s \in Sessions, sess[s].pc # "free"
    PROVE  /\ sess \in [Sessions -> Subscription] /\ sess[s] \in Subscription
           /\ SessionOK(sess[s], row, agent.log)
           /\ sess[s].at \in Nat /\ sess[s].upto \in Nat /\ row.last \in Nat /\ Len(agent.log) \in Nat
           /\ Over(row) => row.last > 0
           /\ sess[s].at <= row.last /\ sess[s].at <= sess[s].upto /\ sess[s].upto <= Len(agent.log)
           /\ row.last <= Len(agent.log) /\ row.bound
           /\ sess[s].owner \in Pages \cup {Nobody}
PROOF
<1>1. sess \in [Sessions -> Subscription] /\ sess[s] \in Subscription
    BY DEF CustomerInv, Types
<1>2. SessionOK(sess[s], row, agent.log)
    BY DEF CustomerInv
<1>3. row.bound
    BY DEF CustomerInv, Binding, Free
<1> QED
    BY <1>1, <1>2, <1>3 DEF CustomerInv, Types, AgentRun, Row, Subscription, SessionOK, RowOK

LEMMA WakeLocateSteps ==
    ASSUME CustomerInv, NEW s \in Sessions,
           Wake(s) \/ Locate(s) \/ (Turn(s) /\ ~Over(agent))
    PROVE  CustomerInv'
PROOF
<1> DEFINE x == sess[s]
<1>1. x.pc # "free" /\ UNCHANGED <<agent, call, row, msg, page>>
    BY DEF Wake, Locate, Turn
<1>2. /\ sess \in [Sessions -> Subscription] /\ x \in Subscription
      /\ SessionOK(x, row, agent.log)
      /\ x.at \in Nat /\ x.upto \in Nat /\ row.last \in Nat /\ Len(agent.log) \in Nat
      /\ Over(row) => row.last > 0
      /\ x.at <= row.last /\ x.at <= x.upto /\ x.upto <= Len(agent.log)
      /\ row.last <= Len(agent.log)
    BY <1>1, SessionFacts
<1>3. ASSUME NEW pc \in {"waiting", "sending"},
             sess' = [sess EXCEPT ![s] = [x EXCEPT !.pc = pc, !.upto = Len(agent.log)]]
      PROVE  CustomerInv'
    <2> DEFINE y == [x EXCEPT !.pc = pc, !.upto = Len(agent.log)]
    <2> HIDE DEF x
    <2>1. /\ y \in Subscription /\ y.pc = pc /\ y.at = x.at /\ y.upto = Len(agent.log) /\ y.owner = x.owner
        BY <1>2 DEF Subscription
    <2> HIDE DEF y
    <2>2. SessionOK(y, row, agent.log)
        BY <1>2, <2>1 DEF SessionOK
    <2>3. sess' = [sess EXCEPT ![s] = y] /\ y.owner = sess[s].owner /\ sess[s].pc # "free"
        BY <1>1, <1>3, <2>1 DEF x, y
    <2> QED
        BY <1>1, <2>1, <2>2, <2>3, OneSession
<1>4. CASE Wake(s)
    <2>1. sess' = [sess EXCEPT ![s] = [x EXCEPT !.pc = "sending", !.upto = Len(agent.log)]]
        BY <1>2, <1>4 DEF Wake, Subscription
    <2> QED
        BY <1>3, <2>1
<1>5. CASE Turn(s) /\ ~Over(agent)
    <2>1. sess' = [sess EXCEPT ![s] = [x EXCEPT !.pc = "waiting", !.upto = Len(agent.log)]]
        BY <1>2, <1>5 DEF Turn, Subscription
    <2> QED
        BY <1>3, <2>1
<1>6. CASE Locate(s)
    <2> DEFINE y == [x EXCEPT !.pc = "projecting", !.seen = row.last, !.text = msg.text]
    <2>1. msg.text \in Seq(Nat) /\ msg.text = PiecesIn(agent.log, 1, row.last)
        BY DEF CustomerInv, Types, Message, RowOK
    <2>2. x.at < x.upto /\ sess' = [sess EXCEPT ![s] = y]
        BY <1>2, <1>6 DEF Locate, Subscription
    <2> HIDE DEF x
    <2>3. /\ y \in Subscription /\ y.pc = "projecting" /\ y.at = x.at /\ y.upto = x.upto
          /\ y.owner = x.owner /\ y.seen = row.last /\ y.text = msg.text
        BY <1>2, <2>1 DEF Subscription
    <2> HIDE DEF y
    <2>4. SessionOK(y, row, agent.log)
        BY <1>2, <2>1, <2>2, <2>3 DEF SessionOK
    <2>5. y.owner = sess[s].owner /\ sess[s].pc # "free"
        BY <1>1, <2>3 DEF x
    <2> QED
        BY <1>1, <2>2, <2>3, <2>4, <2>5, OneSession
<1> QED
    BY <1>4, <1>5, <1>6

\* A subscription goes, and its page, if it had one, reads no more.
LEMMA SessionGoes ==
    ASSUME CustomerInv, UNCHANGED <<agent, call, row, msg>>, NEW s \in Sessions,
           sess[s].pc # "free", sess' = [sess EXCEPT ![s] = Free], page' \in [Pages -> View],
           \A p \in Pages : page'[p] = page[p] \/ ViewOK(page'[p], row, msg),
           \A p \in Pages : IF p = sess[s].owner THEN page'[p].pc # "live" ELSE page'[p] = page[p]
    PROVE  CustomerInv'
PROOF
<1>1. sess \in [Sessions -> Subscription] /\ Types /\ Owned(sess, page)
    BY DEF CustomerInv, Types
<1>2. /\ sess' \in [Sessions -> Subscription]
      /\ \A t \in Sessions : sess'[t] = IF t = s THEN Free ELSE sess[t]
    BY <1>1, FreeOK
<1>3. Owned(sess', page')
    <2> DEFINE P == {sess[s].owner} \ {Nobody}
    <2>1. Nobody \notin P
        OBVIOUS
    <2>2. \A t \in Sessions : sess'[t].owner = IF sess[t].owner \in P THEN Nobody ELSE sess[t].owner
        <3>1. Free.owner = Nobody
            BY DEF Free
        <3>2. \A t \in Sessions : sess[t].owner = sess[s].owner => t = s \/ sess[s].owner = Nobody
            BY <1>1 DEF Owned
        <3> QED
            BY <1>2, <3>1, <3>2
    <2>3. \A p \in Pages : IF p \in P THEN page'[p].pc # "live"
                                      ELSE page'[p].pc = "live" <=> page[p].pc = "live"
        <3>1. Nobody \notin Pages
            BY CustomerAssumption
        <3> QED
            BY <3>1
    <2> HIDE DEF P
    <2> QED
        BY <1>1, <2>1, <2>2, <2>3, OwnedAfter
<1>4. Binding'
    <2>1. row.bound
        BY SessionFacts
    <2> QED
        BY <2>1 DEF CustomerInv, Binding
<1>5. \A t \in Sessions : sess'[t] = sess[t] \/ SessionOK(sess'[t], row, agent.log)
    BY <1>2, FreeOK
<1> QED
    BY <1>2, <1>3, <1>4, <1>5, PageFrame

LEMMA TurnEndsStep ==
    ASSUME CustomerInv, NEW s \in Sessions, Turn(s), Over(agent)
    PROVE  CustomerInv'
PROOF
<1>1. /\ sess[s].pc # "free" /\ sess' = [sess EXCEPT ![s] = Free] /\ UNCHANGED <<agent, call, row, msg>>
      /\ page' = [p \in Pages |-> IF p = sess[s].owner THEN Again(page[p]) ELSE page[p]]
    BY DEF Turn
<1>2. page \in [Pages -> View] /\ row \in Row /\ Owned(sess, page)
    BY DEF CustomerInv, Types
<1>3. ASSUME NEW p \in Pages, p = sess[s].owner
      PROVE  /\ Again(page[p]) \in View /\ ViewOK(Again(page[p]), row, msg)
             /\ Again(page[p]).pc # "live"
    <2>1. page[p].pc = "live" /\ page[p] \in View
        BY <1>2, <1>3 DEF Owned
    <2>2. ViewOK(page[p], row, msg)
        BY DEF CustomerInv
    <2> QED
        BY <1>2, <2>1, <2>2, AgainKeeps
<1>4. /\ page' \in [Pages -> View]
      /\ \A p \in Pages : page'[p] = page[p] \/ ViewOK(page'[p], row, msg)
      /\ \A p \in Pages : IF p = sess[s].owner THEN page'[p].pc # "live" ELSE page'[p] = page[p]
    BY <1>1, <1>2, <1>3
<1> QED
    BY <1>1, <1>4, SessionGoes

LEMMA ProjectFailsStep ==
    ASSUME CustomerInv, NEW s \in Sessions, ProjectFails(s)
    PROVE  CustomerInv'
PROOF
<1>1. /\ sess[s].pc # "free" /\ sess' = [sess EXCEPT ![s] = Free] /\ UNCHANGED <<agent, call, row, msg>>
      /\ Erred({sess[s].owner})
    BY DEF ProjectFails
<1>2. /\ page' \in [Pages -> View]
      /\ \A p \in Pages : page'[p] = page[p] \/ ViewOK(page'[p], row, msg)
      /\ \A p \in Pages : IF p \in {sess[s].owner} THEN page'[p].pc # "live" ELSE page'[p] = page[p]
    BY <1>1, ErredPages
<1> QED
    BY <1>1, <1>2, SessionGoes

(* The row and the message after an event was projected tell one event more.  *)
LEMMA RowAdvances ==
    ASSUME CustomerInv, NEW n \in Nat \ {0}, n <= Len(agent.log), row.last = n - 1, ~Over(row),
           row' = [row EXCEPT !.last = n, !.status = StatusOf(agent.log[n])],
           msg' = Told(msg.text, n, agent.log[n])
    PROVE  row' \in Row /\ row'.last = n /\ row'.bound = row.bound /\ msg' \in Message
           /\ RowOK(row', msg', agent.log)
PROOF
<1> DEFINE kind == agent.log[n]
<1>1. /\ row \in Row /\ msg \in Message /\ agent.log \in Seq(Kind) /\ Len(agent.log) \in Nat
      /\ msg.text = PiecesIn(agent.log, 1, n - 1) /\ msg.text \in Seq(Nat)
    BY DEF CustomerInv, Types, AgentRun, Message, RowOK
<1>2. kind \in Kind
    BY <1>1
<1>3. row' \in Row /\ row'.last = n /\ row'.status = StatusOf(kind) /\ row'.bound = row.bound
    <2>1. StatusOf(kind) \in Statuses
        BY StatusOfTyped
    <2> QED
        BY <1>1, <2>1 DEF Row
<1>4. PiecesIn(agent.log, 1, n) = IF kind = "delta" THEN Append(msg.text, n) ELSE msg.text
    <2>1. PiecesIn(agent.log, 1, n) = Step(agent.log, 1, n, PiecesIn(agent.log, 1, n - 1))
        BY PiecesLaw
    <2> QED
        BY <1>1, <2>1 DEF Step
<1>5. msg' = Told(msg.text, n, kind)
    OBVIOUS
<1> HIDE DEF kind
<1>6. /\ msg' \in Message
      /\ msg'.text = PiecesIn(agent.log, 1, n)
      /\ StatusOf(kind) \in Terminal =>
            msg'.status = IF StatusOf(kind) = "SUCCEEDED" THEN "COMPLETED" ELSE StatusOf(kind)
    <2>1. CASE kind = "delta"
        <3>1. msg' = [status |-> "STREAMING", text |-> Append(msg.text, n)]
            BY <1>5, <2>1, KindsOf DEF Told
        <3>2. Append(msg.text, n) \in Seq(Nat)
            BY <1>1
        <3> QED
            BY <1>4, <2>1, <3>1, <3>2, KindsOf DEF Message, Terminal
    <2>2. CASE kind = "completed"
        <3>1. msg' = [status |-> "COMPLETED", text |-> msg.text]
            BY <1>5, <2>2, KindsOf DEF Told
        <3> QED
            BY <1>1, <1>4, <2>2, <3>1, KindsOf DEF Message
    <2>3. CASE kind \in {"failed", "cancelled"}
        <3>1. msg' = [status |-> StatusOf(kind), text |-> msg.text]
            BY <1>5, <2>3, KindsOf DEF Told
        <3> QED
            BY <1>1, <1>4, <2>3, <3>1, KindsOf DEF Message
    <2>4. CASE kind \in {"accepted", "started", "step"}
        <3>1. msg' = msg
            BY <1>5, <2>4, KindsOf DEF Told
        <3> QED
            BY <1>1, <1>4, <2>4, <3>1, KindsOf DEF Terminal
    <2> QED
        BY <1>2, <2>1, <2>2, <2>3, <2>4 DEF Kind
<1>7. RowOK(row', msg', agent.log)
    BY <1>1, <1>3, <1>6 DEF RowOK, Over, kind
<1> QED
    BY <1>3, <1>6, <1>7

(* What was projected is sent, or the subscription ends as its page is gone.  *)
LEMMA SentKeeps ==
    ASSUME Types, StoryOK(agent), Owned(sess, page), NEW rw \in Row, NEW m,
           RowOK(rw, m, agent.log), Over(rw) => rw.last > 0,
           \A t \in Sessions : SessionOK(sess[t], rw, agent.log),
           \A p \in Pages : ViewOK(page[p], rw, m),
           NEW s \in Sessions, sess[s].pc = "projecting", NEW n \in Nat, n = sess[s].at + 1,
           n <= rw.last, Sent(s, n)
    PROVE  /\ sess' \in [Sessions -> Subscription] /\ page' \in [Pages -> View]
           /\ \A t \in Sessions : SessionOK(sess'[t], rw, agent.log)
           /\ \A p \in Pages : ViewOK(page'[p], rw, m)
           /\ Owned(sess', page')
PROOF
<1> DEFINE x == sess[s]
           to == x.owner
           Z    == [Free EXCEPT !.pc = "sending", !.at = n, !.upto = x.upto]
           Y(o) == [Free EXCEPT !.pc = "sending", !.at = n, !.upto = x.upto, !.owner = o]
<1>1. /\ sess \in [Sessions -> Subscription] /\ page \in [Pages -> View] /\ agent \in AgentRun
      /\ x \in Subscription /\ to \in Pages \cup {Nobody} /\ Nobody \notin Pages
      /\ x.at \in Nat /\ x.upto \in Nat /\ rw.last \in Nat /\ Len(agent.log) \in Nat
      /\ x.at < x.upto /\ x.upto <= Len(agent.log)
    BY CustomerAssumption DEF Types, AgentRun, Subscription, Row, SessionOK
<1>2. ASSUME NEW o \in Pages \cup {Nobody}
      PROVE  /\ Y(o) \in Subscription /\ Y(o).owner = o /\ Y(o).pc = "sending"
             /\ SessionOK(Y(o), rw, agent.log)
    <2> DEFINE y == Y(o)
    <2>1. y \in Subscription /\ y.owner = o /\ y.pc = "sending" /\ y.at = n /\ y.upto = x.upto
        BY <1>1, FreeOK DEF Subscription
    <2> HIDE DEF y, x
    <2>2. SessionOK(y, rw, agent.log)
        BY <1>1, <2>1 DEF SessionOK, x
    <2> QED
        BY <2>1, <2>2 DEF y, x
<1> HIDE DEF Y, Z
<1>3. CASE to = Nobody
    <2>1. page' = page /\ (sess' = [sess EXCEPT ![s] = Free] \/ sess' = [sess EXCEPT ![s] = Z])
        BY <1>3 DEF Sent, Z
    <2>2. PICK y \in {Free, Z} : sess' = [sess EXCEPT ![s] = y]
        BY <2>1
    <2>3. y \in Subscription /\ y.owner = Nobody /\ SessionOK(y, rw, agent.log)
        <3>1. Z \in Subscription /\ Z.owner = Nobody /\ Z.pc = "sending" /\ Z.at = n /\ Z.upto = x.upto
            BY <1>1, FreeOK DEF Subscription, Free, Z
        <3>2. SessionOK(Z, rw, agent.log)
            BY <1>1, <3>1 DEF SessionOK
        <3> QED
            BY <3>1, <3>2, FreeOK DEF Free
    <2>4. /\ sess' \in [Sessions -> Subscription]
          /\ \A t \in Sessions : sess'[t] = IF t = s THEN y ELSE sess[t]
        BY <1>1, <2>2, <2>3
    <2>5. Owned(sess', page')
        <3>1. \A t \in Sessions : sess'[t].owner = sess[t].owner
            BY <1>3, <2>3, <2>4
        <3> QED
            BY <2>1, <3>1 DEF Owned
    <2> QED
        BY <1>1, <2>1, <2>3, <2>4, <2>5
<1>4. CASE to \in Pages
    <2> DEFINE w == Read(page[to], n, agent.log[n])
               o == IF w.pc = "live" THEN to ELSE Nobody
    <2>1. page[to].pc = "live" /\ page[to] \in View
        BY <1>1, <1>4 DEF Owned
    <2>2. w \in View /\ ViewOK(w, rw, m) /\ w.pc \in {"live", "refreshing"}
        <3>1. n \in 1..rw.last
            BY <1>1
        <3> QED
            BY <1>1, <1>4, <2>1, <3>1, ReadKeeps
    <2>3. page' = [page EXCEPT ![to] = w]
        BY <1>1, <1>4 DEF Sent
    <2>4. page' \in [Pages -> View] /\ \A p \in Pages : page'[p] = IF p = to THEN w ELSE page[p]
        BY <1>1, <1>4, <2>2, <2>3
    <2>5. sess' = [sess EXCEPT ![s] = Y(o)]
        BY <1>1, <1>4, <2>4 DEF Sent, Y
    <2> HIDE DEF w
    <2>6. /\ sess' \in [Sessions -> Subscription]
          /\ \A t \in Sessions : sess'[t] = IF t = s THEN Y(o) ELSE sess[t]
          /\ Y(o).owner = o /\ SessionOK(Y(o), rw, agent.log)
        BY <1>1, <1>2, <1>4, <2>5
    <2>7. Owned(sess', page')
        <3> DEFINE P == IF w.pc = "live" THEN {} ELSE {to}
        <3>1. Nobody \notin P
            BY <1>1, <1>4
        <3>2. \A t \in Sessions : sess[t].owner = to => t = s
            BY <1>1, <1>4 DEF Owned
        <3>3. \A t \in Sessions : sess'[t].owner = IF sess[t].owner \in P THEN Nobody ELSE sess[t].owner
            BY <2>6, <3>2
        <3>4. \A p \in Pages : IF p \in P THEN page'[p].pc # "live"
                                          ELSE page'[p].pc = "live" <=> page[p].pc = "live"
            BY <2>1, <2>4
        <3> HIDE DEF P
        <3> QED
            BY <3>1, <3>3, <3>4, OwnedAfter
    <2> QED
        BY <2>2, <2>4, <2>6, <2>7
<1> QED
    BY <1>1, <1>3, <1>4

LEMMA ProjectStep ==
    ASSUME CustomerInv, NEW s \in Sessions, Project(s)
    PROVE  CustomerInv'
PROOF
<1> DEFINE x == sess[s]
           n == x.at + 1
<1>1. x.pc = "projecting" /\ UNCHANGED <<agent, call>>
    BY DEF Project
<1>2. /\ sess \in [Sessions -> Subscription] /\ x \in Subscription
      /\ SessionOK(x, row, agent.log)
      /\ x.at \in Nat /\ x.upto \in Nat /\ row.last \in Nat /\ Len(agent.log) \in Nat
      /\ Over(row) => row.last > 0
      /\ x.at <= row.last /\ x.at <= x.upto /\ x.upto <= Len(agent.log)
      /\ row.last <= Len(agent.log) /\ row.bound
    BY <1>1, SessionFacts
<1>3. /\ x.at < x.upto /\ x.at <= x.seen /\ x.seen <= row.last /\ x.seen \in Nat
      /\ x.text = PiecesIn(agent.log, 1, x.seen)
    BY <1>1, <1>2 DEF SessionOK, Subscription
<1>4. Types /\ StoryOK(agent) /\ Owned(sess, page) /\ RowOK(row, msg, agent.log) /\ row \in Row
    BY DEF CustomerInv, Types
<1>5. n \in Nat /\ n # 0 /\ n <= Len(agent.log)
    BY <1>2, <1>3
<1>6. ASSUME n <= x.seen, Sent(s, n), UNCHANGED <<row, msg>>
      PROVE  CustomerInv'
    <2>1. n <= row.last
        BY <1>2, <1>3, <1>5, <1>6
    <2>2. /\ sess' \in [Sessions -> Subscription] /\ page' \in [Pages -> View]
          /\ \A t \in Sessions : SessionOK(sess'[t], row, agent.log)
          /\ \A p \in Pages : ViewOK(page'[p], row, msg)
          /\ Owned(sess', page')
        BY <1>1, <1>2, <1>4, <1>5, <1>6, <2>1, SentKeeps DEF CustomerInv
    <2>3. Binding'
        BY <1>1, <1>2, <1>6 DEF CustomerInv, Binding
    <2> QED
        BY <1>1, <1>6, <2>2, <2>3, PageFrame
<1>7. ASSUME n > x.seen, Advances(n), Sent(s, n),
             row' = [row EXCEPT !.last = n, !.status = StatusOf(agent.log[n])],
             msg' = Told(x.text, n, agent.log[n])
      PROVE  CustomerInv'
    <2>1. row.last = n - 1 /\ ~Over(row) /\ x.seen = row.last
        BY <1>2, <1>3, <1>7 DEF Advances
    <2>2. msg.text = x.text
        BY <1>3, <1>4, <2>1 DEF RowOK
    <2>3. /\ row' \in Row /\ row'.last = n /\ row'.bound = row.bound /\ msg' \in Message
          /\ RowOK(row', msg', agent.log)
        BY <1>5, <1>7, <2>1, <2>2, RowAdvances
    <2>4. \A t \in Sessions : SessionOK(sess[t], row', agent.log)
        <3> SUFFICES ASSUME NEW t \in Sessions PROVE SessionOK(sess[t], row', agent.log)
            OBVIOUS
        <3>1. SessionOK(sess[t], row, agent.log) /\ sess[t] \in Subscription
            BY <1>2 DEF CustomerInv
        <3>2. agent.log \in Seq(Kind) /\ GoesOn(agent.log, agent.log)
            BY <1>4, LogStays DEF Types, AgentRun
        <3>3. row.last <= row'.last /\ row'.last > 0
            BY <1>2, <1>5, <2>1, <2>3
        <3> QED
            BY <1>2, <1>4, <2>3, <3>1, <3>2, <3>3, SessionKept
    <2>5. \A p \in Pages : ViewOK(page[p], row', msg')
        <3> SUFFICES ASSUME NEW p \in Pages PROVE ViewOK(page[p], row', msg')
            OBVIOUS
        <3>1. page[p] \in View /\ ViewOK(page[p], row, msg)
            BY <1>4 DEF CustomerInv, Types
        <3>2. row.last <= row'.last /\ row.status # "SUCCEEDED"
            BY <1>2, <1>5, <2>1, <2>3 DEF Over, Terminal
        <3> QED
            BY <1>4, <2>3, <3>1, <3>2, ViewKept
    <2>6. n <= row'.last /\ (Over(row') => row'.last > 0)
        BY <1>5, <2>3
    <2>7. /\ sess' \in [Sessions -> Subscription] /\ page' \in [Pages -> View]
          /\ \A t \in Sessions : SessionOK(sess'[t], row', agent.log)
          /\ \A p \in Pages : ViewOK(page'[p], row', msg')
          /\ Owned(sess', page')
        BY <1>1, <1>4, <1>5, <1>7, <2>3, <2>4, <2>5, <2>6, SentKeeps
    <2>8. Binding'
        BY <1>1, <1>2, <2>3 DEF CustomerInv, Binding
    <2>9. Types'
        BY <1>1, <1>4, <2>3, <2>7 DEF Types
    <2>10. StoryOK(agent') /\ RowOK(row', msg', agent'.log)
        BY <1>1, <1>4, <2>3
    <2>11. \A t \in Sessions : SessionOK(sess'[t], row', agent'.log)
        BY <1>1, <2>7
    <2> QED
        BY <2>7, <2>8, <2>9, <2>10, <2>11 DEF CustomerInv
<1>8. ASSUME n > x.seen, ~Advances(n), UNCHANGED <<row, msg, page>>,
             sess' = [sess EXCEPT ![s].pc = "sending", ![s].at = n, ![s].seen = 0, ![s].text = <<>>]
      PROVE  CustomerInv'
    <2> DEFINE y == [x EXCEPT !.pc = "sending", !.at = n, !.seen = 0, !.text = <<>>]
    <2>1. n <= row.last
        <3>1. x.seen = n - 1
            BY <1>2, <1>3, <1>8
        <3>2. CASE row.last # n - 1
            BY <1>2, <1>3, <3>1, <3>2
        <3>3. CASE row.last = n - 1 /\ Over(row)
            <4>1. row.last > 0 /\ StatusOf(agent.log[row.last]) \in Terminal
                BY <1>2, <1>4, <3>3 DEF Over, RowOK
            <4>2. agent \in AgentRun /\ row.last \in 1..row.last
                BY <1>2, <1>4, <4>1 DEF Types
            <4>3. row.last = Len(agent.log)
                BY <1>4, <4>1, <4>2, EventKnown
            <4> QED
                BY <1>2, <1>5, <3>3, <4>3
        <3> QED
            BY <1>8, <3>2, <3>3 DEF Advances
    <2>2. sess' = [sess EXCEPT ![s] = y]
        BY <1>2, <1>8 DEF Subscription
    <2>3. <<>> \in Seq(Nat)
        OBVIOUS
    <2> HIDE DEF x, n
    <2>4. y \in Subscription /\ y.pc = "sending" /\ y.at = n /\ y.upto = x.upto /\ y.owner = x.owner
        BY <1>2, <1>5, <2>3 DEF Subscription
    <2> HIDE DEF y
    <2>5. n <= x.upto
        BY <1>2, <1>3 DEF n
    <2>6. SessionOK(y, row, agent.log)
        BY <1>2, <2>1, <2>4, <2>5 DEF SessionOK
    <2>7. sess[s].pc # "free" /\ y.owner = sess[s].owner
        BY <1>1, <2>4 DEF x
    <2> QED
        BY <1>1, <1>8, <2>2, <2>4, <2>6, <2>7, OneSession
<1>9. \/ n <= x.seen /\ Sent(s, n) /\ UNCHANGED <<row, msg>>
      \/ /\ n > x.seen /\ Advances(n) /\ Sent(s, n)
         /\ row' = [row EXCEPT !.last = n, !.status = StatusOf(agent.log[n])]
         /\ msg' = Told(x.text, n, agent.log[n])
      \/ /\ n > x.seen /\ ~Advances(n) /\ UNCHANGED <<row, msg, page>>
         /\ sess' = [sess EXCEPT ![s].pc = "sending", ![s].at = n, ![s].seen = 0, ![s].text = <<>>]
    BY DEF Project
<1> QED
    BY <1>6, <1>7, <1>8, <1>9

-----------------------------------------------------------------------------
(* The invariant.                                                            *)
LEMMA CustomerInit ==
    ASSUME Init
    PROVE  CustomerInv
PROOF
<1>1. /\ agent = [status |-> "none", log |-> <<>>]
      /\ call = [pc |-> "idle", tries |-> 0, reply |-> "none", by |-> Nobody]
      /\ row = [status |-> "none", last |-> 0, bound |-> FALSE]
      /\ msg = [status |-> "none", text |-> <<>>]
      /\ sess = [s \in Sessions |-> Free]
      /\ page = [p \in Pages |-> Closed]
    BY DEF Init
<1>2. <<>> \in Seq(Kind) /\ <<>> \in Seq(Nat) /\ Len(<<>>) = 0
    OBVIOUS
<1>3. Closed \in View /\ Closed.pc = "closed" /\ Closed.shows = "IDLE" /\ Closed.cursor = 0 /\ Closed.text = <<>>
    BY ClosedTyped DEF Closed
<1>4. agent \in AgentRun /\ call \in Sending /\ row \in Row /\ msg \in Message
    BY <1>1, <1>2 DEF AgentRun, Sending, Row, Message, Statuses
<1>5. Types
    BY <1>1, <1>3, <1>4, FreeOK DEF Types
<1>6. StoryOK(agent) /\ Binding
    BY <1>1, <1>2 DEF StoryOK, Binding
<1>7. RowOK(row, msg, agent.log)
    BY <1>1, <1>2, PiecesLaw DEF RowOK, Over, Terminal
<1>8. \A s \in Sessions : SessionOK(sess[s], row, agent.log)
    BY <1>1, FreeOK
<1>9. \A p \in Pages : ViewOK(page[p], row, msg)
    BY <1>1, <1>3, <1>4, BlankKeeps
<1>10. Owned(sess, page)
    <2>1. \A s \in Sessions : sess[s].owner = Nobody
        BY <1>1 DEF Free
    <2>2. \A p \in Pages : page[p].pc # "live" /\ p # Nobody
        BY <1>1, <1>3, CustomerAssumption
    <2> QED
        BY <2>1, <2>2 DEF Owned
<1> QED
    BY <1>5, <1>6, <1>7, <1>8, <1>9, <1>10 DEF CustomerInv

LEMMA CustomerStutters ==
    ASSUME CustomerInv, UNCHANGED vars
    PROVE  CustomerInv'
PROOF
    BY DEF CustomerInv, vars, Types, StoryOK, Binding

LEMMA CustomerNext ==
    ASSUME CustomerInv, [Next]_vars
    PROVE  CustomerInv'
PROOF
<1>1. CASE Agent
    BY <1>1, TaskSteps, RestartStep DEF Agent
<1>2. CASE Calling
    BY <1>2, SubmitStep, AcceptStep, LoseAnswerStep, BindStep, FailRowStep, FailMessageStep
       DEF Calling
<1>3. ASSUME NEW p \in Pages, Browser(p)
      PROVE  CustomerInv'
    BY <1>3, OpenStep, OpenUnreadStep, ConnectStep, BreakStep, RefreshStep, LeaveStep, CancelStep DEF Browser
<1>4. ASSUME NEW s \in Sessions, Stream(s)
      PROVE  CustomerInv'
    BY <1>4, WakeLocateSteps, TurnEndsStep, ProjectStep, ProjectFailsStep DEF Stream
<1>5. CASE UNCHANGED vars
    BY <1>5, CustomerStutters
<1> QED
    BY <1>1, <1>2, <1>3, <1>4, <1>5 DEF Next

(* Every step of the Agent, of a submission, of a page and of a subscription  *)
(* keeps log, row, message, subscriptions and pages consistent.               *)
THEOREM CustomerInvariance == Spec => []CustomerInv
PROOF
<1>1. Init => CustomerInv
    BY CustomerInit
<1>2. CustomerInv /\ [Next]_vars => CustomerInv'
    BY CustomerNext
<1> QED
    BY <1>1, <1>2, PTL DEF Spec

(* What project stores is well-formed and is what the events so far say, each *)
(* piece once and in order, however many subscriptions project them and       *)
(* whichever calls and streams are lost.                                      *)
THEOREM AnswerStoredWhole == Spec => []StoreInvariant
PROOF
<1>1. CustomerInv => StoreInvariant
    <2> SUFFICES ASSUME CustomerInv PROVE StoreInvariant
        OBVIOUS
    <2>1. /\ agent \in AgentRun /\ row \in Row /\ sess \in [Sessions -> Subscription]
          /\ RowOK(row, msg, agent.log) /\ Owned(sess, page)
        BY DEF CustomerInv, Types
    <2>2. Len(agent.log) \in Nat /\ row.last \in 0..Len(agent.log) /\ row.bound \in BOOLEAN
        BY <2>1 DEF AgentRun, Row, RowOK
    <2>3. ASSUME NEW s \in Sessions
          PROVE  sess[s].owner \in Pages \cup {Nobody} /\ sess[s].upto <= Len(agent.log)
        <3>1. sess[s] \in Subscription /\ SessionOK(sess[s], row, agent.log)
            BY <2>1 DEF CustomerInv
        <3> QED
            BY <2>2, <3>1 DEF Subscription, SessionOK, Free
    <2>4. TypeOK
        BY <2>1, <2>2, <2>3 DEF TypeOK, Owned, AgentRun, Row, Statuses
    <2>5. AnswerWhole
        BY <2>1, PiecesAreIn DEF AnswerWhole, RowOK
    <2> QED
        BY <2>4, <2>5 DEF StoreInvariant
<1> QED
    BY <1>1, CustomerInvariance, PTL

\* A row that is over by its events has them all.
LEMMA RowComplete ==
    ASSUME CustomerInv, Over(row), row.last > 0
    PROVE  /\ row.last = Len(agent.log) /\ row.status = StatusOf(agent.log[row.last])
           /\ msg.status = IF row.status = "SUCCEEDED" THEN "COMPLETED" ELSE row.status
PROOF
<1>1. /\ agent \in AgentRun /\ row \in Row /\ row.last \in Nat
      /\ StoryOK(agent) /\ RowOK(row, msg, agent.log)
    BY DEF CustomerInv, Types, Row
<1>2. row.status = StatusOf(agent.log[row.last]) /\ row.last \in 1..row.last
    BY <1>1 DEF RowOK
<1>3. StatusOf(agent.log[row.last]) \in Terminal
    BY <1>2 DEF Over
<1>4. row.last = Len(agent.log)
    BY <1>1, <1>2, <1>3, EventKnown
<1> QED
    BY <1>1, <1>2, <1>4 DEF RowOK

(* A Run whose row ended by its events has all of them, and row and message   *)
(* end as the last one says (advanceRun, project).                            *)
THEOREM StoredEndAgrees == Spec => []EndsAlike
PROOF
<1>1. CustomerInv => EndsAlike
    <2> SUFFICES ASSUME CustomerInv, Over(row), row.last > 0
                 PROVE  /\ row.last = Len(agent.log) /\ row.status = StatusOf(Last(agent.log))
                        /\ msg.status = IF row.status = "SUCCEEDED" THEN "COMPLETED" ELSE row.status
        BY DEF EndsAlike
    <2> QED
        BY RowComplete DEF Last
<1> QED
    BY <1>1, CustomerInvariance, PTL

(* What a page shows has no piece twice or out of order, and is the whole     *)
(* answer once it has taken the stored messages of a Run it shows as          *)
(* succeeded; a page that could not read them is left out (consume).          *)
THEOREM ShownWhole == Spec => []ShownFaithful
PROOF
<1>1. CustomerInv => ShownFaithful
    <2> SUFFICES ASSUME CustomerInv, NEW p \in Pages
                 PROVE  /\ \A i, j \in DOMAIN page[p].text : i < j => page[p].text[i] < page[p].text[j]
                        /\ (page[p].pc = "ended" /\ page[p].shows = "SUCCEEDED" /\ row.last > 0) =>
                               page[p].text = Pieces(1, Len(agent.log))
        BY DEF ShownFaithful
    <2>1. ViewOK(page[p], row, msg)
        BY DEF CustomerInv
    <2>2. ASSUME page[p].pc = "ended", page[p].shows = "SUCCEEDED", row.last > 0
          PROVE  page[p].text = Pieces(1, Len(agent.log))
        <3>1. row.status = "SUCCEEDED" /\ page[p].text = msg.text
            BY <2>1, <2>2 DEF ViewOK
        <3>2. row.last = Len(agent.log)
            BY <2>2, <3>1, RowComplete DEF Over, Terminal
        <3>3. msg.text = PiecesIn(agent.log, 1, row.last)
            BY DEF CustomerInv, RowOK
        <3> QED
            BY <3>1, <3>2, <3>3, PiecesAreIn
    <2> QED
        BY <2>1, <2>2 DEF ViewOK, Increasing
<1> QED
    BY <1>1, CustomerInvariance, PTL

-----------------------------------------------------------------------------
(* How the stored answer changes.                                            *)

\* The stored answer takes one piece at a time, the event the row moves on to,
\* and an answer that is over is left as it is, though what project writes was
\* read before its conditional update.
Grows ==
    /\ msg'.text # msg.text =>
          /\ row'.last = row.last + 1 /\ agent.log[row'.last] = "delta"
          /\ msg'.text = Append(msg.text, row'.last)
    /\ Over(row) => row' = row /\ (row.last > 0 => msg' = msg)

\* The row of a Run that is being submitted is not over.
Unanswered == call.pc \notin {"failed", "done"} => ~Over(row)

LEMMA UntoldKept ==
    ASSUME Unanswered, UNCHANGED <<row, msg>>,
           call' = call \/ call.pc \notin {"failed", "done"} \/ call'.pc \in {"failed", "done"}
    PROVE  Unanswered' /\ Grows
PROOF
<1>1. Over(row)' <=> Over(row)
    BY DEF Over
<1> QED
    BY <1>1 DEF Unanswered, Grows

\* Nothing is told of a Run that is not bound to its row.
LEMMA NothingTold ==
    ASSUME CustomerInv, call.pc # "done"
    PROVE  ~row.bound /\ row.last = 0 /\ msg.text = <<>>
PROOF
<1>1. ~row.bound /\ row.last = 0
    BY DEF CustomerInv, Binding
<1>2. msg.text = PiecesIn(agent.log, 1, 0) /\ agent.log \in Seq(Kind)
    BY <1>1 DEF CustomerInv, RowOK, Types, AgentRun
<1> QED
    BY <1>1, <1>2, PiecesLaw

LEMMA SubmissionGrows ==
    ASSUME CustomerInv, Unanswered, Calling
    PROVE  Unanswered' /\ Grows
PROOF
<1>1. row \in Row /\ msg \in Message /\ call \in Sending
    BY DEF CustomerInv, Types
<1>2. ASSUME NEW p \in Pages, Submit(p) PROVE Unanswered' /\ Grows
    <2>1. /\ call.pc = "idle" /\ row' = [row EXCEPT !.status = "PENDING"]
          /\ msg' = [msg EXCEPT !.status = "PENDING"]
        BY <1>2 DEF Submit
    <2>2. row'.status = "PENDING" /\ msg'.text = msg.text
        BY <1>1, <2>1 DEF Row, Message
    <2>3. ~Over(row) /\ ~Over(row')
        BY <2>1, <2>2 DEF Unanswered, Over, Terminal
    <2> QED
        BY <2>2, <2>3 DEF Unanswered, Grows, Over
<1>3. CASE Accept \/ LoseAnswer
    <2>1. UNCHANGED <<row, msg>> /\ call.pc \notin {"failed", "done"}
        BY <1>3 DEF Accept, LoseAnswer
    <2> QED
        BY <2>1, UntoldKept
<1>4. CASE Bind
    <2>1. call.pc = "accepted" /\ call'.pc = "done" /\ msg' = msg
        BY <1>4, DoneTyped DEF Bind
    <2>2. ~Over(row)
        BY <2>1 DEF Unanswered
    <2> QED
        BY <2>1, <2>2 DEF Unanswered, Grows
<1>5. CASE FailRow
    <2>1. call'.pc = "failed"
        BY <1>1, <1>5 DEF FailRow, Sending
    <2>2. call.pc = "failing" /\ msg' = msg
        BY <1>5 DEF FailRow
    <2>3. ~Over(row)
        BY <2>2 DEF Unanswered
    <2> QED
        BY <2>1, <2>2, <2>3 DEF Unanswered, Grows
<1>6. CASE FailMessage
    <2>1. call.pc = "failed" /\ call'.pc = "done" /\ row' = row /\ msg'.text = <<>>
        BY <1>6, DoneTyped DEF FailMessage
    <2>2. msg.text = <<>> /\ row.last = 0
        BY <2>1, NothingTold
    <2> QED
        BY <2>1, <2>2 DEF Unanswered, Grows
<1> QED
    BY <1>2, <1>3, <1>4, <1>5, <1>6 DEF Calling

LEMMA ProjectGrows ==
    ASSUME CustomerInv, Unanswered, NEW s \in Sessions, Project(s)
    PROVE  Unanswered' /\ Grows
PROOF
<1> DEFINE n == sess[s].at + 1
<1>1. CASE UNCHANGED <<row, msg>>
    <2>1. call' = call
        BY DEF Project
    <2> QED
        BY <1>1, <2>1, UntoldKept
<1>2. CASE /\ n > sess[s].seen /\ Advances(n)
           /\ row' = [row EXCEPT !.last = n, !.status = StatusOf(agent.log[n])]
           /\ msg' = Told(sess[s].text, n, agent.log[n])
    <2>1. /\ sess[s] \in Subscription /\ SessionOK(sess[s], row, agent.log)
          /\ sess[s].at \in Nat /\ row.last \in Nat /\ row.bound
        BY SessionFacts DEF Project
    <2>2. /\ sess[s].at <= sess[s].seen /\ sess[s].seen <= row.last /\ sess[s].seen \in Nat
          /\ sess[s].text = PiecesIn(agent.log, 1, sess[s].seen)
        BY <2>1 DEF SessionOK, Subscription, Project
    <2>3. row.last = n - 1 /\ ~Over(row)
        BY <1>2 DEF Advances
    <2>4. sess[s].seen = row.last /\ n = row.last + 1
        BY <2>1, <2>2, <2>3
    <2>5. msg.text = sess[s].text /\ row \in Row
        BY <2>2, <2>4 DEF CustomerInv, RowOK, Types
    <2>6. row'.last = n
        BY <1>2, <2>5 DEF Row
    <2>7. msg'.text = msg.text \/ (agent.log[n] = "delta" /\ msg'.text = Append(msg.text, n))
        <3> HIDE DEF n
        <3>1. CASE agent.log[n] = "delta"
            BY <1>2, <2>5, <3>1 DEF Told
        <3>2. CASE agent.log[n] = "completed"
            BY <1>2, <2>5, <3>2 DEF Told
        <3>3. CASE agent.log[n] \notin {"delta", "completed"}
            <4>1. \/ msg' = msg
                  \/ msg' = [status |-> StatusOf(agent.log[n]), text |-> sess[s].text]
                BY <1>2, <3>3, Zenon DEF Told
            <4> QED
                BY <2>5, <4>1
        <3> QED
            BY <3>1, <3>2, <3>3
    <2>8. Grows
        BY <2>3, <2>4, <2>6, <2>7 DEF Grows
    <2>9. Unanswered'
        <3>1. call.pc = "done" /\ call' = call
            BY <2>1 DEF CustomerInv, Binding, Project
        <3> QED
            BY <3>1 DEF Unanswered
    <2> QED
        BY <2>8, <2>9
<1> QED
    BY <1>1, <1>2 DEF Project

LEMMA StepGrows ==
    ASSUME CustomerInv, Unanswered, [Next]_vars
    PROVE  Unanswered' /\ Grows
PROOF
<1>1. CASE Agent \/ UNCHANGED vars
    <2>1. UNCHANGED <<row, msg, call>>
        BY <1>1 DEF Agent, Start, Work, Publish, Fail, Restart, vars
    <2> QED
        BY <2>1, UntoldKept
<1>2. CASE Calling
    BY <1>2, SubmissionGrows
<1>3. ASSUME NEW p \in Pages, Browser(p)
      PROVE  Unanswered' /\ Grows
    <2>1. UNCHANGED <<row, msg, call>>
        BY <1>3 DEF Browser, Open, OpenUnread, Connect, Break, Refresh, Leave, Cancel
    <2> QED
        BY <2>1, UntoldKept
<1>4. ASSUME NEW s \in Sessions, Stream(s)
      PROVE  Unanswered' /\ Grows
    <2>1. CASE Turn(s) \/ Wake(s) \/ Locate(s) \/ ProjectFails(s)
        <3>1. UNCHANGED <<row, msg, call>>
            BY <2>1 DEF Turn, Wake, Locate, ProjectFails
        <3> QED
            BY <3>1, UntoldKept
    <2> QED
        BY <1>4, <2>1, ProjectGrows DEF Stream
<1> QED
    BY <1>1, <1>2, <1>3, <1>4 DEF Next

(* The stored answer takes one piece at a time, the event the row moves on to, *)
(* and nothing changes an answer that is over, though several subscriptions    *)
(* write what they read before (advanceRun, project, failRun).                 *)
THEOREM AnswerGrows == Spec => [][Grows]_vars
PROOF
<1>1. Init => Unanswered
    BY DEF Init, Unanswered, Over, Terminal
<1>2. CustomerInv /\ Unanswered /\ [Next]_vars => Unanswered' /\ [Grows]_vars
    BY StepGrows
<1> QED
    BY <1>1, <1>2, CustomerInvariance, PTL DEF Spec

=============================================================================
