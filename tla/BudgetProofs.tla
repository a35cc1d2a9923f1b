---------------------------- MODULE BudgetProofs ----------------------------
(***************************************************************************)
(* The two budgets of the Agent, for every value of their constants.         *)
(* First what sums over finite sets obey; then the lease of a research Run:  *)
(* the end of a Run is final for its budget, the totals are balanced and     *)
(* within the limit, and no result is withheld without a reason; then a       *)
(* scenario, for every set of task graphs, candidates, requests and width of  *)
(* a wave: no specialist runs on missing inputs, as many waves as tasks are   *)
(* enough, the verdict is honest, and the budgets stay within the pool and    *)
(* never grow.                                                               *)
(***************************************************************************)
EXTENDS BudgetLease, ScenarioWaves, Integers, FiniteSetTheorems, WellFoundedInduction, TLAPS

(***************************************************************************)
(* Sums over finite sets (SumFunctionOnSet of the community modules): a sum  *)
(* does not depend on the order in which it is formed, so an amount that is  *)
(* added, removed or changed changes the sum by as much.  Induction is over  *)
(* sets of subsets.                                                          *)
(***************************************************************************)
(* Induction over the subsets of a finite set: what holds of the empty set,   *)
(* and of a set when it holds of the set without any one of its elements.      *)
LEMMA SubsetInduction ==
    ASSUME NEW S, IsFiniteSet(S), NEW T, {} \in T,
           \A u \in SUBSET S : u # {} /\ (\A x \in u : u \ {x} \in T) => u \in T
    PROVE  SUBSET S \subseteq T
PROOF
<1> DEFINE Bad == {u \in SUBSET S : u \notin T}
<1> SUFFICES ASSUME Bad # {} PROVE FALSE
    OBVIOUS
<1>1. Bad \subseteq FiniteSubsetsOf(S)
    BY FS_Subset DEF FiniteSubsetsOf
<1>2. PICK u \in Bad : \A v \in Bad : ~ <<v, u>> \in StrictSubsetOrdering(S)
    <2>1. IsWellFoundedOn(StrictSubsetOrdering(S), FiniteSubsetsOf(S))
        BY FS_StrictSubsetOrderingWellFounded
    <2> HIDE DEF Bad
    <2> QED
        BY <1>1, <2>1, WFMin
<1>3. PICK x \in u : u \ {x} \notin T
    OBVIOUS
<1>4. u \ {x} \in Bad
    BY <1>3
<1>5. <<u \ {x}, u>> \in StrictSubsetOrdering(S)
    BY DEF StrictSubsetOrdering
<1> QED
    BY <1>2, <1>4, <1>5

-----------------------------------------------------------------------------
(* The recursive function inside a sum: it exists, and is the only one.       *)

Sums(f, S, g) ==
    g = [u \in SUBSET S |-> IF u = {} THEN 0
                            ELSE f[CHOOSE x \in u : TRUE] + g[u \ {CHOOSE x \in u : TRUE}]]

LEMMA SumsExist ==
    ASSUME NEW S, IsFiniteSet(S), NEW f
    PROVE  \E g : Sums(f, S, g)
PROOF
<1> DEFINE Upto(n) == {u \in SUBSET S : Cardinality(u) <= n}
           Body(g, u) == IF u = {} THEN 0
                         ELSE f[CHOOSE x \in u : TRUE] + g[u \ {CHOOSE x \in u : TRUE}]
           Good(n, g) == /\ DOMAIN g = Upto(n)
                         /\ g = [u \in Upto(n) |-> g[u]]
                         /\ \A u \in Upto(n) : g[u] = Body(g, u)
           Reached == {u \in SUBSET S : \E g : Good(Cardinality(u), g)}
<1>1. \A u \in SUBSET S : IsFiniteSet(u) /\ Cardinality(u) \in Nat
    BY FS_Subset, FS_CardinalityType
<1>2. \E g : Good(0, g)
    <2> DEFINE g == [u \in Upto(0) |-> 0]
    <2>1. \A u \in Upto(0) : u = {}
        BY <1>1, FS_EmptySet
    <2>2. Good(0, g)
        BY <2>1
    <2> QED
        BY <2>2
<1>3. ASSUME NEW n \in Nat, \E g : Good(n, g)
      PROVE  \E g : Good(n + 1, g)
    <2>1. PICK g : Good(n, g)
        BY <1>3
    <2> DEFINE h == [u \in Upto(n + 1) |-> Body(g, u)]
    <2>2. ASSUME NEW u \in Upto(n + 1)
          PROVE  h[u] = Body(h, u)
        <3>1. CASE u = {}
            BY <3>1
        <3>2. CASE u # {}
            <4> DEFINE x == CHOOSE y \in u : TRUE
            <4>1. x \in u
                BY <3>2
            <4>2. Cardinality(u \ {x}) = Cardinality(u) - 1
                BY <4>1, <1>1, FS_RemoveElement
            <4>3. u \ {x} \in Upto(n) /\ u \ {x} \in Upto(n + 1)
                BY <4>2, <1>1
            <4>4. g[u \ {x}] = h[u \ {x}]
                BY <2>1, <4>3
            <4> QED
                BY <4>4, <3>2
        <3> QED
            BY <3>1, <3>2
    <2>3. Good(n + 1, h)
        <3> HIDE DEF Body
        <3> QED
            BY <2>2
    <2> QED
        BY <2>3
<1>4. SUBSET S \subseteq Reached
    <2>1. {} \in Reached
        <3>1. Cardinality({}) = 0
            BY FS_EmptySet
        <3> HIDE DEF Good
        <3> QED
            BY <1>2, <3>1
    <2>2. ASSUME NEW u \in SUBSET S, u # {}, \A x \in u : u \ {x} \in Reached
          PROVE  u \in Reached
        <3> PICK x \in u : TRUE
            BY <2>2
        <3>1. /\ Cardinality(u \ {x}) \in Nat
              /\ Cardinality(u) = Cardinality(u \ {x}) + 1
            BY <1>1, FS_RemoveElement
        <3> HIDE DEF Good
        <3> QED
            BY <3>1, <2>2, <1>3
    <2> HIDE DEF Reached
    <2> QED
        BY <2>1, <2>2, SubsetInduction
<1>5. PICK g : Good(Cardinality(S), g)
    BY <1>1, <1>4
<1>6. Upto(Cardinality(S)) = SUBSET S
    BY FS_Subset, <1>1
<1>7. g = [u \in SUBSET S |-> Body(g, u)]
    <2> HIDE DEF Body
    <2> QED
        BY <1>5, <1>6
<1> QED
    BY <1>7 DEF Sums

(* Two of them agree where both are defined. *)
LEMMA SumsAgree ==
    ASSUME NEW S, IsFiniteSet(S), NEW R, NEW f, NEW e, NEW g, NEW h, R \subseteq S,
           \A x \in R : e[x] = f[x], Sums(f, S, g), Sums(e, R, h)
    PROVE  g[R] = h[R]
PROOF
<1> DEFINE Same == {u \in SUBSET R : g[u] = h[u]}
<1>1. {} \in Same
    BY DEF Sums
<1>2. ASSUME NEW u \in SUBSET R, \A x \in u : u \ {x} \in Same
      PROVE  u \in Same
    <2>1. CASE u = {}
        BY <2>1, <1>1
    <2>2. CASE u # {}
        <3> DEFINE x == CHOOSE y \in u : TRUE
        <3>1. x \in u
            BY <2>2
        <3>2. g[u \ {x}] = h[u \ {x}]
            BY <3>1, <1>2
        <3>3. g[u] = f[x] + g[u \ {x}] /\ h[u] = e[x] + h[u \ {x}]
            BY <2>2 DEF Sums
        <3> QED
            BY <3>1, <3>2, <3>3
    <2> QED
        BY <2>1, <2>2
<1>3. IsFiniteSet(R)
    BY FS_Subset
<1>4. SUBSET R \subseteq Same
    <2> HIDE DEF Same
    <2> QED
        BY <1>1, <1>2, <1>3, SubsetInduction
<1> QED
    BY <1>4

(* Clients meet sums only through the lemmas from here on. *)
LEMMA SumIs ==
    ASSUME NEW S, IsFiniteSet(S), NEW f
    PROVE  \E g : Sums(f, S, g) /\ g[S] = SumFunctionOnSet(f, S)
PROOF
<1> DEFINE g == CHOOSE h : Sums(f, S, h)
<1>1. Sums(f, S, g)
    <2>1. \E h : Sums(f, S, h)
        BY SumsExist
    <2> QED
        BY <2>1, Zenon
<1>2. g[S] = SumFunctionOnSet(f, S)
    BY DEF SumFunctionOnSet, FoldFunctionOnSet, MapThenFoldSet, Sums
<1> QED
    BY <1>1, <1>2

(* Only the amounts of the set's own elements matter. *)
LEMMA SumSame ==
    ASSUME NEW S, IsFiniteSet(S), NEW f, NEW e, \A x \in S : e[x] = f[x]
    PROVE  SumFunctionOnSet(e, S) = SumFunctionOnSet(f, S)
PROOF
<1>1. PICK g : Sums(f, S, g) /\ g[S] = SumFunctionOnSet(f, S)
    BY SumIs
<1>2. PICK h : Sums(e, S, h) /\ h[S] = SumFunctionOnSet(e, S)
    BY SumIs
<1> QED
    BY <1>1, <1>2, SumsAgree

LEMMA SumEmpty ==
    ASSUME NEW f
    PROVE  SumFunctionOnSet(f, {}) = 0
PROOF
<1>1. PICK g : Sums(f, {}, g) /\ g[{}] = SumFunctionOnSet(f, {})
    BY SumIs, FS_EmptySet
<1> QED
    BY <1>1 DEF Sums

(* One element set aside, the one that CHOOSE takes first. *)
LEMMA SumFirst ==
    ASSUME NEW S, IsFiniteSet(S), S # {}, NEW f
    PROVE  \E x \in S : SumFunctionOnSet(f, S) = f[x] + SumFunctionOnSet(f, S \ {x})
PROOF
<1> DEFINE x == CHOOSE y \in S : TRUE
<1>1. x \in S
    OBVIOUS
<1>2. PICK g : Sums(f, S, g) /\ g[S] = SumFunctionOnSet(f, S)
    BY SumIs
<1>3. IsFiniteSet(S \ {x})
    BY FS_RemoveElement
<1>4. PICK h : Sums(f, S \ {x}, h) /\ h[S \ {x}] = SumFunctionOnSet(f, S \ {x})
    BY <1>3, SumIs
<1>5. g[S \ {x}] = h[S \ {x}]
    <2> HIDE DEF x
    <2> QED
        BY <1>2, <1>4, SumsAgree
<1>6. g[S] = f[x] + g[S \ {x}]
    BY <1>2 DEF Sums
<1> QED
    BY <1>1, <1>2, <1>4, <1>5, <1>6

LEMMA SumInt ==
    ASSUME NEW S, IsFiniteSet(S), NEW f, \A x \in S : f[x] \in Int
    PROVE  SumFunctionOnSet(f, S) \in Int
PROOF
<1> DEFINE Good == {u \in SUBSET S : SumFunctionOnSet(f, u) \in Int}
<1>1. {} \in Good
    BY SumEmpty
<1>2. ASSUME NEW u \in SUBSET S, \A x \in u : u \ {x} \in Good
      PROVE  u \in Good
    <2>1. CASE u = {}
        BY <2>1, <1>1
    <2>2. CASE u # {}
        <3>1. IsFiniteSet(u)
            BY FS_Subset
        <3>2. PICK x \in u : SumFunctionOnSet(f, u) = f[x] + SumFunctionOnSet(f, u \ {x})
            BY <2>2, <3>1, SumFirst
        <3> QED
            BY <3>2, <1>2
    <2> QED
        BY <2>1, <2>2
<1>3. SUBSET S \subseteq Good
    <2> HIDE DEF Good
    <2> QED
        BY <1>1, <1>2, SubsetInduction
<1> QED
    BY <1>3

(* Any element may be the one that is set aside. *)
LEMMA SumRemove ==
    ASSUME NEW S, IsFiniteSet(S), NEW f, \A y \in S : f[y] \in Int, NEW x \in S
    PROVE  SumFunctionOnSet(f, S) = f[x] + SumFunctionOnSet(f, S \ {x})
PROOF
<1> DEFINE Good == {u \in SUBSET S : \A y \in u :
                        SumFunctionOnSet(f, u) = f[y] + SumFunctionOnSet(f, u \ {y})}
<1>1. {} \in Good
    OBVIOUS
<1>2. ASSUME NEW u \in SUBSET S, \A y \in u : u \ {y} \in Good
      PROVE  u \in Good
    <2>1. SUFFICES ASSUME NEW y \in u
                   PROVE  SumFunctionOnSet(f, u) = f[y] + SumFunctionOnSet(f, u \ {y})
        OBVIOUS
    <2>2. \A v \in SUBSET u : IsFiniteSet(v) /\ SumFunctionOnSet(f, v) \in Int
        BY FS_Subset, SumInt
    <2>3. PICK z \in u : SumFunctionOnSet(f, u) = f[z] + SumFunctionOnSet(f, u \ {z})
        BY <2>2, SumFirst
    <2>4. CASE z = y
        BY <2>3, <2>4
    <2>5. CASE z # y
        <3>1. SumFunctionOnSet(f, u \ {z}) = f[y] + SumFunctionOnSet(f, (u \ {z}) \ {y})
            BY <1>2, <2>5
        <3>2. SumFunctionOnSet(f, u \ {y}) = f[z] + SumFunctionOnSet(f, (u \ {y}) \ {z})
            BY <1>2, <2>5
        <3>3. (u \ {z}) \ {y} = (u \ {y}) \ {z}
            OBVIOUS
        <3>4. SumFunctionOnSet(f, (u \ {y}) \ {z}) \in Int /\ f[y] \in Int /\ f[z] \in Int
            BY <2>2
        <3> DEFINE rest == SumFunctionOnSet(f, (u \ {y}) \ {z})
        <3>5. SumFunctionOnSet(f, u) = f[z] + (f[y] + rest)
            BY <2>3, <3>1, <3>3
        <3>6. SumFunctionOnSet(f, u \ {y}) = f[z] + rest /\ rest \in Int
            BY <3>2, <3>4
        <3> HIDE DEF rest
        <3> QED
            BY <3>4, <3>5, <3>6
    <2> QED
        BY <2>4, <2>5
<1>3. SUBSET S \subseteq Good
    <2> HIDE DEF Good
    <2> QED
        BY <1>1, <1>2, SubsetInduction
<1> QED
    BY <1>3

LEMMA SumNat ==
    ASSUME NEW S, IsFiniteSet(S), NEW f, \A x \in S : f[x] \in Nat
    PROVE  SumFunctionOnSet(f, S) \in Nat
PROOF
<1> DEFINE Good == {u \in SUBSET S : SumFunctionOnSet(f, u) \in Nat}
<1>1. {} \in Good
    BY SumEmpty
<1>2. ASSUME NEW u \in SUBSET S, u # {}, \A x \in u : u \ {x} \in Good
      PROVE  u \in Good
    <2>1. PICK x \in u : SumFunctionOnSet(f, u) = f[x] + SumFunctionOnSet(f, u \ {x})
        BY <1>2, FS_Subset, SumFirst
    <2> QED
        BY <2>1, <1>2
<1>3. SUBSET S \subseteq Good
    <2> HIDE DEF Good
    <2> QED
        BY <1>1, <1>2, SubsetInduction
<1> QED
    BY <1>3

(* A sum of larger amounts is larger. *)
LEMMA SumMonotone ==
    ASSUME NEW S, IsFiniteSet(S), NEW e, NEW f,
           \A x \in S : e[x] \in Int /\ f[x] \in Int /\ e[x] <= f[x]
    PROVE  SumFunctionOnSet(e, S) <= SumFunctionOnSet(f, S)
PROOF
<1> DEFINE Good == {u \in SUBSET S : SumFunctionOnSet(e, u) <= SumFunctionOnSet(f, u)}
<1>1. {} \in Good
    BY SumEmpty
<1>2. ASSUME NEW u \in SUBSET S, u # {}, \A x \in u : u \ {x} \in Good
      PROVE  u \in Good
    <2>1. \A v \in SUBSET u : /\ IsFiniteSet(v)
                              /\ SumFunctionOnSet(e, v) \in Int
                              /\ SumFunctionOnSet(f, v) \in Int
        BY FS_Subset, SumInt
    <2>2. PICK x \in u : SumFunctionOnSet(e, u) = e[x] + SumFunctionOnSet(e, u \ {x})
        BY <1>2, <2>1, SumFirst
    <2>3. SumFunctionOnSet(f, u) = f[x] + SumFunctionOnSet(f, u \ {x})
        BY <2>1, SumRemove
    <2>4. /\ SumFunctionOnSet(e, u \ {x}) \in Int /\ SumFunctionOnSet(f, u \ {x}) \in Int
          /\ SumFunctionOnSet(e, u \ {x}) <= SumFunctionOnSet(f, u \ {x})
        BY <1>2, <2>1
    <2>5. e[x] \in Int /\ f[x] \in Int /\ e[x] <= f[x]
        OBVIOUS
    <2> QED
        BY <2>2, <2>3, <2>4, <2>5
<1>3. SUBSET S \subseteq Good
    <2> HIDE DEF Good
    <2> QED
        BY <1>1, <1>2, SubsetInduction
<1> QED
    BY <1>3

LEMMA SumZero ==
    ASSUME NEW S, IsFiniteSet(S), NEW f, \A x \in S : f[x] = 0
    PROVE  SumFunctionOnSet(f, S) = 0
PROOF
<1> DEFINE Good == {u \in SUBSET S : SumFunctionOnSet(f, u) = 0}
<1>1. {} \in Good
    BY SumEmpty
<1>2. ASSUME NEW u \in SUBSET S, u # {}, \A x \in u : u \ {x} \in Good
      PROVE  u \in Good
    <2>1. PICK x \in u : SumFunctionOnSet(f, u) = f[x] + SumFunctionOnSet(f, u \ {x})
        BY <1>2, FS_Subset, SumFirst
    <2> QED
        BY <2>1, <1>2
<1>3. SUBSET S \subseteq Good
    <2> HIDE DEF Good
    <2> QED
        BY <1>1, <1>2, SubsetInduction
<1> QED
    BY <1>3

(* An element that is added adds its amount. *)
LEMMA SumAdd ==
    ASSUME NEW S, IsFiniteSet(S), NEW x, x \notin S, NEW f, \A y \in S \cup {x} : f[y] \in Int
    PROVE  SumFunctionOnSet(f, S \cup {x}) = f[x] + SumFunctionOnSet(f, S)
PROOF
<1>1. IsFiniteSet(S \cup {x})
    BY FS_AddElement
<1>2. (S \cup {x}) \ {x} = S
    OBVIOUS
<1>3. SumFunctionOnSet(f, S \cup {x}) = f[x] + SumFunctionOnSet(f, (S \cup {x}) \ {x})
    BY <1>1, SumRemove
<1> QED
    BY <1>2, <1>3

(* A change of one amount changes the sum by as much. *)
LEMMA SumChange ==
    ASSUME NEW S, IsFiniteSet(S), NEW x \in S, NEW e, NEW f,
           \A y \in S : e[y] \in Int /\ f[y] \in Int /\ (y # x => e[y] = f[y])
    PROVE  SumFunctionOnSet(e, S) - e[x] = SumFunctionOnSet(f, S) - f[x]
PROOF
<1> DEFINE rest == SumFunctionOnSet(f, S \ {x})
<1>1. IsFiniteSet(S \ {x})
    BY FS_RemoveElement
<1>2. SumFunctionOnSet(e, S \ {x}) = rest
    BY <1>1, SumSame
<1>3. SumFunctionOnSet(f, S) = f[x] + rest
    BY SumRemove
<1>4. SumFunctionOnSet(e, S) = e[x] + rest
    BY <1>2, SumRemove
<1>5. rest \in Int
    BY <1>1, SumInt
<1>6. e[x] \in Int /\ f[x] \in Int
    OBVIOUS
<1> HIDE DEF rest
<1> QED
    BY <1>3, <1>4, <1>5, <1>6

(* The sum of sums of two amounts each. *)
LEMMA SumPlus ==
    ASSUME NEW S, IsFiniteSet(S), NEW e, NEW f, NEW g,
           \A x \in S : e[x] \in Int /\ f[x] \in Int /\ g[x] = e[x] + f[x]
    PROVE  SumFunctionOnSet(g, S) = SumFunctionOnSet(e, S) + SumFunctionOnSet(f, S)
PROOF
<1> DEFINE Good == {u \in SUBSET S :
                SumFunctionOnSet(g, u) = SumFunctionOnSet(e, u) + SumFunctionOnSet(f, u)}
<1>1. {} \in Good
    BY SumEmpty
<1>2. ASSUME NEW u \in SUBSET S, u # {}, \A x \in u : u \ {x} \in Good
      PROVE  u \in Good
    <2>1. \A v \in SUBSET u : /\ IsFiniteSet(v)
                              /\ SumFunctionOnSet(e, v) \in Int
                              /\ SumFunctionOnSet(f, v) \in Int
        BY FS_Subset, SumInt
    <2>2. PICK x \in u : SumFunctionOnSet(g, u) = g[x] + SumFunctionOnSet(g, u \ {x})
        BY <1>2, <2>1, SumFirst
    <2>3. SumFunctionOnSet(f, u) = f[x] + SumFunctionOnSet(f, u \ {x})
        BY <2>1, SumRemove
    <2>4. SumFunctionOnSet(e, u) = e[x] + SumFunctionOnSet(e, u \ {x})
        BY <2>1, SumRemove
    <2>5. /\ SumFunctionOnSet(e, u \ {x}) \in Int /\ SumFunctionOnSet(f, u \ {x}) \in Int
          /\ SumFunctionOnSet(g, u \ {x}) = SumFunctionOnSet(e, u \ {x}) + SumFunctionOnSet(f, u \ {x})
        BY <1>2, <2>1
    <2>6. e[x] \in Int /\ f[x] \in Int /\ g[x] = e[x] + f[x]
        OBVIOUS
    <2> QED
        BY <2>2, <2>3, <2>4, <2>5, <2>6
<1>3. SUBSET S \subseteq Good
    <2> HIDE DEF Good
    <2> QED
        BY <1>1, <1>2, SubsetInduction
<1> QED
    BY <1>3

(* A factor common to all amounts. *)
LEMMA SumScale ==
    ASSUME NEW S, IsFiniteSet(S), NEW k \in Int, NEW e, NEW f,
           \A x \in S : e[x] \in Int /\ f[x] = k * e[x]
    PROVE  SumFunctionOnSet(f, S) = k * SumFunctionOnSet(e, S)
PROOF
<1> DEFINE Good == {u \in SUBSET S : SumFunctionOnSet(f, u) = k * SumFunctionOnSet(e, u)}
<1>1. {} \in Good
    BY SumEmpty
<1>2. ASSUME NEW u \in SUBSET S, u # {}, \A x \in u : u \ {x} \in Good
      PROVE  u \in Good
    <2>1. \A v \in SUBSET u : IsFiniteSet(v) /\ SumFunctionOnSet(e, v) \in Int
        BY FS_Subset, SumInt
    <2>2. PICK x \in u : SumFunctionOnSet(f, u) = f[x] + SumFunctionOnSet(f, u \ {x})
        BY <1>2, <2>1, SumFirst
    <2>3. SumFunctionOnSet(e, u) = e[x] + SumFunctionOnSet(e, u \ {x})
        BY <2>1, SumRemove
    <2>4. /\ SumFunctionOnSet(e, u \ {x}) \in Int
          /\ SumFunctionOnSet(f, u \ {x}) = k * SumFunctionOnSet(e, u \ {x})
        BY <1>2, <2>1
    <2>5. e[x] \in Int /\ f[x] = k * e[x]
        OBVIOUS
    <2>6. \A a, b \in Int : k * a + k * b = k * (a + b)
        OBVIOUS
    <2> QED
        BY <2>2, <2>3, <2>4, <2>5, <2>6
<1>3. SUBSET S \subseteq Good
    <2> HIDE DEF Good
    <2> QED
        BY <1>1, <1>2, SubsetInduction
<1> QED
    BY <1>3

(* Elements that amount to nothing can be left out. *)
LEMMA SumOutside ==
    ASSUME NEW S, IsFiniteSet(S), NEW R \in SUBSET S, NEW f,
           \A x \in S : f[x] \in Int /\ (x \notin R => f[x] = 0)
    PROVE  SumFunctionOnSet(f, S) = SumFunctionOnSet(f, R)
PROOF
<1> DEFINE Good == {u \in SUBSET (S \ R) : SumFunctionOnSet(f, R \cup u) = SumFunctionOnSet(f, R)}
<1>1. {} \in Good
    OBVIOUS
<1>2. ASSUME NEW u \in SUBSET (S \ R), u # {}, \A x \in u : u \ {x} \in Good
      PROVE  u \in Good
    <2>1. PICK x \in u : TRUE
        BY <1>2
    <2>2. IsFiniteSet(R \cup (u \ {x})) /\ (R \cup (u \ {x})) \cup {x} = R \cup u
        BY FS_Subset
    <2>3. SumFunctionOnSet(f, R \cup u) = f[x] + SumFunctionOnSet(f, R \cup (u \ {x}))
        <3> DEFINE t == R \cup (u \ {x})
        <3>1. IsFiniteSet(t) /\ x \notin t /\ t \cup {x} = R \cup u
            BY <2>1, <2>2
        <3>2. \A y \in t \cup {x} : f[y] \in Int
            BY <2>1
        <3> HIDE DEF t
        <3>3. SumFunctionOnSet(f, t \cup {x}) = f[x] + SumFunctionOnSet(f, t)
            BY <3>1, <3>2, SumAdd
        <3> QED
            BY <3>1, <3>3 DEF t
    <2>4. SumFunctionOnSet(f, R) \in Int
        BY FS_Subset, SumInt
    <2> QED
        BY <1>2, <2>3, <2>4
<1>3. SUBSET (S \ R) \subseteq Good
    <2>1. IsFiniteSet(S \ R)
        BY FS_Subset
    <2> HIDE DEF Good
    <2> QED
        BY <1>1, <1>2, <2>1, SubsetInduction
<1>4. S \ R \in Good /\ R \cup (S \ R) = S
    BY <1>3
<1> QED
    BY <1>4

(* A sum of ones and zeros counts the ones. *)
LEMMA SumOnes ==
    ASSUME NEW S, IsFiniteSet(S), NEW R \in SUBSET S, NEW f,
           \A x \in S : f[x] = IF x \in R THEN 1 ELSE 0
    PROVE  SumFunctionOnSet(f, S) = Cardinality(R)
PROOF
<1> DEFINE Good == {u \in SUBSET R : SumFunctionOnSet(f, u) = Cardinality(u)}
<1>1. {} \in Good
    BY SumEmpty, FS_EmptySet
<1>2. ASSUME NEW u \in SUBSET R, u # {}, \A x \in u : u \ {x} \in Good
      PROVE  u \in Good
    <2>1. IsFiniteSet(u)
        BY FS_Subset
    <2>2. PICK x \in u : SumFunctionOnSet(f, u) = f[x] + SumFunctionOnSet(f, u \ {x})
        BY <1>2, <2>1, SumFirst
    <2>3. Cardinality(u \ {x}) = Cardinality(u) - 1 /\ Cardinality(u) \in Nat
        BY <2>1, FS_RemoveElement, FS_CardinalityType
    <2>4. SumFunctionOnSet(f, u \ {x}) = Cardinality(u \ {x})
        BY <1>2
    <2> QED
        BY <2>2, <2>3, <2>4
<1>3. SUBSET R \subseteq Good
    <2>1. IsFiniteSet(R)
        BY FS_Subset
    <2> HIDE DEF Good
    <2> QED
        BY <1>1, <1>2, <2>1, SubsetInduction
<1>4. SumFunctionOnSet(f, S) = SumFunctionOnSet(f, R)
    BY SumOutside
<1> QED
    BY <1>3, <1>4

(***************************************************************************)
(* The budget lease of a research Run.                                       *)
(***************************************************************************)
(* The frozen scope is what holds calls and results back once the Run ended. *)
EndInv ==
    /\ lease \in [Calls -> Lease]
    /\ terminal \in BOOLEAN
    /\ clock \in {"early", "closing", "late"}
    /\ run = "ended" => terminal

(* Settling a call keeps the leases well formed and delivers only in time.   *)
LEMMA SettleEffect ==
    ASSUME EndInv, NEW c \in Calls, NEW outcome \in Outcome, NEW used \in Nat,
           NEW ended \in BOOLEAN, Settle(c, outcome, used, ended)
    PROVE  /\ lease' \in [Calls -> Lease]
           /\ \A d \in Calls : /\ lease'[d].allowed => lease[d].allowed \/ ~Late
                               /\ lease'[d].status # "dispatched" \/ lease'[d] = lease[d]
PROOF
<1> DEFINE spent == Effective(c, outcome, used)
           now   == [status |-> "settled", spent |-> spent, outcome |-> outcome,
                     allowed |-> outcome = "success" /\ ~Late /\ ~ended /\ ~OverLimit(c, spent)]
<1>1. spent \in Nat
    BY LeaseAssumption DEF Effective
<1>2. lease' = [lease EXCEPT ![c] = now]
    BY DEF Settle
<1>3. now \in Lease /\ now.status = "settled" /\ (now.allowed => ~Late)
    BY <1>1 DEF Lease, Status
<1> HIDE DEF now, spent
<1>4. lease' \in [Calls -> Lease]
    BY <1>2, <1>3 DEF EndInv
<1>5. ASSUME NEW d \in Calls
      PROVE  /\ lease'[d].allowed => lease[d].allowed \/ ~Late
             /\ lease'[d].status # "dispatched" \/ lease'[d] = lease[d]
    <2>1. CASE d = c
        BY <2>1, <1>2, <1>3 DEF EndInv
    <2>2. CASE d # c
        BY <2>2, <1>2 DEF EndInv
    <2> QED
        BY <2>1, <2>2
<1> QED
    BY <1>4, <1>5

LEMMA EndInit == LeaseInit => EndInv
PROOF
<1> SUFFICES ASSUME LeaseInit PROVE EndInv
    OBVIOUS
<1> DEFINE fresh == [status |-> "none", spent |-> 0, outcome |-> "none", allowed |-> FALSE]
<1>1. fresh \in Lease
    BY DEF Lease, Status, Outcome
<1>2. lease = [c \in Calls |-> fresh]
    BY DEF LeaseInit
<1> HIDE DEF fresh
<1> QED
    BY <1>1, <1>2 DEF LeaseInit, EndInv

(* What one step does to the leases, and that it keeps the invariant.        *)
LEMMA EndStep ==
    ASSUME EndInv, [LeaseNext]_leaseVars
    PROVE  /\ EndInv'
           /\ run = "ended" \/ clock = "late" =>
                \A d \in Calls : /\ lease'[d].allowed => lease[d].allowed
                                 /\ lease'[d].status = "dispatched" => lease[d].status = "dispatched"
PROOF
<1> DEFINE Keeps == run = "ended" \/ clock = "late" =>
                \A d \in Calls : /\ lease'[d].allowed => lease[d].allowed
                                 /\ lease'[d].status = "dispatched" => lease[d].status = "dispatched"
<1> SUFFICES EndInv' /\ Keeps
    OBVIOUS
<1>1. ASSUME NEW c \in Calls, NEW s \in {"dispatched", "refused", "released"},
             lease' = [lease EXCEPT ![c].status = s]
      PROVE  /\ lease' \in [Calls -> Lease]
             /\ \A d \in Calls : /\ lease'[d].allowed = lease[d].allowed
                                 /\ lease'[d].status = (IF d = c THEN s ELSE lease[d].status)
    <2>1. s \in Status
        BY <1>1 DEF Status
    <2>2. lease[c] \in Lease
        BY DEF EndInv
    <2>3. [lease[c] EXCEPT !.status = s] \in Lease
        BY <2>1, <2>2 DEF Lease
    <2>4. lease' \in [Calls -> Lease]
        BY <1>1, <2>3 DEF EndInv
    <2>5. ASSUME NEW d \in Calls
          PROVE  /\ lease'[d].allowed = lease[d].allowed
                 /\ lease'[d].status = (IF d = c THEN s ELSE lease[d].status)
        <3>1. CASE d = c
            <4>1. lease'[d] = [lease[c] EXCEPT !.status = s]
                BY <1>1, <3>1 DEF EndInv
            <4> QED
                BY <4>1, <3>1, <2>2 DEF Lease
        <3>2. CASE d # c
            BY <1>1, <3>2 DEF EndInv
        <3> QED
            BY <3>1, <3>2
    <2> QED
        BY <2>4, <2>5
<1>2. ASSUME NEW c \in Calls, Start(c) PROVE EndInv' /\ Keeps
    <2>1. lease' = [lease EXCEPT ![c].status = "dispatched"] /\ UNCHANGED <<terminal, clock, run>>
        BY <1>2 DEF Start
    <2>2. ~terminal /\ clock = "early"
        BY <1>2 DEF Start, Shut
    <2>3. /\ lease' \in [Calls -> Lease]
          /\ \A d \in Calls : /\ lease'[d].allowed = lease[d].allowed
                              /\ lease'[d].status = (IF d = c THEN "dispatched" ELSE lease[d].status)
        BY <2>1, <1>1
    <2> QED
        BY <2>1, <2>2, <2>3 DEF EndInv
<1>3. ASSUME NEW c \in Calls, Refuse(c) PROVE EndInv' /\ Keeps
    <2>1. lease' = [lease EXCEPT ![c].status = "refused"] /\ UNCHANGED <<terminal, clock, run>>
        BY <1>3 DEF Refuse
    <2>2. /\ lease' \in [Calls -> Lease]
          /\ \A d \in Calls : /\ lease'[d].allowed = lease[d].allowed
                              /\ lease'[d].status = (IF d = c THEN "refused" ELSE lease[d].status)
        BY <2>1, <1>1
    <2> QED
        BY <2>1, <2>2 DEF EndInv
<1>4. ASSUME NEW c \in Calls, MissDispatch(c) PROVE EndInv' /\ Keeps
    <2>1. /\ lease' = [lease EXCEPT ![c].status = "released"]
          /\ clock' = "closing" /\ UNCHANGED <<terminal, run>>
        BY <1>4 DEF MissDispatch
    <2>2. /\ lease' \in [Calls -> Lease]
          /\ \A d \in Calls : /\ lease'[d].allowed = lease[d].allowed
                              /\ lease'[d].status = (IF d = c THEN "released" ELSE lease[d].status)
        BY <2>1, <1>1
    <2> QED
        BY <2>1, <2>2 DEF EndInv
<1>5. ASSUME NEW c \in Calls, Return(c) PROVE EndInv' /\ Keeps
    <2>1. PICK outcome \in (IF c \in Sources THEN {"success"} ELSE {"success", "failed"}),
               used \in 0 .. (Charge[c] + IF c \in Sources THEN 0 ELSE Excess) :
                   Settle(c, outcome, used, FALSE)
        BY <1>5 DEF Return
    <2>2. used \in Nat /\ outcome \in Outcome
        BY DEF Outcome
    <2>3. UNCHANGED <<terminal, clock, run>>
        BY <1>5 DEF Return
    <2>4. /\ lease' \in [Calls -> Lease]
          /\ \A d \in Calls : /\ lease'[d].allowed => lease[d].allowed \/ ~Late
                              /\ lease'[d].status # "dispatched" \/ lease'[d] = lease[d]
        BY <2>1, <2>2, SettleEffect
    <2> QED
        BY <2>3, <2>4 DEF EndInv, Late
<1>6. ASSUME NEW c \in Calls, Break(c) PROVE EndInv' /\ Keeps
    <2>1. Settle(c, "unknown", 0, FALSE)
        BY <1>6 DEF Break
    <2>2. /\ lease' \in [Calls -> Lease]
          /\ \A d \in Calls : /\ lease'[d].allowed => lease[d].allowed \/ ~Late
                              /\ lease'[d].status # "dispatched" \/ lease'[d] = lease[d]
        BY <2>1, SettleEffect DEF Outcome
    <2>3. UNCHANGED <<terminal, clock, run>>
        BY <1>6 DEF Break
    <2> QED
        BY <2>2, <2>3 DEF EndInv, Late
<1>7. ASSUME NEW c \in Calls, SlowSource(c) \/ Cancelled(c) PROVE EndInv' /\ Keeps
    <2>1. Settle(c, "unknown", 0, TRUE) /\ terminal' = TRUE /\ UNCHANGED <<clock, run>>
        BY <1>7 DEF SlowSource, Cancelled
    <2>2. /\ lease' \in [Calls -> Lease]
          /\ \A d \in Calls : /\ lease'[d].allowed => lease[d].allowed \/ ~Late
                              /\ lease'[d].status # "dispatched" \/ lease'[d] = lease[d]
        BY <2>1, SettleEffect DEF Outcome
    <2> QED
        BY <2>1, <2>2 DEF EndInv, Late
<1>8. CASE AskStop \/ Freeze \/ Tick \/ UNCHANGED leaseVars
    BY <1>8 DEF AskStop, Freeze, Tick, leaseVars, EndInv
<1> QED
    BY <1>2, <1>3, <1>4, <1>5, <1>6, <1>7, <1>8 DEF LeaseNext, Finish

(* After its end, or after its deadline, a Run sends no call out and delivers *)
(* no result that was still on its way: what freezing the scope is for        *)
(* (_mark_terminal, settle).                                                  *)
THEOREM FrozenForGood == LeaseSpec => NothingAfterTheEnd
PROOF
<1>1. EndInv /\ [LeaseNext]_leaseVars => EndInv'
    BY EndStep
<1>2. EndInv /\ [LeaseNext]_leaseVars =>
        [run = "ended" \/ clock = "late" =>
            \A c \in Calls : /\ lease'[c].allowed => lease[c].allowed
                             /\ lease'[c].status = "dispatched" => lease[c].status = "dispatched"]_leaseVars
    BY EndStep
<1> QED
    BY <1>1, <1>2, EndInit, PTL DEF LeaseSpec, NothingAfterTheEnd

-----------------------------------------------------------------------------
(* The ledger.  That nothing was spent before a call is settled is what makes *)
(* the totals move with each step by what the step says.                      *)
Unspent == \A c \in Calls : lease[c].status # "settled" => lease[c].spent = 0

LeaseInv == LeaseTypeOK /\ Unspent /\ Balanced /\ WithinLimit /\ HonestDelivered

Allowance == Limit - OutputReserve

(* The charges, what was spent and what went beyond are natural numbers.      *)
LEMMA AmountsNatural ==
    ASSUME LeaseTypeOK
    PROVE  /\ Allowance \in Nat /\ \A c \in Calls : Charge[c] \in Nat
           /\ Open \subseteq Calls /\ IsFiniteSet(Open) /\ IsFiniteSet(Calls)
           /\ \A c \in Calls : Overrun[c] \in Nat /\ lease[c].spent \in Nat
           /\ Spent \in Nat /\ Reserved \in Nat /\ SumFunctionOnSet(Overrun, Calls) \in Nat
PROOF
<1>1. Allowance \in Nat /\ (\A c \in Calls : Charge[c] \in Nat) /\ IsFiniteSet(Calls)
    BY LeaseAssumption DEF Allowance
<1>2. Open \subseteq Calls /\ IsFiniteSet(Open)
    BY <1>1, FS_Subset DEF Open
<1>3. \A c \in Calls : lease[c].spent \in Nat
    BY DEF LeaseTypeOK, Lease
<1>4. \A c \in Calls : Overrun[c] \in Nat
    BY <1>1, <1>3 DEF Overrun
<1>5. Reserved \in Nat /\ SumFunctionOnSet(Overrun, Calls) \in Nat
    BY <1>1, <1>2, <1>4, SumNat DEF Reserved
<1>6. Spent \in Nat
    BY <1>1, <1>3, SumNat DEF Spent
<1> QED
    BY <1>1, <1>2, <1>3, <1>4, <1>5, <1>6

LEMMA LedgerInit == LeaseInit => LeaseInv
PROOF
<1> SUFFICES ASSUME LeaseInit PROVE LeaseInv
    OBVIOUS
<1> DEFINE fresh == [status |-> "none", spent |-> 0, outcome |-> "none", allowed |-> FALSE]
<1>1. fresh \in Lease
    BY DEF Lease, Status, Outcome
<1>2. lease = [c \in Calls |-> fresh]
    BY DEF LeaseInit
<1>3. \A c \in Calls : lease[c] = fresh
    BY <1>2
<1>4. LeaseTypeOK
    BY <1>1, <1>2 DEF LeaseInit, LeaseTypeOK
<1>5. Unspent
    BY <1>3 DEF Unspent
<1>6. Open = {}
    BY <1>3 DEF Open
<1>7. Spent = 0
    BY <1>3, LeaseAssumption, SumZero DEF Spent
<1>8. Balanced
    BY <1>6, <1>7, SumEmpty DEF Balanced, Reserved, LeaseInit
<1>9. WithinLimit
    BY <1>4, AmountsNatural DEF WithinLimit, LeaseInit, Allowance
<1>10. HonestDelivered
    BY <1>3 DEF HonestDelivered
<1> QED
    BY <1>4, <1>5, <1>8, <1>9, <1>10 DEF LeaseInv

(* A call that has not gone out changes its status: it goes out, is refused   *)
(* or is released.                                                            *)
LEMMA MarkKeeps ==
    ASSUME LeaseInv, NEW c \in Calls, NEW s \in {"dispatched", "refused", "released"},
           lease[c].status = "none", lease' = [lease EXCEPT ![c].status = s]
    PROVE  /\ lease' \in [Calls -> Lease]
           /\ Unspent' /\ Spent' = Spent /\ Overrun' = Overrun
           /\ Open' = IF s = "dispatched" THEN Open \cup {c} ELSE Open
           /\ c \notin Open
           /\ \A d \in Calls : lease'[d].outcome = lease[d].outcome /\ lease'[d].allowed = lease[d].allowed
PROOF
<1>1. lease \in [Calls -> Lease]
    BY DEF LeaseInv, LeaseTypeOK
<1>2. s \in Status
    BY DEF Status
<1>3. lease' \in [Calls -> Lease]
    BY <1>1, <1>2 DEF Lease
<1>4. \A d \in Calls : /\ lease'[d].spent = lease[d].spent
                       /\ lease'[d].outcome = lease[d].outcome
                       /\ lease'[d].allowed = lease[d].allowed
                       /\ lease'[d].status = IF d = c THEN s ELSE lease[d].status
    BY <1>1 DEF Lease
<1>5. Unspent'
    BY <1>4 DEF LeaseInv, Unspent
<1>6. Spent' = Spent
    BY <1>4 DEF Spent
<1>7. Overrun' = Overrun
    BY <1>4 DEF Overrun
<1>8. Open' = (IF s = "dispatched" THEN Open \cup {c} ELSE Open) /\ c \notin Open
    BY <1>4 DEF Open
<1> QED
    BY <1>3, <1>4, <1>5, <1>6, <1>7, <1>8

(* A call is settled: what it reserved goes, what it used comes, and what it  *)
(* used beyond its reservation may exceed the limit.                          *)
LEMMA SettleKeeps ==
    ASSUME LeaseInv, NEW c \in Open, NEW outcome \in Outcome, NEW used \in Nat,
           NEW ended \in BOOLEAN, Settle(c, outcome, used, ended),
           Late => Late', ended => terminal'
    PROVE  /\ totals' \in [used : Nat, reserved : Nat]
           /\ lease' \in [Calls -> Lease]
           /\ Unspent' /\ Balanced' /\ WithinLimit' /\ HonestDelivered'
PROOF
<1> DEFINE spent == Effective(c, outcome, used)
           now   == [status |-> "settled", spent |-> spent, outcome |-> outcome,
                     allowed |-> outcome = "success" /\ ~Late /\ ~ended /\ ~OverLimit(c, spent)]
           over  == IF spent > Charge[c] THEN spent - Charge[c] ELSE 0
<1>1. LeaseTypeOK /\ Unspent /\ Balanced /\ WithinLimit /\ HonestDelivered
    BY DEF LeaseInv
<1>2. /\ c \in Calls /\ Allowance \in Nat /\ Charge[c] \in Nat
      /\ IsFiniteSet(Calls) /\ IsFiniteSet(Open)
      /\ \A d \in Calls : Charge[d] \in Nat /\ Overrun[d] \in Nat /\ lease[d].spent \in Nat
    BY <1>1, AmountsNatural
<1>3. spent \in Nat
    BY <1>2 DEF Effective
<1>4. lease' = [lease EXCEPT ![c] = now]
    BY DEF Settle
<1>5. now \in Lease /\ now.status = "settled" /\ now.spent = spent
    BY <1>3 DEF Lease, Status
<1>6. totals.used \in Nat /\ totals.reserved \in Nat
    BY <1>1 DEF LeaseTypeOK
<1>7. totals'.used = totals.used + spent /\ totals'.reserved = totals.reserved - Charge[c]
    BY DEF Settle, Remaining
<1>8. lease' \in [Calls -> Lease]
    <2> HIDE DEF now, spent
    <2> QED
        BY <1>1, <1>4, <1>5 DEF LeaseTypeOK
<1>9. lease'[c] = now /\ \A d \in Calls : d # c => lease'[d] = lease[d]
    <2> HIDE DEF now, spent
    <2> QED
        BY <1>1, <1>2, <1>4 DEF LeaseTypeOK
<1>10. Unspent'
    BY <1>1, <1>5, <1>9 DEF Unspent
<1>11. Open' = Open \ {c}
    BY <1>5, <1>9 DEF Open
<1>12. Reserved = Charge[c] + Reserved'
    <2>1. SumFunctionOnSet(Charge, Open) = Charge[c] + SumFunctionOnSet(Charge, Open \ {c})
        BY <1>2, SumRemove DEF Open
    <2> QED
        BY <2>1, <1>11 DEF Reserved
<1>13. Reserved' \in Nat
    BY <1>2, <1>11, FS_Subset, SumNat DEF Reserved, Open
<1>14. totals'.reserved = Reserved'
    BY <1>1, <1>2, <1>7, <1>12, <1>13 DEF Balanced
<1>15. lease[c].spent = 0 /\ Overrun[c] = 0
    BY <1>1, <1>2 DEF Unspent, Open, Overrun
<1>16. Spent' = Spent + spent
    <2> DEFINE f == [d \in Calls |-> lease[d].spent]
               e == [d \in Calls |-> lease'[d].spent]
    <2>1. e[c] = spent /\ f[c] = 0
        BY <1>2, <1>5, <1>9, <1>15
    <2>2. \A d \in Calls : e[d] \in Int /\ f[d] \in Int /\ (d # c => e[d] = f[d])
        BY <1>2, <1>3, <1>9, <2>1
    <2>3. SumFunctionOnSet(e, Calls) - e[c] = SumFunctionOnSet(f, Calls) - f[c]
        <3> HIDE DEF e, f
        <3> QED
            BY <1>2, <2>2, SumChange
    <2>4. SumFunctionOnSet(e, Calls) \in Int /\ SumFunctionOnSet(f, Calls) \in Int
        <3> HIDE DEF e, f
        <3> QED
            BY <1>2, <2>2, SumInt
    <2>5. Spent = SumFunctionOnSet(f, Calls) /\ Spent' = SumFunctionOnSet(e, Calls)
        BY DEF Spent
    <2> HIDE DEF e, f
    <2> QED
        BY <2>1, <2>3, <2>4, <2>5, <1>3
<1>17. Overrun'[c] = over /\ \A d \in Calls : d # c => Overrun'[d] = Overrun[d]
    BY <1>2, <1>5, <1>9 DEF Overrun
<1>18. /\ SumFunctionOnSet(Overrun', Calls) = SumFunctionOnSet(Overrun, Calls) + over
       /\ SumFunctionOnSet(Overrun, Calls) \in Nat
    <2>1. over \in Nat
        BY <1>2, <1>3
    <2>2. \A d \in Calls : Overrun'[d] \in Int /\ Overrun[d] \in Int /\ (d # c => Overrun'[d] = Overrun[d])
        BY <1>2, <1>17, <2>1
    <2>3. SumFunctionOnSet(Overrun', Calls) - Overrun'[c] = SumFunctionOnSet(Overrun, Calls) - Overrun[c]
        BY <1>2, <2>2, SumChange
    <2>4. SumFunctionOnSet(Overrun', Calls) \in Int /\ SumFunctionOnSet(Overrun, Calls) \in Nat
        BY <1>1, <1>2, <2>2, SumInt, AmountsNatural
    <2> HIDE DEF over
    <2> QED
        BY <2>1, <2>3, <2>4, <1>15, <1>17
<1>19. Balanced'
    BY <1>1, <1>7, <1>14, <1>16 DEF Balanced
<1>20. WithinLimit'
    <2>1. totals.used + totals.reserved <= Allowance + SumFunctionOnSet(Overrun, Calls)
        BY <1>1 DEF WithinLimit, Allowance
    <2>2. spent <= Charge[c] + over
        BY <1>2, <1>3
    <2>3. totals'.used + totals'.reserved <= Allowance + SumFunctionOnSet(Overrun', Calls)
        <3> HIDE DEF spent, over
        <3>1. over \in Nat
            BY <1>2, <1>3 DEF over
        <3> QED
            BY <2>1, <2>2, <3>1, <1>2, <1>3, <1>6, <1>7, <1>18
    <2> QED
        BY <2>3 DEF WithinLimit, Allowance
<1>21. HonestDelivered'
    <2> SUFFICES ASSUME \A d \in Calls : Overrun'[d] = 0, NEW d \in Calls,
                        lease'[d].outcome = "success", ~lease'[d].allowed
                 PROVE  Late'
        BY DEF HonestDelivered
    <2>1. \A x \in Calls : Overrun[x] = 0
        BY <1>15, <1>17
    <2>2. CASE d # c
        BY <2>1, <2>2, <1>1, <1>9 DEF HonestDelivered
    <2>3. CASE d = c
        <3>1. spent <= Charge[c]
            <4>1. over = 0
                BY <1>2, <1>17
            <4> HIDE DEF spent
            <4> QED
                BY <4>1, <1>2, <1>3
        <3>2. SumFunctionOnSet(Overrun, Calls) = 0
            BY <2>1, <1>2, SumZero
        <3>3. totals.used + totals.reserved <= Allowance
            BY <3>2, <1>1, <1>2 DEF WithinLimit, Allowance
        <3>4. ~OverLimit(c, spent)
            <4> HIDE DEF spent
            <4> QED
                BY <3>1, <3>3, <1>2, <1>3, <1>6 DEF OverLimit, Within, Allowance
        <3>5. Late \/ ended
            <4>1. now.outcome = outcome
                OBVIOUS
            <4>2. now.allowed = (outcome = "success" /\ ~Late /\ ~ended /\ ~OverLimit(c, spent))
                OBVIOUS
            <4>3. now.outcome = "success" /\ ~now.allowed
                BY <2>3, <1>9
            <4> QED
                BY <4>1, <4>2, <4>3, <3>4, Zenon
        <3> QED
            BY <3>5 DEF Late
    <2> QED
        BY <2>2, <2>3
<1>22. totals' \in [used : Nat, reserved : Nat]
    <2>1. totals' = [used |-> totals.used + spent, reserved |-> totals.reserved - Charge[c]]
        BY DEF Settle, Remaining
    <2> HIDE DEF spent
    <2> QED
        BY <2>1, <1>3, <1>6, <1>13, <1>14
<1> QED
    BY <1>8, <1>10, <1>19, <1>20, <1>21, <1>22

(* One step per action.                                                       *)
LEMMA LeaseStep ==
    ASSUME LeaseInv, [LeaseNext]_leaseVars
    PROVE  LeaseInv'
PROOF
<1>1. LeaseTypeOK /\ Unspent /\ Balanced /\ WithinLimit /\ HonestDelivered
    BY DEF LeaseInv
<1>2. /\ Allowance \in Nat /\ IsFiniteSet(Calls) /\ IsFiniteSet(Open) /\ Open \subseteq Calls
      /\ \A c \in Calls : Charge[c] \in Nat
      /\ SumFunctionOnSet(Overrun, Calls) \in Nat
    BY <1>1, AmountsNatural
<1>3. totals \in [used : Nat, reserved : Nat] /\ totals.used \in Nat /\ totals.reserved \in Nat
    BY <1>1 DEF LeaseTypeOK
<1>4. ASSUME NEW c \in Calls, Start(c) PROVE LeaseInv'
    <2>1. /\ lease[c].status = "none" /\ Fits(c)
          /\ totals' = [totals EXCEPT !.reserved = @ + Charge[c]]
          /\ lease' = [lease EXCEPT ![c].status = "dispatched"]
          /\ UNCHANGED <<terminal, clock, run>>
        BY <1>4 DEF Start
    <2>2. /\ lease' \in [Calls -> Lease]
          /\ Unspent' /\ Spent' = Spent /\ Overrun' = Overrun
          /\ Open' = Open \cup {c} /\ c \notin Open
          /\ \A d \in Calls : lease'[d].outcome = lease[d].outcome /\ lease'[d].allowed = lease[d].allowed
        BY <2>1, MarkKeeps
    <2>3. totals'.used = totals.used /\ totals'.reserved = totals.reserved + Charge[c]
        BY <2>1, <1>3
    <2>4. LeaseTypeOK'
        <3>1. totals' \in [used : Nat, reserved : Nat]
            BY <2>1, <1>2, <1>3
        <3> QED
            BY <3>1, <2>1, <2>2, <1>1 DEF LeaseTypeOK
    <2>5. Balanced'
        <3>1. Reserved' = Charge[c] + Reserved
            <4>1. SumFunctionOnSet(Charge, Open \cup {c}) = Charge[c] + SumFunctionOnSet(Charge, Open)
                <5>1. \A d \in Open \cup {c} : Charge[d] \in Int
                    BY <1>2
                <5> QED
                    BY <5>1, <2>2, <1>2, SumAdd
            <4> QED
                BY <4>1, <2>2 DEF Reserved
        <3> QED
            BY <3>1, <2>2, <2>3, <1>1, <1>2, <1>3 DEF Balanced
    <2>6. WithinLimit'
        <3>1. totals.used + totals.reserved + Charge[c] <= Allowance
            BY <2>1 DEF Fits, Within, Allowance
        <3> QED
            BY <3>1, <2>2, <2>3, <1>2, <1>3 DEF WithinLimit, Allowance
    <2>7. HonestDelivered'
        BY <2>1, <2>2, <1>1 DEF HonestDelivered, Late
    <2> QED
        BY <2>2, <2>4, <2>5, <2>6, <2>7 DEF LeaseInv
<1>5. ASSUME NEW c \in Calls, Refuse(c) \/ MissDispatch(c) PROVE LeaseInv'
    <2>1. PICK s \in {"refused", "released"} :
            lease[c].status = "none" /\ lease' = [lease EXCEPT ![c].status = s]
        BY <1>5 DEF Refuse, MissDispatch
    <2>2. UNCHANGED <<totals, terminal, run>> /\ (clock' = clock \/ (clock = "early" /\ clock' = "closing"))
        BY <1>5 DEF Refuse, MissDispatch, Shut
    <2>3. /\ lease' \in [Calls -> Lease]
          /\ Unspent' /\ Spent' = Spent /\ Overrun' = Overrun /\ Open' = Open
          /\ \A d \in Calls : lease'[d].outcome = lease[d].outcome /\ lease'[d].allowed = lease[d].allowed
        BY <2>1, MarkKeeps
    <2>4. LeaseTypeOK'
        BY <2>2, <2>3, <1>1 DEF LeaseTypeOK
    <2>5. Balanced' /\ WithinLimit'
        BY <2>2, <2>3, <1>1 DEF Balanced, WithinLimit, Reserved
    <2>6. HonestDelivered'
        BY <2>2, <2>3, <1>1 DEF HonestDelivered, Late
    <2> QED
        BY <2>3, <2>4, <2>5, <2>6 DEF LeaseInv
<1>6. ASSUME NEW c \in Calls, Finish(c) PROVE LeaseInv'
    <2>1. PICK outcome \in Outcome, used \in Nat, ended \in BOOLEAN :
            Settle(c, outcome, used, ended) /\ (ended => terminal')
        <3>1. CASE Return(c)
            <4>1. PICK outcome \in (IF c \in Sources THEN {"success"} ELSE {"success", "failed"}),
                       used \in 0 .. (Charge[c] + IF c \in Sources THEN 0 ELSE Excess) :
                           Settle(c, outcome, used, FALSE)
                BY <3>1 DEF Return
            <4>2. used \in Nat /\ outcome \in Outcome
                BY DEF Outcome
            <4> QED
                BY <4>1, <4>2
        <3>2. CASE Break(c)
            <4>1. Settle(c, "unknown", 0, FALSE)
                BY <3>2 DEF Break
            <4> QED
                BY <4>1 DEF Outcome
        <3>3. CASE SlowSource(c) \/ Cancelled(c)
            <4>1. Settle(c, "unknown", 0, TRUE) /\ terminal' = TRUE
                BY <3>3 DEF SlowSource, Cancelled
            <4> QED
                BY <4>1 DEF Outcome
        <3> QED
            BY <3>1, <3>2, <3>3, <1>6 DEF Finish
    <2>2. c \in Open /\ UNCHANGED <<clock, run>> /\ terminal' \in {terminal, TRUE}
        BY <1>6 DEF Finish, Return, Break, SlowSource, Cancelled
    <2>3. Late => Late'
        BY <2>2 DEF Late
    <2>4. /\ totals' \in [used : Nat, reserved : Nat]
          /\ lease' \in [Calls -> Lease]
          /\ Unspent' /\ Balanced' /\ WithinLimit' /\ HonestDelivered'
        BY <2>1, <2>2, <2>3, SettleKeeps
    <2>5. LeaseTypeOK'
        BY <2>2, <2>4, <1>1 DEF LeaseTypeOK
    <2> QED
        BY <2>4, <2>5 DEF LeaseInv
<1>7. CASE AskStop \/ Freeze \/ Tick \/ UNCHANGED leaseVars
    <2>1. /\ UNCHANGED <<totals, lease>> /\ terminal' \in {terminal, TRUE}
          /\ clock' \in {clock, "closing", "late"} /\ (clock = "late" => clock' = "late")
          /\ run' \in {run, "cancelled", "ended"}
        BY <1>7 DEF AskStop, Freeze, Tick, leaseVars
    <2>2. LeaseTypeOK'
        BY <2>1, <1>1 DEF LeaseTypeOK
    <2>3. Unspent' /\ Balanced' /\ WithinLimit'
        BY <2>1, <1>1 DEF Unspent, Balanced, WithinLimit, Reserved, Spent, Overrun, Open
    <2>4. HonestDelivered'
        <3>1. Overrun' = Overrun
            BY <2>1 DEF Overrun
        <3>2. Late => Late'
            BY <2>1 DEF Late
        <3> QED
            BY <3>1, <3>2, <2>1, <1>1 DEF HonestDelivered
    <2> QED
        BY <2>2, <2>3, <2>4 DEF LeaseInv
<1> QED
    BY <1>4, <1>5, <1>6, <1>7 DEF LeaseNext, Finish

(* The inductive invariant of the budget, for every set of calls, charges and *)
(* limits and every order in which calls that overlap start and end.          *)
THEOREM LedgerInvariance == LeaseSpec => []LeaseInv
PROOF
<1>1. LeaseInv /\ [LeaseNext]_leaseVars => LeaseInv'
    BY LeaseStep
<1> QED
    BY <1>1, LedgerInit, PTL DEF LeaseSpec

(* The ledger is well-formed, its totals are those of the calls in flight and *)
(* of the calls settled, and it exceeds the Run's limit only by what models   *)
(* used beyond their estimates (reserve, settle).                             *)
THEOREM LedgerTrue == LeaseSpec => []LedgerInvariant
PROOF
<1>1. LeaseInv => LedgerInvariant
    BY DEF LeaseInv, LedgerInvariant
<1> QED
    BY <1>1, LedgerInvariance, PTL

(* As long as no call went beyond its estimate, a result is withheld only     *)
(* because it came late (settle: result_allowed).                             *)
THEOREM NothingWithheld == LeaseSpec => []HonestDelivered
PROOF
<1>1. LeaseInv => HonestDelivered
    BY DEF LeaseInv
<1> QED
    BY <1>1, LedgerInvariance, PTL

(***************************************************************************)
(* A scenario.                                                               *)
(***************************************************************************)
Active     == {"next", "working", "answered"}
Unfinished == {t \in Tasks : status[t] \in {"pending", "ready"}}

Shape ==
    /\ plan.deps \in [Tasks -> SUBSET Tasks]
    /\ status \in [Tasks -> {"pending", "ready", "succeeded", "failed"}]
    /\ delivered \subseteq Tasks
    /\ wave \subseteq Tasks
    /\ job \in [Tasks -> Job]
    /\ rounds \in Nat

\* The statuses say what was delivered, and what waits for what.
Accounted ==
    /\ \A t \in Tasks : status[t] = "succeeded" <=> t \in delivered
    /\ \A t \in wave : status[t] = "ready"
    /\ \A t \in Tasks : status[t] = "ready" => \A u \in plan.deps[t] : status[u] = "succeeded"
    /\ \A t \in Tasks : status[t] = "pending" => \E u \in plan.deps[t] : status[u] # "succeeded"

\* Only the tasks of the wave are under way.
Jobs ==
    /\ \A t \in Tasks : job[t].stage \in Active => t \in wave
    /\ \A t \in Tasks : job[t].stage = "succeeded" => job[t].reply \in {"envelope", "garbled"}

\* Every wave finishes a task, so the waves left are enough for those unfinished.
Enough ==
    verdict = "none" =>
        Cardinality(Unfinished) <= rounds + (IF wave = {} THEN 0 ELSE 1)

Final ==
    /\ verdict # "none" => wave = {}
    /\ WavesSuffice
    /\ VerdictHonest

IInv == Shape /\ Accounted /\ Jobs /\ Enough /\ Final

-----------------------------------------------------------------------------
(* Of any tasks that are ready, at least one starts: the one with the least id. *)
LEMMA FirstNonEmpty ==
    ASSUME NEW S \in SUBSET Tasks, S # {}
    PROVE  First(S) # {}
<1>1. S \subseteq Nat BY LedgerAssumption
<1>2. PICK m \in S : \A u \in S : ~(u < m)
    <2>1. IsWellFoundedOn(OpToRel(<,Nat), Nat) BY NatLessThanWellFounded
    <2>2. PICK m \in S : \A u \in S : ~(<<u, m>> \in OpToRel(<,Nat))
        BY <1>1, <2>1, WFMin
    <2>3. \A u \in S : u < m => <<u, m>> \in OpToRel(<,Nat) BY <1>1 DEF OpToRel
    <2> QED BY <2>2, <2>3
<1>3. {u \in S : u < m} = {} BY <1>2
<1>4. Cardinality({u \in S : u < m}) = 0 BY <1>3, FS_EmptySet
<1>5. 0 < MaxParallel BY WavesAssumption
<1> QED BY <1>2, <1>4, <1>5 DEF First

(* A scenario starts with nothing delivered and a wave for every task. *)
LEMMA InitIInv == Init => IInv
<1> SUFFICES ASSUME Init PROVE IInv OBVIOUS
<1>1. PICK deps \in Graphs : \E request \in Requests :
        /\ plan = [deps |-> deps, request |-> request]
        /\ status = [t \in Tasks |-> IF deps[t] = {} THEN "ready" ELSE "pending"]
    BY DEF Init
<1>2. deps \in [Tasks -> SUBSET Tasks] /\ plan.deps = deps BY <1>1, WavesAssumption
<1>3. Cardinality(Tasks) \in Nat BY LedgerAssumption, FS_CardinalityType
<1>4. Shape BY <1>1, <1>2, <1>3 DEF Init, Shape, RoundsOf, Idle, Job, Stage, Reply
<1>5. \A t \in Tasks : status[t] \in {"pending", "ready"} BY <1>1
<1>6. Accounted BY <1>1, <1>2, <1>5 DEF Init, Accounted
<1>7. Jobs BY DEF Init, Jobs, Idle, Active
<1>8. Enough
    <2>1. Unfinished = Tasks BY <1>5 DEF Unfinished
    <2> QED BY <1>3, <2>1 DEF Init, Enough, RoundsOf
<1>9. Final BY DEF Init, Final, WavesSuffice, VerdictHonest, Shown
<1> QED BY <1>4, <1>6, <1>7, <1>8, <1>9 DEF IInv

(* A step of one task under way changes its own record and nothing the       *)
(* supervisor keeps.                                                          *)
LEMMA TaskStep ==
    ASSUME IInv, Scheduling,
           NEW t \in Tasks, job[t].stage \in Active,
           NEW j \in Job, j.stage = "succeeded" => j.reply \in {"envelope", "garbled"},
           job' = [job EXCEPT ![t] = j]
    PROVE  IInv'
<1>1. /\ plan' = plan /\ status' = status /\ delivered' = delivered
      /\ wave' = wave /\ rounds' = rounds /\ verdict' = verdict
    BY DEF Scheduling
<1>2. Shape' BY <1>1 DEF IInv, Shape
<1>3. Accounted' BY <1>1 DEF IInv, Accounted
<1>4. t \in wave BY DEF IInv, Jobs
<1>5. job \in [Tasks -> Job] BY DEF IInv, Shape
<1>6. Jobs'
    <2>1. ASSUME NEW u \in Tasks, u # t PROVE job'[u] = job[u] BY <1>5, <2>1
    <2>2. job'[t] = j BY <1>5
    <2> QED BY <1>1, <1>4, <2>1, <2>2 DEF IInv, Jobs
<1>7. Enough' BY <1>1 DEF IInv, Enough, Unfinished
<1>8. Final' BY <1>1 DEF IInv, Final, WavesSuffice, VerdictHonest, Shown
<1> QED BY <1>2, <1>3, <1>6, <1>7, <1>8 DEF IInv

(* A wave begins with tasks that are ready, at least one, and uses up one of  *)
(* the rounds.                                                                *)
LEMMA StartWaveStep == IInv /\ StartWave => IInv'
<1> SUFFICES ASSUME IInv, StartWave PROVE IInv' OBVIOUS
<1>1. /\ wave = {} /\ rounds > 0 /\ Ready # {} /\ verdict = "none"
      /\ wave' = First(Ready) /\ rounds' = rounds - 1
      /\ job' = [t \in Tasks |-> IF t \in First(Ready)
                                 THEN [Idle EXCEPT !.stage = "next"] ELSE job[t]]
      /\ plan' = plan /\ status' = status /\ delivered' = delivered /\ verdict' = verdict
    BY DEF StartWave
<1>2. First(Ready) \subseteq Ready /\ Ready \subseteq Tasks BY DEF First, Ready
<1>3. First(Ready) # {} BY <1>1, <1>2, FirstNonEmpty
<1>4. /\ [Idle EXCEPT !.stage = "next"] \in Job
      /\ [Idle EXCEPT !.stage = "next"].stage = "next"
    BY DEF Idle, Job, Stage, Reply
<1>5. Shape' BY <1>1, <1>2, <1>4 DEF IInv, Shape
<1>6. Accounted' BY <1>1, <1>2 DEF IInv, Accounted, Ready
<1>7. Jobs'
    <2>1. ASSUME NEW t \in Tasks, t \notin First(Ready)
          PROVE  job'[t] = job[t] /\ job[t].stage \notin Active
        BY <1>1, <2>1 DEF IInv, Jobs
    <2>2. ASSUME NEW t \in First(Ready)
          PROVE  job'[t].stage = "next"
        BY <1>1, <1>2, <1>4
    <2>3. ASSUME NEW t \in Tasks, job'[t].stage \in Active PROVE t \in wave'
        BY <1>1, <2>1, <2>3
    <2>4. ASSUME NEW t \in Tasks, job'[t].stage = "succeeded"
          PROVE  job'[t].reply \in {"envelope", "garbled"}
        BY <2>1, <2>2, <2>4 DEF IInv, Jobs
    <2> QED BY <2>3, <2>4 DEF Jobs
<1>8. Enough'
    <2>1. Unfinished' = Unfinished BY <1>1 DEF Unfinished
    <2>2. rounds \in Nat BY DEF IInv, Shape
    <2>3. Cardinality(Unfinished) <= rounds BY <1>1, <2>2 DEF IInv, Enough
    <2> QED BY <1>1, <1>3, <2>1, <2>2, <2>3 DEF Enough
<1>9. Final' BY <1>1 DEF Final, WavesSuffice, VerdictHonest, Shown
<1> QED BY <1>5, <1>6, <1>7, <1>8, <1>9 DEF IInv

(* The end of a wave finishes its tasks and frees those that waited for them. *)
LEMMA EndWaveStep == IInv /\ EndWave => IInv'
<1> SUFFICES ASSUME IInv, EndWave PROVE IInv' OBVIOUS
<1> DEFINE now == [t \in Tasks |-> IF t \in wave THEN Settled(job[t]) ELSE status[t]]
<1>1. /\ wave # {} /\ wave' = {}
      /\ \A t \in wave : job[t].stage \in {"succeeded", "failed"}
      /\ status' = [t \in Tasks |->
                      IF now[t] = "pending" /\ \A u \in plan.deps[t] : now[u] = "succeeded"
                      THEN "ready" ELSE now[t]]
      /\ delivered' = delivered \cup
             {t \in wave : job[t].stage = "succeeded" /\ job[t].reply = "envelope"}
      /\ plan' = plan /\ job' = job /\ rounds' = rounds /\ verdict' = verdict
    BY DEF EndWave
<1>2. /\ plan.deps \in [Tasks -> SUBSET Tasks] /\ wave \subseteq Tasks
      /\ status \in [Tasks -> {"pending", "ready", "succeeded", "failed"}]
      /\ delivered \subseteq Tasks /\ rounds \in Nat
    BY DEF IInv, Shape
<1>3. verdict = "none" BY <1>1 DEF IInv, Final
<1>4. ASSUME NEW t \in Tasks
      PROVE  now[t] = IF t \in wave THEN Settled(job[t]) ELSE status[t]
    OBVIOUS
<1>5. ASSUME NEW t \in wave
      PROVE  /\ now[t] \in {"succeeded", "failed"}
             /\ now[t] = "succeeded" <=> job[t].stage = "succeeded" /\ job[t].reply = "envelope"
    <2>1. now[t] = Settled(job[t]) BY <1>2, <1>4
    <2>2. job[t].stage = "succeeded" => job[t].reply \in {"envelope", "garbled"}
        BY <1>2 DEF IInv, Jobs
    <2>3. job[t].stage \in {"succeeded", "failed"} BY <1>1
    <2> QED BY <2>1, <2>2, <2>3 DEF Settled
<1>6. ASSUME NEW t \in Tasks
      PROVE  /\ now[t] \in {"pending", "ready", "succeeded", "failed"}
             /\ now[t] = "succeeded" <=> t \in delivered'
    <2>1. CASE t \in wave
        <3>1. status[t] = "ready" BY <2>1 DEF IInv, Accounted
        <3>2. t \notin delivered BY <3>1 DEF IInv, Accounted
        <3> QED BY <1>1, <1>5, <2>1, <3>2
    <2>2. CASE t \notin wave
        <3>1. now[t] = status[t] BY <1>4, <2>2
        <3>2. status[t] = "succeeded" <=> t \in delivered BY DEF IInv, Accounted
        <3> QED BY <1>1, <1>2, <2>2, <3>1, <3>2
    <2> QED BY <2>1, <2>2
<1>7. ASSUME NEW t \in Tasks
      PROVE  /\ now[t] = "ready" => status[t] = "ready" /\ t \notin wave
             /\ now[t] = "pending" => status[t] = "pending" /\ t \notin wave
    BY <1>4, <1>5
<1>8. ASSUME NEW t \in Tasks, status[t] = "succeeded" PROVE now[t] = "succeeded"
    <2>1. t \notin wave BY <1>8 DEF IInv, Accounted
    <2> QED BY <1>4, <1>8, <2>1
<1> HIDE DEF now
<1>9. ASSUME NEW t \in Tasks
      PROVE  /\ status'[t] \in {"pending", "ready", "succeeded", "failed"}
             /\ status'[t] = "succeeded" <=> now[t] = "succeeded"
             /\ status'[t] = "failed" <=> now[t] = "failed"
             /\ status'[t] = "pending" <=>
                    (now[t] = "pending" /\ \E u \in plan.deps[t] : now[u] # "succeeded")
             /\ status'[t] = "ready" =>
                    (now[t] = "ready" \/ \A u \in plan.deps[t] : now[u] = "succeeded")
    BY <1>1, <1>6
<1>10. Shape'
    <2>1. status' \in [Tasks -> {"pending", "ready", "succeeded", "failed"}] BY <1>1, <1>9
    <2> QED BY <1>1, <1>2, <2>1 DEF IInv, Shape
<1>11. Accounted'
    <2>1. ASSUME NEW t \in Tasks PROVE status'[t] = "succeeded" <=> t \in delivered'
        BY <1>6, <1>9
    <2>2. ASSUME NEW t \in Tasks, status'[t] = "ready", NEW u \in plan'.deps[t]
          PROVE  status'[u] = "succeeded"
        <3>1. u \in Tasks /\ u \in plan.deps[t] BY <1>1, <1>2, <2>2
        <3>2. CASE now[t] = "ready"
            <4>1. status[u] = "succeeded" BY <1>7, <3>1, <3>2 DEF IInv, Accounted
            <4> QED BY <1>8, <1>9, <3>1, <4>1
        <3>3. CASE now[t] # "ready"
            <4>1. now[u] = "succeeded" BY <1>9, <2>2, <3>1, <3>3
            <4> QED BY <1>9, <3>1, <4>1
        <3> QED BY <3>2, <3>3
    <2>3. ASSUME NEW t \in Tasks, status'[t] = "pending"
          PROVE  \E u \in plan'.deps[t] : status'[u] # "succeeded"
        <3>1. PICK u \in plan.deps[t] : now[u] # "succeeded" BY <1>9, <2>3
        <3>2. u \in Tasks BY <1>2, <3>1
        <3>3. status'[u] # "succeeded" BY <1>9, <3>1, <3>2
        <3> QED BY <1>1, <3>3
    <2> QED BY <1>1, <2>1, <2>2, <2>3 DEF Accounted
<1>12. Jobs'
    <2>1. ASSUME NEW t \in Tasks, job[t].stage \in Active PROVE FALSE
        <3>1. t \in wave BY <2>1 DEF IInv, Jobs
        <3>2. job[t].stage \in {"succeeded", "failed"} BY <1>1, <3>1
        <3> QED BY <2>1, <3>2 DEF Active
    <2> QED BY <1>1, <2>1 DEF IInv, Jobs
<1>13. Enough'
    <2>1. PICK x \in wave : TRUE BY <1>1
    <2>2. IsFiniteSet(Unfinished)
        <3>1. Unfinished \subseteq Tasks BY DEF Unfinished
        <3> QED BY <3>1, LedgerAssumption, FS_Subset
    <2>3. x \in Unfinished
        <3>1. x \in Tasks /\ status[x] = "ready" BY <1>2, <2>1 DEF IInv, Accounted
        <3> QED BY <3>1 DEF Unfinished
    <2>4. Unfinished' \subseteq Unfinished \ {x}
        <3>1. SUFFICES ASSUME NEW t \in Tasks, status'[t] \in {"pending", "ready"}
                       PROVE  t \in Unfinished /\ t # x
            BY DEF Unfinished
        <3>2. now[t] \in {"pending", "ready"}
            <4>1. now[t] \notin {"succeeded", "failed"} BY <1>9, <3>1
            <4> QED BY <1>6, <4>1
        <3> QED BY <1>7, <2>1, <3>2 DEF Unfinished
    <2>5. /\ IsFiniteSet(Unfinished \ {x})
          /\ Cardinality(Unfinished \ {x}) = Cardinality(Unfinished) - 1
        BY <2>2, <2>3, FS_RemoveElement
    <2>6. /\ Cardinality(Unfinished') <= Cardinality(Unfinished \ {x})
          /\ IsFiniteSet(Unfinished')
        BY <2>4, <2>5, FS_Subset
    <2>7. Cardinality(Unfinished) \in Nat /\ Cardinality(Unfinished') \in Nat
        BY <2>2, <2>6, FS_CardinalityType
    <2>8. Cardinality(Unfinished) <= rounds + 1 BY <1>1, <1>3 DEF IInv, Enough
    <2>9. Cardinality(Unfinished') <= rounds BY <1>2, <2>5, <2>6, <2>7, <2>8
    <2> QED BY <1>1, <1>2, <2>9 DEF Enough
<1>14. Final' BY <1>1, <1>3 DEF Final, WavesSuffice, VerdictHonest, Shown
<1> QED BY <1>10, <1>11, <1>12, <1>13, <1>14 DEF IInv

(* A verdict is drawn from statuses that say what was delivered. *)
LEMMA ConcludeStep == IInv /\ Conclude => IInv'
<1> SUFFICES ASSUME IInv, Conclude PROVE IInv' OBVIOUS
<1>1. /\ wave = {} /\ verdict = "none" /\ \E warned \in BOOLEAN : verdict' = Reported(warned)
      /\ verdict' = "partial" => delivered # {}
      /\ rounds = 0 \/ Ready = {}
      /\ plan' = plan /\ status' = status /\ delivered' = delivered
      /\ wave' = wave /\ job' = job /\ rounds' = rounds
    <2>1. PICK warned \in BOOLEAN : (warned => delivered # {}) /\ verdict' = Reported(warned)
        BY DEF Conclude
    <2>2. verdict' = "partial" => delivered # {} BY <2>1 DEF Reported, Shown
    <2> QED BY <2>1, <2>2 DEF Conclude
<1>2. /\ status \in [Tasks -> {"pending", "ready", "succeeded", "failed"}]
      /\ plan.deps \in [Tasks -> SUBSET Tasks]
      /\ delivered \subseteq Tasks /\ rounds \in Nat
    BY DEF IInv, Shape
<1>3. Shape' /\ Accounted' /\ Jobs' /\ Enough'
    <2>1. Shape' /\ Accounted' /\ Jobs' BY <1>1 DEF IInv, Shape, Accounted, Jobs
    <2>2. verdict' # "none" BY <1>1 DEF Reported, Overruled, Aggregated
    <2> QED BY <2>1, <2>2 DEF Enough
<1>4. ASSUME NEW t \in Tasks PROVE status[t] # "ready"
    <2>1. CASE rounds = 0
        <3>1. IsFiniteSet(Unfinished)
            <4>1. Unfinished \subseteq Tasks BY DEF Unfinished
            <4> QED BY <4>1, LedgerAssumption, FS_Subset
        <3>2. Cardinality(Unfinished) \in Nat BY <3>1, FS_CardinalityType
        <3>3. Cardinality(Unfinished) <= 0 BY <1>1, <2>1 DEF IInv, Enough
        <3>4. Cardinality(Unfinished) = 0 BY <3>2, <3>3
        <3>5. Unfinished = {} BY <3>1, <3>4, FS_EmptySet
        <3> QED BY <3>5 DEF Unfinished
    <2>2. CASE Ready = {}
        BY <2>2 DEF IInv, Accounted, Ready
    <2> QED BY <1>1, <2>1, <2>2
<1>5. ASSUME NEW t \in Tasks, status[t] = "pending"
      PROVE  \E u \in plan.deps[t] : status[u] \in {"failed", "pending"}
    <2>1. PICK u \in plan.deps[t] : status[u] # "succeeded" BY <1>5 DEF IInv, Accounted
    <2>2. u \in Tasks BY <1>2, <2>1
    <2>3. status[u] \in {"pending", "ready", "succeeded", "failed"} BY <1>2, <2>2
    <2>4. status[u] # "ready" BY <1>4, <2>2
    <2> QED BY <2>1, <2>3, <2>4
<1>6. WavesSuffice' BY <1>1, <1>4, <1>5 DEF WavesSuffice
<1>7. Aggregated = "complete" <=> delivered = Tasks
    <2>1. \A t \in Tasks : status[t] = "succeeded" <=> t \in delivered BY DEF IInv, Accounted
    <2> QED BY <1>2, <2>1 DEF Aggregated
<1>8. VerdictHonest'
    <2>1. Shown' = Shown BY <1>1 DEF Shown
    <2>2. ASSUME verdict' = "complete" PROVE delivered = Tasks /\ Shown # {}
        <3>1. Overruled = "complete" /\ Shown # {} BY <1>1, <2>2 DEF Reported
        <3> QED BY <1>7, <3>1 DEF Overruled
    <2>3. ASSUME verdict' = "partial" PROVE delivered # Tasks
        <3>1. Overruled = "partial" BY <1>1, <2>3 DEF Reported
        <3> QED BY <1>7, <3>1 DEF Overruled
    <2>4. ASSUME verdict' = "failed" PROVE Shown = {}
        BY <1>1, <2>4 DEF Reported, Overruled
    <2> QED BY <1>1, <2>1, <2>2, <2>3, <2>4 DEF VerdictHonest
<1>9. Final' BY <1>1, <1>6, <1>8 DEF Final
<1> QED BY <1>3, <1>9 DEF IInv

(* Every step of a scenario keeps the invariant. *)
LEMMA NextIInv == IInv /\ [Next]_vars => IInv'
<1> SUFFICES ASSUME IInv, [Next]_vars PROVE IInv' OBVIOUS
<1>1. job \in [Tasks -> Job] BY DEF IInv, Shape
<1>2. ASSUME NEW t \in Tasks, NEW s \in Stage, job[t].stage \in Active, Move(t, s),
             s = "succeeded" => job[t].reply \in {"envelope", "garbled"}, Scheduling
      PROVE  IInv'
    <2> DEFINE j == [job[t] EXCEPT !.stage = s]
    <2>1. job[t] \in Job BY <1>1
    <2>2. j \in Job /\ j.stage = s /\ j.reply = job[t].reply BY <2>1 DEF Job
    <2>3. job' = [job EXCEPT ![t] = j] BY <1>2 DEF Move
    <2> HIDE DEF j
    <2> QED BY <1>2, <2>2, <2>3, TaskStep
<1>3. ASSUME NEW t \in Tasks, job[t].stage \in Active, TryNext(t), Scheduling
      PROVE  IInv'
    <2> DEFINE j == [Idle EXCEPT !.stage = "next", !.turn = TurnAfter(t)]
    <2>1. job[t] \in Job BY <1>1
    <2>2. TurnAfter(t) \in Nat \ {0} BY <2>1 DEF TurnAfter, Job
    <2>3. j \in Job /\ j.stage = "next" BY <2>2 DEF Idle, Job, Stage, Reply
    <2>4. job' = [job EXCEPT ![t] = j] BY <1>3 DEF TryNext
    <2> HIDE DEF j
    <2> QED BY <1>3, <2>3, <2>4, TaskStep
<1>4. ASSUME NEW t \in Tasks, Exhaust(t) PROVE IInv'
    BY <1>2, <1>4 DEF Exhaust, Active, Stage, Closed
<1>5. ASSUME NEW t \in Tasks, Unbuilt(t) PROVE IInv'
    BY <1>3, <1>5 DEF Unbuilt, Active
<1>6. ASSUME NEW t \in Tasks, Dispatch(t) PROVE IInv'
    <2>1. job[t].stage \in Active /\ Scheduling BY <1>6 DEF Dispatch, Active
    <2>2. Move(t, "failed") \/ Move(t, "working") BY <1>6 DEF Dispatch, Move
    <2> QED BY <1>2, <2>1, <2>2 DEF Stage, Closed
<1>7. ASSUME NEW t \in Tasks, Answer(t) PROVE IInv'
    <2>1. PICK reply \in Reply :
            job' = [job EXCEPT ![t].stage = "answered", ![t].reply = reply]
        BY <1>7 DEF Answer
    <2> DEFINE j == [job[t] EXCEPT !.stage = "answered", !.reply = reply]
    <2>2. job[t] \in Job BY <1>1
    <2>3. j \in Job /\ j.stage = "answered" BY <2>2 DEF Job, Stage
    <2>4. job' = [job EXCEPT ![t] = j] BY <1>1, <2>1
    <2>5. job[t].stage \in Active /\ Scheduling BY <1>7 DEF Answer, Active
    <2> HIDE DEF j
    <2> QED BY <2>3, <2>4, <2>5, TaskStep
<1>8. ASSUME NEW t \in Tasks, Collect(t) PROVE IInv'
    <2>1. job[t].stage \in Active /\ Scheduling BY <1>8 DEF Collect, Active
    <2>2. \/ Move(t, "succeeded") /\ job[t].reply \in {"envelope", "garbled"}
          \/ Move(t, "failed")
          \/ TryNext(t)
        BY <1>8 DEF Collect
    <2> QED BY <1>2, <1>3, <2>1, <2>2 DEF Stage, Closed
<1>9. ASSUME NEW t \in Tasks, Expire(t) PROVE IInv'
    BY <1>2, <1>9 DEF Expire, Active, Stage, Closed
<1>10. ASSUME NEW t \in Tasks, Stop(t) PROVE IInv'
    BY <1>2, <1>10 DEF Stop, Active, Stage, Closed
<1>11. CASE AbandonWave
    <2>1. /\ wave' = {} /\ verdict' = "cancelled"
          /\ \A t \in wave : job[t].stage \in Closed
          /\ plan' = plan /\ status' = status /\ delivered' = delivered
          /\ job' = job /\ rounds' = rounds
        BY <1>11 DEF AbandonWave
    <2>2. Shape' /\ Accounted' BY <2>1 DEF IInv, Shape, Accounted
    <2>3. Jobs' BY <2>1 DEF IInv, Jobs, Active, Closed
    <2>4. Enough' BY <2>1 DEF Enough
    <2>5. Final' BY <2>1 DEF Final, WavesSuffice, VerdictHonest, Shown
    <2> QED BY <2>2, <2>3, <2>4, <2>5 DEF IInv
<1>12. CASE BreakOff
    BY <1>12 DEF BreakOff, IInv, Shape, Accounted, Jobs, Enough, Unfinished, Final,
                 WavesSuffice, VerdictHonest
<1>13. CASE Cancel \/ Lapse \/ UNCHANGED vars
    BY <1>13, ZenonT(40) DEF Cancel, Lapse, vars, IInv, Shape, Accounted, Jobs, Enough, Unfinished,
                 Final, WavesSuffice, VerdictHonest, Shown
<1> QED BY <1>4, <1>5, <1>6, <1>7, <1>8, <1>9, <1>10, <1>11, <1>12, <1>13,
           StartWaveStep, EndWaveStep, ConcludeStep DEF Next

-----------------------------------------------------------------------------
(* The invariant holds in every scenario. *)
LEMMA Invariant == Spec => []IInv
<1> QED BY InitIInv, NextIInv, PTL DEF Spec

(* In every scenario a specialist starts only with the results of everything  *)
(* its task depends on, whatever failed, timed out or was retried before.      *)
THEOREM InputsComplete == Spec => []DepsDelivered
<1>1. IInv => DepsDelivered
    <2> SUFFICES ASSUME IInv, NEW t \in Tasks, job[t].stage \in {"working", "answered"}
                 PROVE  plan.deps[t] \subseteq delivered
        BY DEF DepsDelivered
    <2>1. t \in wave BY DEF IInv, Jobs, Active
    <2>2. status[t] = "ready" BY <2>1 DEF IInv, Accounted
    <2>3. plan.deps[t] \subseteq Tasks BY DEF IInv, Shape
    <2>4. \A u \in plan.deps[t] : status[u] = "succeeded" BY <2>2 DEF IInv, Accounted
    <2> QED BY <2>3, <2>4 DEF IInv, Accounted
<1> QED BY <1>1, Invariant, PTL

(* As many waves as there are tasks are enough for every graph, however few   *)
(* tasks a wave may have: no task that could run is left when the scenario     *)
(* ends uncancelled.                                                          *)
THEOREM RoundsSuffice == Spec => []WavesSuffice
<1>1. IInv => WavesSuffice BY DEF IInv, Final
<1> QED BY <1>1, Invariant, PTL

(* In every scenario the verdict agrees with what was delivered, whichever     *)
(* tasks are required.                                                        *)
THEOREM VerdictAgrees == Spec => []VerdictHonest
<1>1. IInv => VerdictHonest BY DEF IInv, Final
<1> QED BY <1>1, Invariant, PTL

-----------------------------------------------------------------------------
\* The tasks ahead of t in the order of largest remainders, and those with fewer
\* than n ahead of them.
Ahead(T, rest, t) == {u \in T : rest[u] > rest[t] \/ (rest[u] = rest[t] /\ u < t)}
Few(T, rest, n)   == {t \in T : Cardinality(Ahead(T, rest, t)) < n}

(* No more than n tasks have fewer than n ahead of them: no two have as many.  *)
LEMMA RankedFew ==
    ASSUME NEW T, IsFiniteSet(T), T \subseteq Nat, NEW rest, \A t \in T : rest[t] \in Int,
           NEW n \in Nat
    PROVE  Cardinality(Few(T, rest, n)) <= n
<1> DEFINE rank == [t \in T |-> Cardinality(Ahead(T, rest, t))]
           B    == Few(T, rest, n)
<1>1. \A t \in T : /\ IsFiniteSet(Ahead(T, rest, t))
                   /\ Cardinality(Ahead(T, rest, t)) \in Nat
    <2>1. \A t \in T : Ahead(T, rest, t) \in SUBSET T BY DEF Ahead
    <2> QED BY <2>1, FS_Subset, FS_CardinalityType
<1>2. ASSUME NEW t \in T, NEW u \in T, u \in Ahead(T, rest, t)
      PROVE  rank[u] # rank[t]
    <2>1. Ahead(T, rest, u) \in SUBSET Ahead(T, rest, t)
        <3> SUFFICES ASSUME NEW v \in Ahead(T, rest, u) PROVE v \in Ahead(T, rest, t) OBVIOUS
        <3>1. v \in T BY DEF Ahead
        <3>2. v \in Nat /\ u \in Nat /\ t \in Nat BY <3>1
        <3>3. rest[v] \in Int /\ rest[u] \in Int /\ rest[t] \in Int BY <3>1
        <3> QED BY <1>2, <3>1, <3>2, <3>3 DEF Ahead
    <2>2. u \notin Ahead(T, rest, u) BY DEF Ahead
    <2>3. Cardinality(Ahead(T, rest, u)) # Cardinality(Ahead(T, rest, t))
        BY <1>1, <1>2, <2>1, <2>2, FS_Subset
    <2> QED BY <2>3
<1>3. \A t, u \in T : t # u => t \in Ahead(T, rest, u) \/ u \in Ahead(T, rest, t)
    BY DEF Ahead
<1>4. [t \in B |-> rank[t]] \in Injection(B, 0 .. n - 1)
    <2>1. \A t \in B : t \in T /\ rank[t] \in 0 .. n - 1 BY <1>1 DEF Few
    <2>2. \A t, u \in B : rank[t] = rank[u] => t = u BY <1>2, <1>3, <2>1
    <2> HIDE DEF rank, B
    <2> QED BY <2>1, <2>2 DEF Injection, IsInjective
<1>5. IsFiniteSet(0 .. n - 1) /\ Cardinality(0 .. n - 1) = n BY FS_Interval
<1>6. Cardinality(B) <= Cardinality(0 .. n - 1) BY <1>4, <1>5, FS_Injection
<1> QED BY <1>5, <1>6

(* Division with rest. *)
LEMMA Quotient ==
    ASSUME NEW a \in Nat, NEW b \in Nat, b > 0
    PROVE  a \div b \in Nat /\ a % b \in Nat /\ b * (a \div b) + (a % b) = a
<1>1. a \div b \in Int /\ a % b \in 0 .. b - 1 OBVIOUS
<1>2. b * (a \div b) + (a % b) = a OBVIOUS
<1>3. a \div b >= 0 OBVIOUS
<1> QED BY <1>1, <1>2, <1>3

(* What a pool is divided into is never more than the pool: the parts rounded  *)
(* down leave something, and no more tasks get one more than that.             *)
LEMMA SharesFit ==
    ASSUME NEW T, IsFiniteSet(T), T \subseteq Nat, NEW pool \in Nat,
           NEW want \in [T -> Nat], Total(want, T) > 0
    PROVE  /\ Shares(pool, want) \in [T -> Nat]
           /\ Total(Shares(pool, want), T) <= pool
<1> DEFINE total   == Total(want, T)
           part    == [t \in T |-> (pool * want[t]) \div total]
           rest    == [t \in T |-> (pool * want[t]) % total]
           More(n) == [t \in T |-> IF t \in Few(T, rest, n) THEN 1 ELSE 0]
<1>1. total \in Nat /\ total > 0 BY SumNat DEF Total
<1>2. ASSUME NEW t \in T
      PROVE  /\ part[t] \in Nat /\ rest[t] \in Nat
             /\ total * part[t] + rest[t] = pool * want[t]
    <2>1. pool * want[t] \in Nat OBVIOUS
    <2> HIDE DEF total
    <2>2. /\ part[t] = (pool * want[t]) \div total
          /\ rest[t] = (pool * want[t]) % total
        OBVIOUS
    <2> HIDE DEF total, part, rest
    <2> QED BY <1>1, <2>1, <2>2, Quotient
<1>3. ASSUME NEW n \in Nat
      PROVE  \A t \in T : Rounded(pool, want, n)[t] = part[t] + More(n)[t]
    BY DEF Rounded, Few, Ahead
<1>4. \A n \in Nat : Rounded(pool, want, n) = [t \in T |-> Rounded(pool, want, n)[t]]
    BY DEF Rounded
<1>5. ASSUME NEW n \in Nat PROVE Few(T, rest, n) \in SUBSET T BY DEF Few
<1>6. ASSUME NEW n \in Nat
      PROVE  Total(More(n), T) \in Nat /\ Total(More(n), T) <= n
    <2>1. Cardinality(Few(T, rest, n)) <= n
        <3>1. \A t \in T : rest[t] \in Int BY <1>2
        <3> HIDE DEF rest
        <3> QED BY <3>1, RankedFew
    <2>2. \A t \in T : More(n)[t] = IF t \in Few(T, rest, n) THEN 1 ELSE 0 OBVIOUS
    <2> HIDE DEF More
    <2>3. SumFunctionOnSet(More(n), T) = Cardinality(Few(T, rest, n)) BY <1>5, <2>2, SumOnes
    <2>4. Cardinality(Few(T, rest, n)) \in Nat BY <1>5, FS_Subset, FS_CardinalityType
    <2> QED BY <2>1, <2>3, <2>4 DEF Total
<1>7. \A n \in Nat, t \in T : More(n)[t] \in {0, 1} OBVIOUS
<1>8. \A t \in T : More(0)[t] = 0
    <2>1. \A t \in T : Cardinality(Ahead(T, rest, t)) \in Nat
        <3>1. \A t \in T : Ahead(T, rest, t) \in SUBSET T BY DEF Ahead
        <3> QED BY <3>1, FS_Subset, FS_CardinalityType
    <2> QED BY <2>1 DEF Few
<1> HIDE DEF total, part, rest, More
<1>9. Total(part, T) \in Nat /\ Total(part, T) <= pool
    <2> DEFINE scaled == [t \in T |-> total * part[t]]
               due    == [t \in T |-> pool * want[t]]
    <2>1. Total(part, T) \in Nat BY <1>2, SumNat DEF Total
    <2>2. \A t \in T : scaled[t] \in Int /\ due[t] \in Int /\ scaled[t] <= due[t]
        BY <1>1, <1>2
    <2>3. \A t \in T : part[t] \in Int /\ want[t] \in Int BY <1>2
    <2>4. /\ \A t \in T : part[t] \in Int /\ scaled[t] = total * part[t]
          /\ \A t \in T : want[t] \in Int /\ due[t] = pool * want[t]
        BY <2>3
    <2> HIDE DEF scaled, due
    <2>5. SumFunctionOnSet(scaled, T) = total * Total(part, T)
        <3>1. total \in Int BY <1>1
        <3> QED BY <2>4, <3>1, SumScale, Zenon DEF Total
    <2>6. SumFunctionOnSet(due, T) = pool * total
        <3>1. pool \in Int OBVIOUS
        <3> QED BY <2>4, <3>1, SumScale, Zenon DEF Total, total
    <2>7. SumFunctionOnSet(scaled, T) <= SumFunctionOnSet(due, T) BY <2>2, SumMonotone
    <2>8. total * Total(part, T) <= total * pool BY <1>1, <2>5, <2>6, <2>7
    <2>9. \A a, b, k \in Nat : k > 0 /\ k * a <= k * b => a <= b OBVIOUS
    <2> QED BY <1>1, <2>1, <2>8, <2>9
<1>10. DOMAIN want = T OBVIOUS
<1>11. Total(Rounded(pool, want, 0), T) = Total(part, T)
    <2>1. \A t \in T : Rounded(pool, want, 0)[t] = part[t] BY <1>2, <1>3, <1>8
    <2> QED BY <2>1, SumSame DEF Total
<1>12. Left(pool, want) \in Nat /\ Left(pool, want) = pool - Total(part, T)
    BY <1>9, <1>10, <1>11 DEF Left
<1> DEFINE n == Left(pool, want)
<1> HIDE DEF n
<1>13. n \in Nat BY <1>12 DEF n
<1>14. Rounded(pool, want, n) \in [T -> Nat]
    <2>1. \A t \in T : Rounded(pool, want, n)[t] \in Nat BY <1>2, <1>3, <1>7, <1>13
    <2> QED BY <1>4, <1>13, <2>1
<1>15. Total(Rounded(pool, want, n), T) = Total(part, T) + Total(More(n), T)
    <2>1. \A t \in T : /\ part[t] \in Int /\ More(n)[t] \in Int
                       /\ Rounded(pool, want, n)[t] = part[t] + More(n)[t]
        BY <1>2, <1>3, <1>7, <1>13
    <2> QED BY <2>1, SumPlus DEF Total
<1> QED BY <1>6, <1>9, <1>12, <1>13, <1>14, <1>15 DEF Shares, n

-----------------------------------------------------------------------------
\* WithinPool, of any ledger.
Pooled(l) ==
    \A d \in Dims :
        /\ Total([t \in Tasks |-> InForce(l, t)[d]], Tasks) + l.spare[d] <= Work[d]
        /\ \A t \in Tasks : l.spent[t][d] <= InForce(l, t)[d]

\* The budgets in force in ledger k are those of l or lower.
Lower(k, l) ==
    \A t \in DOMAIN l.effective :
        /\ t \in DOMAIN k.effective
        /\ \A d \in Dims : k.effective[t][d] <= l.effective[t][d]

(* The work pool is a budget, and so is every part of one. *)
LEMMA WorkNatural == \A d \in Dims : Work[d] \in Nat
<1> SUFFICES ASSUME NEW d \in Dims PROVE (Parent[d] * 7000) \div 10000 \in Nat BY DEF Work
<1>1. Parent[d] \in Nat BY LedgerAssumption
<1> QED BY <1>1, Quotient

LEMMA InForceBudget ==
    ASSUME NEW l, IsLedger(l), NEW t \in Tasks
    PROVE  InForce(l, t) \in Budget
BY DEF IsLedger, InForce

LEMMA InTyped ==
    ASSUME NEW T, NEW budget \in [T -> Budget], NEW d \in Dims
    PROVE  In(d, budget) \in [T -> Nat] /\ \A t \in T : In(d, budget)[t] = budget[t][d]
BY DEF In, Budget

(* What the tasks are granted is within the work pool: where they ask for more *)
(* the pool is divided, and otherwise they get what they ask.                  *)
LEMMA GrantsFit ==
    ASSUME NEW request \in [Tasks -> Budget]
    PROVE  /\ Grants(request) \in [Tasks -> Budget]
           /\ \A d \in Dims : Total(In(d, Grants(request)), Tasks) <= Work[d]
<1>1. IsFiniteSet(Tasks) /\ Tasks \subseteq Nat BY LedgerAssumption
<1>2. ASSUME NEW d \in Dims
      PROVE  /\ In(d, request) \in [Tasks -> Nat] /\ Work[d] \in Nat
             /\ Total(In(d, request), Tasks) \in Nat
             /\ \A t \in Tasks : In(d, request)[t] = request[t][d]
    <2>1. In(d, request) \in [Tasks -> Nat] /\ \A t \in Tasks : In(d, request)[t] = request[t][d]
        BY InTyped
    <2> QED BY <1>1, <2>1, WorkNatural, SumNat DEF Total
<1>3. ASSUME NEW d \in Dims, Short(request, d)
      PROVE  /\ Shares(Work[d], In(d, request)) \in [Tasks -> Nat]
             /\ Total(Shares(Work[d], In(d, request)), Tasks) <= Work[d]
    <2>1. Total(In(d, request), Tasks) > 0 BY <1>2, <1>3 DEF Short
    <2> QED BY <1>1, <1>2, <2>1, SharesFit
<1>4. ASSUME NEW d \in Dims, NEW t \in Tasks
      PROVE  /\ Grants(request)[t][d] = IF Short(request, d) THEN Shares(Work[d], In(d, request))[t]
                                        ELSE In(d, request)[t]
             /\ Grants(request)[t][d] \in Nat
    <2>1. Grants(request)[t][d] = IF Short(request, d) THEN Shares(Work[d], In(d, request))[t]
                                  ELSE In(d, request)[t]
        BY <1>2 DEF Grants
    <2> QED BY <1>2, <1>3, <2>1
<1>5. Grants(request) \in [Tasks -> Budget] BY <1>4 DEF Grants, Budget
<1>6. ASSUME NEW d \in Dims PROVE Total(In(d, Grants(request)), Tasks) <= Work[d]
    <2>1. \A t \in Tasks : In(d, Grants(request))[t] = Grants(request)[t][d] BY <1>5, InTyped
    <2>2. CASE Short(request, d)
        <3>1. \A t \in Tasks : In(d, Grants(request))[t] = Shares(Work[d], In(d, request))[t]
            BY <1>4, <2>1, <2>2
        <3>2. Total(In(d, Grants(request)), Tasks) = Total(Shares(Work[d], In(d, request)), Tasks)
            BY <1>1, <3>1, SumSame DEF Total
        <3> QED BY <1>3, <2>2, <3>2
    <2>3. CASE ~Short(request, d)
        <3>1. \A t \in Tasks : In(d, Grants(request))[t] = In(d, request)[t]
            BY <1>4, <2>1, <2>3
        <3>2. Total(In(d, Grants(request)), Tasks) = Total(In(d, request), Tasks)
            BY <1>1, <3>1, SumSame DEF Total
        <3> QED BY <1>2, <2>3, <3>2 DEF Short
    <2> QED BY <2>2, <2>3
<1> QED BY <1>5, <1>6

(* A fresh ledger is within the pool. *)
LEMMA AllocatePooled ==
    ASSUME NEW request \in [Tasks -> Budget]
    PROVE  /\ IsLedger(Allocate(request)) /\ Pooled(Allocate(request))
           /\ \A t \in Tasks : Allocate(request).spent[t] = Zero
<1> DEFINE l == Allocate(request)
<1>1. /\ Grants(request) \in [Tasks -> Budget]
      /\ \A d \in Dims : Total(In(d, Grants(request)), Tasks) <= Work[d]
    BY GrantsFit
<1>2. /\ DOMAIN l = {"granted", "effective", "spent", "spare"}
      /\ l.granted = Grants(request) /\ DOMAIN l.effective = {}
      /\ l.effective = [t \in {} |-> Zero]
      /\ l.spent = [t \in Tasks |-> Zero]
      /\ l.spare = [d \in Dims |-> Work[d] - Total(In(d, Grants(request)), Tasks)]
    BY DEF Allocate
<1> HIDE DEF l
<1>3. ASSUME NEW d \in Dims
      PROVE  /\ Total(In(d, Grants(request)), Tasks) \in Nat
             /\ l.spare[d] = Work[d] - Total(In(d, Grants(request)), Tasks)
             /\ l.spare[d] \in Nat
    <2>1. Total(In(d, Grants(request)), Tasks) \in Nat
        BY <1>1, InTyped, LedgerAssumption, SumNat DEF Total
    <2> QED BY <1>1, <1>2, <2>1, WorkNatural
<1>4. Zero \in Budget BY DEF Zero, Budget
<1>5. IsLedger(l) BY <1>1, <1>2, <1>3, <1>4 DEF IsLedger, Budget
<1>6. \A t \in Tasks : InForce(l, t) = Grants(request)[t] BY <1>2 DEF InForce
<1>7. ASSUME NEW d \in Dims
      PROVE  Total([t \in Tasks |-> InForce(l, t)[d]], Tasks) = Total(In(d, Grants(request)), Tasks)
    <2>1. \A t \in Tasks : [u \in Tasks |-> InForce(l, u)[d]][t] = In(d, Grants(request))[t]
        BY <1>1, <1>6, InTyped
    <2> QED BY <2>1, LedgerAssumption, SumSame DEF Total
<1>8. ASSUME NEW d \in Dims, NEW t \in Tasks PROVE l.spent[t][d] <= InForce(l, t)[d]
    <2>1. InForce(l, t)[d] \in Nat BY <1>5, InForceBudget DEF Budget
    <2> QED BY <1>2, <2>1 DEF Zero
<1>9. Pooled(l) BY <1>3, <1>7, <1>8, WorkNatural DEF Pooled
<1> QED BY <1>2, <1>5, <1>9 DEF l

(* Handing out what the allocation left stays within the pool and touches no   *)
(* budget in force: only tasks without one get more, and only once.            *)
LEMMA SpreadPooled ==
    ASSUME NEW l, IsLedger(l), Pooled(l), NEW request \in [Tasks -> Budget]
    PROVE  /\ IsLedger(Spread(l, request)) /\ Pooled(Spread(l, request))
           /\ Spread(l, request).spent = l.spent
           /\ Lower(Spread(l, request), l)
<1> DEFINE k       == Spread(l, request)
           waiting == Tasks \ DOMAIN l.effective
           want    == [t \in waiting |-> request[t]]
           given   == {d \in Dims : l.spare[d] > 0 /\ Total(In(d, want), waiting) > 0}
           share(d) == Shares(l.spare[d], In(d, want))
           More(t) == [d \in Dims |-> l.granted[t][d] + IF d \in given THEN share(d)[t] ELSE 0]
           asked   == IF given = {} THEN DOMAIN l.effective ELSE Tasks
<1>1. /\ DOMAIN l = {"granted", "effective", "spent", "spare"}
      /\ l.granted \in [Tasks -> Budget] /\ l.spent \in [Tasks -> Budget]
      /\ l.spare \in Budget /\ DOMAIN l.effective \subseteq Tasks
      /\ l.effective \in [DOMAIN l.effective -> Budget]
    BY DEF IsLedger
<1>2. CASE waiting = {}
    <2>1. k = l BY <1>2 DEF Spread
    <2> HIDE DEF k
    <2>2. \A t \in DOMAIN l.effective, d \in Dims : l.effective[t][d] \in Nat BY <1>1 DEF Budget
    <2>3. Lower(l, l) BY <2>2 DEF Lower
    <2> QED BY <2>1, <2>3 DEF k
<1>3. CASE waiting # {}
    <2>1. k = [l EXCEPT !.spare = Zero,
                        !.effective = [t \in asked |-> IF t \in waiting THEN More(t) ELSE @[t]]]
        BY <1>3 DEF Spread, SpareAfter
    <2>2. /\ DOMAIN k = DOMAIN l /\ k.granted = l.granted /\ k.spent = l.spent /\ k.spare = Zero
          /\ k.effective = [t \in asked |-> IF t \in waiting THEN More(t) ELSE l.effective[t]]
        <3> HIDE DEF k, waiting, More, asked
        <3> QED BY <1>1, <2>1
    <2>3. IsFiniteSet(waiting) /\ waiting \subseteq Nat /\ waiting \in SUBSET Tasks
        BY LedgerAssumption, FS_Subset
    <2>4. ASSUME NEW d \in Dims
          PROVE  In(d, want) \in [waiting -> Nat] /\ l.spare[d] \in Nat
        <3>1. want \in [waiting -> Budget] OBVIOUS
        <3> QED BY <1>1, <3>1, InTyped DEF Budget
    <2>5. ASSUME NEW d \in given
          PROVE  share(d) \in [waiting -> Nat] /\ Total(share(d), waiting) <= l.spare[d]
        <3>1. d \in Dims /\ Total(In(d, want), waiting) > 0 OBVIOUS
        <3> HIDE DEF waiting, want, given
        <3> QED BY <2>3, <2>4, <3>1, SharesFit
    <2>6. given \subseteq Dims OBVIOUS
    <2>7. ASSUME NEW t \in waiting, NEW d \in Dims
          PROVE  /\ More(t)[d] = l.granted[t][d] + IF d \in given THEN share(d)[t] ELSE 0
                 /\ More(t)[d] \in Nat
        <3>1. More(t)[d] = l.granted[t][d] + IF d \in given THEN share(d)[t] ELSE 0 OBVIOUS
        <3>2. l.granted[t][d] \in Nat BY <1>1 DEF Budget
        <3>3. d \in given => share(d)[t] \in Nat BY <2>5
        <3> HIDE DEF More, share, given, want, waiting
        <3> QED BY <3>1, <3>2, <3>3
    <2>8. \A t : More(t) = [d \in Dims |-> More(t)[d]] OBVIOUS
    <2>9. /\ asked \subseteq Tasks /\ DOMAIN l.effective \subseteq asked
          /\ \A t \in asked : t \notin waiting => t \in DOMAIN l.effective
          /\ asked # Tasks => given = {}
        BY <1>1
    <2>10. \A t \in Tasks : t \in waiting <=> t \notin DOMAIN l.effective OBVIOUS
    <2> HIDE DEF k, waiting, want, given, share, More, asked
    <2>11. \A t \in waiting : More(t) \in Budget BY <2>7, <2>8 DEF Budget
    <2>12. IsLedger(k)
        <3>1. DOMAIN k.effective = asked BY <2>2
        <3>2. \A t \in asked : k.effective[t] \in Budget BY <1>1, <2>2, <2>9, <2>11
        <3>3. k.effective \in [asked -> Budget] BY <2>2, <3>1, <3>2
        <3>4. Zero \in Budget BY DEF Zero, Budget
        <3> QED BY <1>1, <2>2, <2>9, <3>1, <3>3, <3>4 DEF IsLedger
    <2> DEFINE add == [d \in Dims |-> [t \in Tasks |->
                        IF t \in waiting /\ d \in given THEN share(d)[t] ELSE 0]]
    <2>13. ASSUME NEW t \in Tasks, NEW d \in Dims
           PROVE  /\ InForce(l, t)[d] \in Nat /\ InForce(k, t)[d] \in Nat
                  /\ add[d][t] \in Nat
                  /\ InForce(k, t)[d] = InForce(l, t)[d] + add[d][t]
        <3>1. InForce(l, t)[d] \in Nat /\ InForce(k, t)[d] \in Nat
            BY <2>12, InForceBudget DEF Budget
        <3>2. add[d][t] = IF t \in waiting /\ d \in given THEN share(d)[t] ELSE 0 OBVIOUS
        <3>3. add[d][t] \in Nat BY <2>5, <3>2
        <3> HIDE DEF add
        <3>4. CASE t \notin waiting
            <4>1. InForce(k, t) = InForce(l, t) BY <2>2, <2>9, <2>10, <3>4 DEF InForce
            <4> QED BY <3>1, <3>2, <3>3, <3>4, <4>1
        <3>5. CASE t \in waiting /\ t \in asked
            <4>1. InForce(k, t) = More(t) BY <2>2, <3>5 DEF InForce
            <4>2. InForce(l, t) = l.granted[t] BY <2>10, <3>5 DEF InForce
            <4> QED BY <2>7, <3>1, <3>2, <3>3, <3>5, <4>1, <4>2
        <3>6. CASE t \in waiting /\ t \notin asked
            <4>1. InForce(k, t) = l.granted[t] BY <2>2, <3>6 DEF InForce
            <4>2. InForce(l, t) = l.granted[t] BY <2>10, <3>6 DEF InForce
            <4>3. d \notin given BY <2>9, <3>6
            <4> QED BY <3>1, <3>2, <3>3, <4>1, <4>2, <4>3
        <3> QED BY <3>4, <3>5, <3>6
    <2>14. ASSUME NEW d \in Dims
           PROVE  Total(add[d], Tasks) \in Nat /\ Total(add[d], Tasks) <= l.spare[d]
        <3>1. \A t \in Tasks : add[d][t] \in Nat BY <2>13
        <3>2. Total(add[d], Tasks) \in Nat BY <3>1, LedgerAssumption, SumNat DEF Total
        <3>3. CASE d \in given
            <4>1. \A t \in Tasks : add[d][t] \in Int /\ (t \notin waiting => add[d][t] = 0)
                BY <3>1
            <4>2. \A t \in waiting : add[d][t] = share(d)[t] BY <2>3, <3>3
            <4> HIDE DEF add
            <4>3. Total(add[d], Tasks) = Total(add[d], waiting)
                BY <2>3, <4>1, LedgerAssumption, SumOutside DEF Total
            <4>4. Total(add[d], waiting) = Total(share(d), waiting)
                BY <2>3, <4>2, SumSame DEF Total
            <4> QED BY <2>5, <3>2, <3>3, <4>3, <4>4
        <3>4. CASE d \notin given
            <4>1. \A t \in Tasks : add[d][t] = 0 BY <3>4
            <4> HIDE DEF add
            <4>2. Total(add[d], Tasks) = 0 BY <4>1, LedgerAssumption, SumZero DEF Total
            <4> QED BY <2>4, <4>2
        <3> QED BY <3>3, <3>4
    <2> HIDE DEF add
    <2>15. Pooled(k)
        <3>1. SUFFICES ASSUME NEW d \in Dims
                       PROVE  /\ Total([t \in Tasks |-> InForce(k, t)[d]], Tasks) + k.spare[d] <= Work[d]
                              /\ \A t \in Tasks : k.spent[t][d] <= InForce(k, t)[d]
            BY DEF Pooled
        <3> DEFINE old == [t \in Tasks |-> InForce(l, t)[d]]
                   new == [t \in Tasks |-> InForce(k, t)[d]]
        <3>2. /\ \A t \in Tasks : old[t] \in Int /\ add[d][t] \in Int /\ new[t] = old[t] + add[d][t]
              /\ \A t \in Tasks : old[t] \in Nat
            BY <2>13
        <3>3. Total(old, Tasks) + l.spare[d] <= Work[d] BY DEF Pooled
        <3> HIDE DEF old, new
        <3>4. Total(new, Tasks) = Total(old, Tasks) + Total(add[d], Tasks)
            BY <3>2, LedgerAssumption, SumPlus, ZenonT(40) DEF Total
        <3>5. Total(old, Tasks) \in Nat BY <3>2, LedgerAssumption, SumNat DEF Total
        <3>6. k.spare[d] = 0 BY <2>2 DEF Zero
        <3>7. Total(new, Tasks) + k.spare[d] <= Work[d]
            BY <2>4, <2>14, <3>3, <3>4, <3>5, <3>6, WorkNatural
        <3>8. ASSUME NEW t \in Tasks PROVE k.spent[t][d] <= InForce(k, t)[d]
            <4>1. l.spent[t][d] <= InForce(l, t)[d] /\ l.spent[t][d] \in Nat
                BY <1>1 DEF Pooled, Budget
            <4> QED BY <2>2, <2>13, <4>1
        <3> QED BY <3>7, <3>8 DEF new
    <2>16. Lower(k, l)
        <3>1. ASSUME NEW t \in DOMAIN l.effective
              PROVE  t \in DOMAIN k.effective /\ k.effective[t] = l.effective[t]
            BY <1>1, <2>2, <2>9, <2>10
        <3>2. \A t \in DOMAIN l.effective, d \in Dims : l.effective[t][d] \in Nat BY <1>1 DEF Budget
        <3> QED BY <3>1, <3>2 DEF Lower
    <2> QED BY <2>2, <2>12, <2>15, <2>16 DEF k
<1> QED BY <1>2, <1>3

(* Asking for a budget stays within the pool, raises no budget in force, and    *)
(* may lower that of the asking task, which has consumed nothing yet.          *)
LEMMA BudgetForPooled ==
    ASSUME NEW l, IsLedger(l), Pooled(l), NEW request \in [Tasks -> Budget],
           NEW t \in Tasks, l.spent[t] = Zero, NEW cap \in Budget
    PROVE  /\ IsLedger(BudgetFor(l, t, cap, request)) /\ Pooled(BudgetFor(l, t, cap, request))
           /\ BudgetFor(l, t, cap, request).spent = l.spent
           /\ Lower(BudgetFor(l, t, cap, request), l)
<1> DEFINE ready == IF t \in DOMAIN l.effective THEN l ELSE Spread(l, request)
           k     == BudgetFor(l, t, cap, request)
<1>1. IsLedger(ready) /\ Pooled(ready) /\ ready.spent = l.spent /\ Lower(ready, l)
    <2>1. \A u \in DOMAIN l.effective, d \in Dims : l.effective[u][d] \in Nat
        BY DEF IsLedger, Budget
    <2>2. Lower(l, l) BY <2>1 DEF Lower
    <2> QED BY <2>2, SpreadPooled
<1>2. k = [ready EXCEPT !.effective =
            [u \in DOMAIN @ \cup {t} |-> IF u = t THEN Least(InForce(ready, t), cap) ELSE @[u]]]
    BY DEF BudgetFor
<1> HIDE DEF ready, k
<1>3. /\ DOMAIN ready = {"granted", "effective", "spent", "spare"}
      /\ ready.granted \in [Tasks -> Budget] /\ ready.spent \in [Tasks -> Budget]
      /\ ready.spare \in Budget /\ DOMAIN ready.effective \subseteq Tasks
      /\ ready.effective \in [DOMAIN ready.effective -> Budget]
    BY <1>1 DEF IsLedger
<1>4. /\ DOMAIN k = DOMAIN ready
      /\ k.granted = ready.granted /\ k.spent = ready.spent /\ k.spare = ready.spare
      /\ k.effective = [u \in DOMAIN ready.effective \cup {t} |->
                           IF u = t THEN Least(InForce(ready, t), cap) ELSE ready.effective[u]]
    BY <1>2, <1>3
<1>5. ASSUME NEW d \in Dims
      PROVE  /\ Least(InForce(ready, t), cap)[d] \in Nat
             /\ Least(InForce(ready, t), cap)[d] <= InForce(ready, t)[d]
    <2>1. InForce(ready, t)[d] \in Nat /\ cap[d] \in Nat BY <1>1, InForceBudget DEF Budget
    <2> QED BY <2>1 DEF Least
<1>6. Least(InForce(ready, t), cap) \in Budget BY <1>5 DEF Least, Budget
<1>7. IsLedger(k)
    <2>1. DOMAIN k.effective = DOMAIN ready.effective \cup {t} BY <1>4
    <2>2. \A u \in DOMAIN k.effective : k.effective[u] \in Budget BY <1>3, <1>4, <1>6
    <2>3. k.effective \in [DOMAIN k.effective -> Budget] BY <1>4, <2>1, <2>2
    <2> QED BY <1>3, <1>4, <2>1, <2>3 DEF IsLedger
<1>8. ASSUME NEW u \in Tasks
      PROVE  /\ u # t => InForce(k, u) = InForce(ready, u)
             /\ u = t => InForce(k, u) = Least(InForce(ready, t), cap)
    BY <1>4 DEF InForce
<1>9. ASSUME NEW u \in Tasks, NEW d \in Dims
      PROVE  /\ InForce(k, u)[d] \in Nat /\ InForce(ready, u)[d] \in Nat
             /\ InForce(k, u)[d] <= InForce(ready, u)[d]
    <2>1. InForce(k, u)[d] \in Nat /\ InForce(ready, u)[d] \in Nat
        BY <1>1, <1>7, InForceBudget DEF Budget
    <2> QED BY <1>5, <1>8, <2>1
<1>10. Pooled(k)
    <2>1. SUFFICES ASSUME NEW d \in Dims
                   PROVE  /\ Total([u \in Tasks |-> InForce(k, u)[d]], Tasks) + k.spare[d] <= Work[d]
                          /\ \A u \in Tasks : k.spent[u][d] <= InForce(k, u)[d]
        BY DEF Pooled
    <2> DEFINE old == [u \in Tasks |-> InForce(ready, u)[d]]
               new == [u \in Tasks |-> InForce(k, u)[d]]
    <2>2. \A u \in Tasks : /\ new[u] \in Int /\ old[u] \in Int /\ new[u] <= old[u]
                           /\ new[u] \in Nat /\ old[u] \in Nat
        BY <1>9
    <2>3. Total(old, Tasks) + ready.spare[d] <= Work[d] BY <1>1 DEF Pooled
    <2> HIDE DEF old, new
    <2>4. Total(new, Tasks) <= Total(old, Tasks) BY <2>2, LedgerAssumption, SumMonotone DEF Total
    <2>5. Total(new, Tasks) \in Nat /\ Total(old, Tasks) \in Nat
        BY <2>2, LedgerAssumption, SumNat DEF Total
    <2>6. ready.spare[d] \in Nat BY <1>3 DEF Budget
    <2>7. Total(new, Tasks) + k.spare[d] <= Work[d]
        BY <1>4, <2>3, <2>4, <2>5, <2>6, WorkNatural
    <2>8. ASSUME NEW u \in Tasks PROVE k.spent[u][d] <= InForce(k, u)[d]
        <3>1. CASE u = t
            <4>1. k.spent[u][d] = 0 BY <1>1, <1>4, <3>1 DEF Zero
            <4> QED BY <1>9, <4>1
        <3>2. CASE u # t
            <4>1. ready.spent[u][d] <= InForce(ready, u)[d] BY <1>1 DEF Pooled
            <4> QED BY <1>4, <1>8, <3>2, <4>1
        <3> QED BY <3>1, <3>2
    <2> QED BY <2>7, <2>8 DEF new
<1>11. Lower(k, l)
    <2>1. SUFFICES ASSUME NEW u \in DOMAIN l.effective, NEW d \in Dims
                   PROVE  u \in DOMAIN k.effective /\ k.effective[u][d] <= l.effective[u][d]
        <3> SUFFICES ASSUME NEW u \in DOMAIN l.effective
                     PROVE  /\ u \in DOMAIN k.effective
                            /\ \A d \in Dims : k.effective[u][d] <= l.effective[u][d]
            BY DEF Lower
        <3>1. u \in DOMAIN ready.effective BY <1>1 DEF Lower
        <3> QED BY <1>4, <2>1, <3>1
    <2>2. u \in DOMAIN ready.effective /\ ready.effective[u][d] <= l.effective[u][d]
        BY <1>1 DEF Lower
    <2>3. u \in Tasks /\ l.effective[u][d] \in Nat
        BY DEF IsLedger, Budget
    <2>4. u \in DOMAIN k.effective BY <1>4, <2>2
    <2>5. k.effective[u][d] = InForce(k, u)[d] /\ ready.effective[u][d] = InForce(ready, u)[d]
        BY <2>2, <2>4 DEF InForce
    <2> QED BY <1>9, <2>2, <2>3, <2>4, <2>5
<1> QED BY <1>1, <1>4, <1>7, <1>10, <1>11 DEF k

(* A charge a task can afford changes no budget in force and leaves what it     *)
(* consumed within its own.                                                   *)
LEMMA ConsumePooled ==
    ASSUME NEW l, IsLedger(l), Pooled(l), NEW t \in Tasks, NEW usage \in Budget,
           Affords(l, t, usage)
    PROVE  /\ IsLedger(Consume(l, t, usage)) /\ Pooled(Consume(l, t, usage))
           /\ Consume(l, t, usage).effective = l.effective
           /\ \A u \in Tasks \ {t} : Consume(l, t, usage).spent[u] = l.spent[u]
<1> DEFINE k    == Consume(l, t, usage)
           paid == [d \in Dims |-> l.spent[t][d] + usage[d]]
<1>1. /\ DOMAIN l = {"granted", "effective", "spent", "spare"}
      /\ l.spent \in [Tasks -> Budget]
    BY DEF IsLedger
<1>2. /\ DOMAIN k = DOMAIN l /\ k.granted = l.granted /\ k.effective = l.effective
      /\ k.spare = l.spare /\ k.spent = [l.spent EXCEPT ![t] = paid]
    BY <1>1 DEF Consume
<1>3. paid \in Budget BY <1>1 DEF Budget
<1>4. \A d \in Dims : paid[d] <= InForce(l, t)[d] BY DEF Affords
<1> HIDE DEF k, paid
<1>5. k.spent[t] = paid /\ \A u \in Tasks \ {t} : k.spent[u] = l.spent[u] BY <1>1, <1>2
<1>6. k.spent \in [Tasks -> Budget] BY <1>1, <1>2, <1>3
<1>7. IsLedger(k) BY <1>2, <1>6 DEF IsLedger
<1>8. \A u \in Tasks : InForce(k, u) = InForce(l, u) BY <1>2 DEF InForce
<1>9. Pooled(k)
    <2>1. SUFFICES ASSUME NEW d \in Dims
                   PROVE  /\ Total([u \in Tasks |-> InForce(k, u)[d]], Tasks) + k.spare[d] <= Work[d]
                          /\ \A u \in Tasks : k.spent[u][d] <= InForce(k, u)[d]
        BY DEF Pooled
    <2>2. [u \in Tasks |-> InForce(k, u)[d]] = [u \in Tasks |-> InForce(l, u)[d]] BY <1>8
    <2>3. Total([u \in Tasks |-> InForce(k, u)[d]], Tasks) + k.spare[d] <= Work[d]
        BY <1>2, <2>2 DEF Pooled
    <2>4. \A u \in Tasks : k.spent[u][d] <= InForce(k, u)[d] BY <1>4, <1>5, <1>8 DEF Pooled
    <2> QED BY <2>3, <2>4
<1> QED BY <1>2, <1>5, <1>7, <1>9 DEF k

-----------------------------------------------------------------------------
\* A task is charged once: it does not start again once it has consumed.
Charged ==
    /\ \A t \in Tasks : ledger.spent[t] # Zero => job[t].stage = "succeeded"
    /\ verdict = "none" =>
        \A t \in Tasks : job[t].stage = "succeeded" =>
            t \in wave \/ status[t] \in {"succeeded", "failed"}

Budgeted == BudgetInvariant /\ Charged

(* No wave is wider than it may be. *)
LEMMA FirstNarrow ==
    ASSUME NEW S \in SUBSET Tasks
    PROVE  Cardinality(First(S)) <= MaxParallel
<1> DEFINE level == [t \in S |-> 0]
<1>1. IsFiniteSet(S) /\ S \subseteq Nat BY LedgerAssumption, FS_Subset
<1>2. First(S) = Few(S, level, MaxParallel)
    <2>1. ASSUME NEW t \in S PROVE {u \in S : u < t} = Ahead(S, level, t) BY DEF Ahead
    <2> HIDE DEF level
    <2> QED BY <2>1 DEF First, Few
<1>3. \A t \in S : level[t] \in Int OBVIOUS
<1>4. MaxParallel \in Nat BY WavesAssumption
<1> HIDE DEF level
<1> QED BY <1>1, <1>2, <1>3, <1>4, RankedFew

(* A scenario starts with the budgets of a fresh ledger. *)
LEMMA InitBudgeted == Init => Budgeted
<1> SUFFICES ASSUME Init PROVE Budgeted OBVIOUS
<1>1. PICK deps \in Graphs, request \in Requests :
        /\ plan = [deps |-> deps, request |-> request]
        /\ status = [t \in Tasks |-> IF deps[t] = {} THEN "ready" ELSE "pending"]
        /\ ledger = Allocate(request)
    BY DEF Init
<1>2. IsLedger(ledger) /\ Pooled(ledger) /\ \A t \in Tasks : ledger.spent[t] = Zero
    <2>1. request \in [Tasks -> Budget] BY WavesAssumption
    <2> QED BY <1>1, <2>1, AllocatePooled
<1>3. TypeOK
    <2>1. IInv BY InitIInv
    <2>2. Cardinality(wave) <= MaxParallel
        <3>1. wave = {} /\ MaxParallel \in Nat \ {0} BY WavesAssumption DEF Init
        <3> QED BY <3>1, FS_EmptySet
    <2>3. rounds \in 0 .. Cardinality(Tasks)
        <3>1. Cardinality(Tasks) \in Nat BY LedgerAssumption, FS_CardinalityType
        <3> QED BY <3>1 DEF Init, RoundsOf
    <2> QED BY <1>1, <1>2, <2>1, <2>2, <2>3 DEF Init, IInv, Shape, TypeOK, Verdict
<1>4. WithinPool BY <1>2 DEF Pooled, WithinPool
<1>5. Charged BY <1>2 DEF Init, Charged, Idle
<1> QED BY <1>3, <1>4, <1>5 DEF Budgeted, BudgetInvariant

(* What a step may do to the ledger: only the task that asks or is charged is   *)
(* concerned, it was under way, and no budget in force rises.                 *)
LEMMA LedgerStep ==
    ASSUME IInv, Budgeted, [Next]_vars
    PROVE  /\ IsLedger(ledger') /\ Pooled(ledger') /\ Lower(ledger', ledger)
           /\ \A t \in Tasks : ledger'.spent[t] # ledger.spent[t] =>
                /\ t \in wave /\ job'[t].stage = "succeeded"
                /\ wave' = wave
<1>1. /\ IsLedger(ledger) /\ Pooled(ledger) /\ job \in [Tasks -> Job]
      /\ plan.request \in [Tasks -> Budget]
    BY WavesAssumption DEF Budgeted, BudgetInvariant, TypeOK, WithinPool, Pooled
<1>2. Lower(ledger, ledger)
    <2>1. \A t \in DOMAIN ledger.effective, d \in Dims : ledger.effective[t][d] \in Nat
        BY <1>1 DEF IsLedger, Budget
    <2> QED BY <2>1 DEF Lower
<1>3. CASE ledger' = ledger BY <1>1, <1>2, <1>3
<1>4. ASSUME NEW t \in Tasks, Dispatch(t)
      PROVE  /\ IsLedger(ledger') /\ Pooled(ledger') /\ Lower(ledger', ledger)
             /\ ledger'.spent = ledger.spent
    <2> DEFINE cap == Cap[Candidates[t][job[t].turn]]
    <2>1. cap \in Budget
        <3>1. job[t].turn \in 1 .. Len(Candidates[t]) BY <1>1, <1>4 DEF Dispatch, Job
        <3>2. Candidates[t] \in Seq(Agents) /\ Cap \in [Agents -> Budget] BY WavesAssumption
        <3> QED BY <3>1, <3>2
    <2>2. ledger.spent[t] = Zero BY <1>4 DEF Dispatch, Budgeted, Charged
    <2>3. ledger' = BudgetFor(ledger, t, cap, plan.request) BY <1>4 DEF Dispatch
    <2> HIDE DEF cap
    <2> QED BY <1>1, <2>1, <2>2, <2>3, BudgetForPooled
<1>5. ASSUME NEW t \in Tasks, Collect(t), ledger' # ledger
      PROVE  /\ IsLedger(ledger') /\ Pooled(ledger') /\ Lower(ledger', ledger)
             /\ \A u \in Tasks \ {t} : ledger'.spent[u] = ledger.spent[u]
             /\ t \in wave /\ job'[t].stage = "succeeded" /\ wave' = wave
    <2> DEFINE usage == InForce(ledger, t)
    <2>1. /\ ledger' = Consume(ledger, t, usage) /\ Affords(ledger, t, usage)
          /\ Move(t, "succeeded") /\ wave' = wave /\ job[t].stage = "answered"
        BY <1>5 DEF Collect, Scheduling
    <2>2. usage \in Budget BY <1>1, InForceBudget
    <2>3. t \in wave BY <2>1 DEF IInv, Jobs, Active
    <2>4. job'[t].stage = "succeeded"
        <3>1. job[t] \in Job BY <1>1
        <3> QED BY <1>1, <2>1, <3>1 DEF Move, Job
    <2> HIDE DEF usage
    <2>5. /\ IsLedger(ledger') /\ Pooled(ledger') /\ ledger'.effective = ledger.effective
          /\ \A u \in Tasks \ {t} : ledger'.spent[u] = ledger.spent[u]
        BY <1>1, <2>1, <2>2, ConsumePooled
    <2>6. Lower(ledger', ledger) BY <1>2, <2>5 DEF Lower
    <2> QED BY <2>1, <2>3, <2>4, <2>5, <2>6
<1>6. ASSUME ledger' # ledger
      PROVE  \E t \in Tasks : Dispatch(t) \/ Collect(t)
    BY <1>6 DEF Next, vars, Exhaust, Unbuilt, Answer, Expire, Stop, StartWave, EndWave,
                AbandonWave, BreakOff, Conclude, Cancel, Lapse
<1>7. CASE ledger' # ledger
    <2>1. PICK t \in Tasks : Dispatch(t) \/ Collect(t) BY <1>6, <1>7
    <2>2. CASE Dispatch(t) BY <1>4, <2>2
    <2>3. CASE Collect(t)
        <3>1. \A u \in Tasks : ledger'.spent[u] # ledger.spent[u] => u = t BY <1>5, <1>7, <2>3
        <3> QED BY <1>5, <1>7, <2>3, <3>1
    <2> QED BY <2>1, <2>2, <2>3
<1> QED BY <1>3, <1>7

(* What has succeeded stays so, and a task that has been charged is in its wave *)
(* until the wave ends with its status.                                       *)
LEMMA ChargedStep ==
    ASSUME IInv, Budgeted, [Next]_vars
    PROVE  Charged'
<1>1. /\ job \in [Tasks -> Job] /\ wave \subseteq Tasks
      /\ status \in [Tasks -> {"pending", "ready", "succeeded", "failed"}]
      /\ plan.deps \in [Tasks -> SUBSET Tasks]
    BY DEF IInv, Shape
<1>2. ASSUME \A t \in Tasks : job[t].stage = "succeeded" => job'[t].stage = "succeeded",
             verdict' = "none" =>
                \A t \in Tasks : job'[t].stage = "succeeded" =>
                    t \in wave' \/ status'[t] \in {"succeeded", "failed"}
      PROVE  Charged'
    <2>1. ASSUME NEW t \in Tasks, ledger'.spent[t] # Zero PROVE job'[t].stage = "succeeded"
        <3>1. CASE ledger'.spent[t] # ledger.spent[t] BY <3>1, LedgerStep
        <3>2. CASE ledger'.spent[t] = ledger.spent[t]
            BY <1>2, <2>1, <3>2 DEF Budgeted, Charged
        <3> QED BY <3>1, <3>2
    <2>2. Zero' = Zero BY DEF Zero
    <2> QED BY <1>2, <2>1, <2>2 DEF Charged
<1>3. ASSUME NEW t \in Tasks, Scheduling, job[t].stage \in Active,
             \A u \in Tasks \ {t} : job'[u] = job[u]
      PROVE  Charged'
    <2>1. wave' = wave /\ status' = status /\ verdict' = verdict BY <1>3 DEF Scheduling
    <2>2. t \in wave BY <1>3 DEF IInv, Jobs
    <2>3. job[t].stage # "succeeded" BY <1>3 DEF Active
    <2>4. \A u \in Tasks : job[u].stage = "succeeded" => job'[u].stage = "succeeded"
        BY <1>3, <2>3
    <2>5. ASSUME verdict' = "none", NEW u \in Tasks, job'[u].stage = "succeeded"
          PROVE  u \in wave' \/ status'[u] \in {"succeeded", "failed"}
        <3>1. CASE u = t BY <2>1, <2>2, <3>1
        <3>2. CASE u # t BY <1>3, <2>1, <2>5, <3>2 DEF Budgeted, Charged
        <3> QED BY <3>1, <3>2
    <2> QED BY <1>2, <2>4, <2>5
<1>4. ASSUME NEW t \in Tasks,
             \/ Exhaust(t) \/ Unbuilt(t) \/ Dispatch(t)
             \/ Answer(t) \/ Collect(t) \/ Expire(t) \/ Stop(t)
      PROVE  Charged'
    <2>1. job[t].stage \in Active /\ Scheduling
        BY <1>4 DEF Exhaust, Unbuilt, Dispatch, Answer, Collect, Expire, Stop, Active
    <2>2. \/ \E s : Move(t, s)
          \/ TryNext(t)
          \/ \E r : job' = [job EXCEPT ![t].stage = "answered", ![t].reply = r]
        BY <1>4 DEF Exhaust, Unbuilt, Dispatch, Answer, Collect, Expire, Stop
    <2>3. \A u \in Tasks \ {t} : job'[u] = job[u] BY <1>1, <2>2 DEF Move, TryNext
    <2> QED BY <1>3, <2>1, <2>3
<1>5. CASE StartWave
    <2>1. /\ verdict = "none" /\ wave = {} /\ status' = status
          /\ job' = [t \in Tasks |-> IF t \in First(Ready)
                                     THEN [Idle EXCEPT !.stage = "next"] ELSE job[t]]
        BY <1>5 DEF StartWave
    <2>2. \A t \in First(Ready) : t \in Tasks /\ status[t] = "ready" BY DEF First, Ready
    <2>3. \A t \in First(Ready) : job[t].stage # "succeeded"
        BY <2>1, <2>2 DEF Budgeted, Charged
    <2>4. \A t \in Tasks : t \notin First(Ready) => job'[t] = job[t] BY <2>1
    <2>5. \A t \in First(Ready) : job'[t].stage = "next" BY <2>1, <2>2 DEF Idle
    <2>6. \A t \in Tasks : job[t].stage = "succeeded" => job'[t].stage = "succeeded"
        BY <2>3, <2>4
    <2>7. \A t \in Tasks : job'[t].stage = "succeeded" =>
            t \in wave' \/ status'[t] \in {"succeeded", "failed"}
        BY <2>1, <2>4, <2>5 DEF Budgeted, Charged
    <2> QED BY <1>2, <2>6, <2>7
<1>6. CASE EndWave
    <2> DEFINE now == [t \in Tasks |-> IF t \in wave THEN Settled(job[t]) ELSE status[t]]
    <2>1. /\ wave # {} /\ job' = job /\ verdict' = verdict
          /\ \A t \in wave : job[t].stage \in {"succeeded", "failed"}
          /\ status' = [t \in Tasks |->
                          IF now[t] = "pending" /\ \A u \in plan.deps[t] : now[u] = "succeeded"
                          THEN "ready" ELSE now[t]]
        BY <1>6 DEF EndWave
    <2>2. \A t \in Tasks : now[t] = IF t \in wave THEN Settled(job[t]) ELSE status[t] OBVIOUS
    <2>3. \A t \in wave : now[t] \in {"succeeded", "failed"} BY <1>1, <2>1, <2>2 DEF Settled
    <2> HIDE DEF now
    <2>4. \A t \in Tasks : now[t] \in {"succeeded", "failed"} => status'[t] = now[t] BY <2>1
    <2>5. ASSUME verdict' = "none", NEW t \in Tasks, job'[t].stage = "succeeded"
          PROVE  status'[t] \in {"succeeded", "failed"}
        <3>1. t \in wave \/ status[t] \in {"succeeded", "failed"}
            BY <2>1, <2>5 DEF Budgeted, Charged
        <3> QED BY <2>2, <2>3, <2>4, <3>1
    <2> QED BY <1>2, <2>1, <2>5
<1>7. CASE AbandonWave \/ BreakOff \/ Conclude \/ Cancel \/ Lapse \/ UNCHANGED vars
    <2>1. job' = job /\ (verdict' = "none" => verdict = "none" /\ wave' = wave /\ status' = status)
        BY <1>7 DEF AbandonWave, BreakOff, Conclude, Reported, Overruled, Aggregated,
                    Cancel, Lapse, vars
    <2> QED BY <1>2, <2>1 DEF Budgeted, Charged
<1> QED BY <1>4, <1>5, <1>6, <1>7 DEF Next

(* The invariant of the scenario's budget is inductive, given that of the rest. *)
LEMMA NextBudgeted == IInv /\ Budgeted /\ [Next]_vars => Budgeted'
<1> SUFFICES ASSUME IInv, Budgeted, [Next]_vars PROVE Budgeted' OBVIOUS
<1>1. IInv' BY NextIInv
<1>2. IsLedger(ledger') /\ Pooled(ledger') BY LedgerStep
<1>3. WithinPool' BY <1>2 DEF WithinPool, Pooled
<1>4. plan' = plan BY DEF Next, vars, Scheduling, Exhaust, Unbuilt, Dispatch, Answer, Collect,
                          Expire, Stop, StartWave, EndWave, AbandonWave, BreakOff, Conclude,
                          Cancel, Lapse
<1>5. Cardinality(wave') <= MaxParallel
    <2>1. Cardinality(wave) <= MaxParallel BY DEF Budgeted, BudgetInvariant, TypeOK
    <2>2. MaxParallel \in Nat \ {0} BY WavesAssumption
    <2>3. CASE wave' = {} BY <2>2, <2>3, FS_EmptySet
    <2>4. CASE StartWave
        <3>1. Ready \in SUBSET Tasks BY DEF Ready
        <3> QED BY <2>4, <3>1, FirstNarrow DEF StartWave
    <2>5. CASE wave' = wave BY <2>1, <2>5
    <2>6. wave' = {} \/ StartWave \/ wave' = wave
        BY DEF Next, vars, Scheduling, Exhaust, Unbuilt, Dispatch, Answer, Collect, Expire, Stop,
               EndWave, AbandonWave, BreakOff, Conclude, Cancel, Lapse
    <2> QED BY <2>3, <2>4, <2>5, <2>6
<1>6. rounds' \in 0 .. Cardinality(Tasks)
    <2>1. rounds \in 0 .. Cardinality(Tasks) /\ Cardinality(Tasks) \in Nat
        BY LedgerAssumption, FS_CardinalityType DEF Budgeted, BudgetInvariant, TypeOK
    <2>2. rounds' = rounds \/ (rounds > 0 /\ rounds' = rounds - 1)
        BY DEF Next, vars, Scheduling, Exhaust, Unbuilt, Dispatch, Answer, Collect, Expire, Stop,
               StartWave, EndWave, AbandonWave, BreakOff, Conclude, Cancel, Lapse
    <2> QED BY <2>1, <2>2
<1>7. cancel' \in BOOLEAN /\ late' \in BOOLEAN
    <2>1. cancel \in BOOLEAN /\ late \in BOOLEAN BY DEF Budgeted, BudgetInvariant, TypeOK
    <2>2. (cancel' = cancel \/ cancel' = TRUE) /\ (late' = late \/ late' = TRUE)
        BY Zenon DEF Next, vars, Scheduling, Exhaust, Unbuilt, Dispatch, Answer, Collect, Expire, Stop,
               StartWave, EndWave, AbandonWave, BreakOff, Conclude, Cancel, Lapse
    <2> QED BY <2>1, <2>2
<1>8. verdict' \in Verdict
    <2>1. verdict \in Verdict BY DEF Budgeted, BudgetInvariant, TypeOK
    <2>2. \/ verdict' = verdict \/ verdict' = "cancelled"
          \/ \E warned \in BOOLEAN : verdict' = Reported(warned)
        BY DEF Next, vars, Scheduling, Exhaust, Unbuilt, Dispatch, Answer, Collect, Expire, Stop,
               StartWave, EndWave, AbandonWave, BreakOff, Conclude, Cancel, Lapse
    <2>3. \A warned : Reported(warned) \in Verdict
        BY DEF Reported, Overruled, Aggregated, Verdict
    <2> QED BY <2>1, <2>2, <2>3 DEF Verdict
<1>9. TypeOK'
    BY <1>1, <1>2, <1>4, <1>5, <1>6, <1>7, <1>8
    DEF IInv, Shape, TypeOK, Budgeted, BudgetInvariant
<1>10. Charged' BY ChargedStep
<1> QED BY <1>3, <1>9, <1>10 DEF Budgeted, BudgetInvariant

(* In every scenario the budgets in force and what is not handed out yet stay   *)
(* within the tasks' share of the budget, and no task consumes more than its   *)
(* own, whichever order the tasks ask in and however the shares are rounded.   *)
THEOREM PoolKept == Spec => []BudgetInvariant
<1>1. Init => Budgeted BY InitBudgeted
<1>2. Budgeted => BudgetInvariant BY DEF Budgeted
<1> QED BY <1>1, <1>2, NextBudgeted, Invariant, PTL DEF Spec

(* In every scenario a budget once in force never grows: the second candidate   *)
(* of a task gets no more than the first had.                                 *)
THEOREM BudgetsOnlyFall == Spec => NeverGrows
<1>1. IInv /\ Budgeted /\ [Next]_vars =>
        [\A t \in DOMAIN ledger.effective :
            /\ t \in DOMAIN ledger'.effective
            /\ \A d \in Dims : ledger'.effective[t][d] <= ledger.effective[t][d]]_vars
    <2> SUFFICES ASSUME IInv, Budgeted, [Next]_vars PROVE Lower(ledger', ledger)
        BY DEF Lower
    <2> QED BY LedgerStep
<1> QED BY <1>1, InitBudgeted, NextBudgeted, Invariant, PTL DEF Spec, NeverGrows

=============================================================================
