---------------------------- MODULE BudgetLedger ----------------------------
(***************************************************************************)
(* The ledger that splits a scenario's budget among its tasks (BudgetLedger  *)
(* in agents/operation/supervisor/budget.py), as operators over a ledger      *)
(* record:                                                                   *)
(*   granted    what each task was allocated from the work pool               *)
(*   effective  the budgets in force, for the tasks that have one             *)
(*   spent      what was consumed                                             *)
(*   spare      what is left of the work pool, to be handed out once          *)
(* A budget is a function over Dims; Vital are the dimensions in which a task *)
(* cannot run on nothing.  release_unstarted, reserve_revision, snapshot and   *)
(* restore have no caller and are left out.                                  *)
(***************************************************************************)
EXTENDS Naturals, FiniteSets, Functions

CONSTANTS Tasks, Dims, Vital, Parent

ASSUME LedgerAssumption ==
    /\ IsFiniteSet(Tasks) /\ Tasks \subseteq Nat
    /\ Vital \subseteq Dims
    /\ Parent \in [Dims -> Nat]

Budget == [Dims -> Nat]

Zero == [d \in Dims |-> 0]

IsLedger(l) ==
    /\ DOMAIN l = {"granted", "effective", "spent", "spare"}
    /\ l.granted \in [Tasks -> Budget] /\ l.spent \in [Tasks -> Budget]
    /\ l.spare \in Budget
    /\ DOMAIN l.effective \subseteq Tasks
    /\ l.effective \in [DOMAIN l.effective -> Budget]

\* 70% of the parent's budget is for the tasks; the rest is kept for revisions
\* and for the aggregation.
Work == [d \in Dims |-> (Parent[d] * 7000) \div 10000]

Total(amount, S) == SumFunctionOnSet(amount, S)

In(d, budget) == [t \in DOMAIN budget |-> budget[t][d]]

\* A pool divided in proportion to what is wanted: rounded down, and what that
\* leaves goes to the largest remainders, the smaller id first.
Rounded(pool, want, extra) ==
    LET total        == Total(want, DOMAIN want)
        Rest(t)      == (pool * want[t]) % total
        Before(u, t) == Rest(u) > Rest(t) \/ (Rest(u) = Rest(t) /\ u < t)
    IN  [t \in DOMAIN want |->
            (pool * want[t]) \div total
                + IF Cardinality({u \in DOMAIN want : Before(u, t)}) < extra THEN 1 ELSE 0]

Left(pool, want) == pool - Total(Rounded(pool, want, 0), DOMAIN want)

Shares(pool, want) == Rounded(pool, want, Left(pool, want))

Short(request, d) == Total(In(d, request), Tasks) > Work[d]

Grants(request) ==
    [t \in Tasks |-> [d \in Dims |->
        IF Short(request, d) THEN Shares(Work[d], In(d, request))[t] ELSE request[t][d]]]

\* Otherwise allocate raises BUDGET_UNALLOCATABLE, before any task runs.
Allocatable(request) ==
    \A d \in Vital : \A t \in Tasks : request[t][d] >= 1 /\ Grants(request)[t][d] >= 1

Allocate(request) ==
    LET granted == Grants(request) IN
    [granted   |-> granted,
     effective |-> [t \in {} |-> Zero],
     spent     |-> [t \in Tasks |-> Zero],
     spare     |-> [d \in Dims |-> Work[d] - Total(In(d, granted), Tasks)]]

(* An operator Faulty... is a slip the code could have made in the operator *)
(* that follows it: the properties of ScenarioWaves are known to notice it.  *)

FaultyInForce(l, t) == l.granted[t]
InForce(l, t)       == IF t \in DOMAIN l.effective THEN l.effective[t] ELSE l.granted[t]

\* What is handed out is not handed out again.
FaultySpareAfter(l) == l.spare
SpareAfter(l)       == Zero

\* The first task to ask for its budget makes the ledger hand out what the
\* allocation left, to every task without a budget in force.
Spread(l, request) ==
    LET waiting == Tasks \ DOMAIN l.effective
        want    == [t \in waiting |-> request[t]]
        given   == {d \in Dims : l.spare[d] > 0 /\ Total(In(d, want), waiting) > 0}
        More(t) == [d \in Dims |-> l.granted[t][d]
                        + IF d \in given THEN Shares(l.spare[d], In(d, want))[t] ELSE 0]
        asked   == IF given = {} THEN DOMAIN l.effective ELSE Tasks
    IN  IF waiting = {} THEN l
        ELSE [l EXCEPT !.spare = SpareAfter(l),
                       !.effective = [t \in asked |-> IF t \in waiting THEN More(t) ELSE @[t]]]

Least(a, b) == [d \in Dims |-> IF a[d] <= b[d] THEN a[d] ELSE b[d]]

\* budget_for: the budget in force becomes the least of itself and the agent's cap.
BudgetFor(l, t, cap, request) ==
    LET ready == IF t \in DOMAIN l.effective THEN l ELSE Spread(l, request) IN
    [ready EXCEPT !.effective =
        [u \in DOMAIN @ \cup {t} |-> IF u = t THEN Least(InForce(ready, t), cap) ELSE @[u]]]

\* consume, which changes nothing when any dimension would be exceeded.
Affords(l, t, usage) == \A d \in Dims : l.spent[t][d] + usage[d] <= InForce(l, t)[d]

Consume(l, t, usage) ==
    [l EXCEPT !.spent[t] = [d \in Dims |-> @[d] + usage[d]]]

=============================================================================
