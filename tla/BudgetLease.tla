---------------------------- MODULE BudgetLease ----------------------------
(***************************************************************************)
(* The budget of one research Run, shared by everything the Run calls:      *)
(* models, tools and the HTTP requests to its sources                       *)
(* (InMemoryBudgetLeaseRepository and its three callers).  A call reserves   *)
(* its worst case before it starts and settles what it really used when it   *)
(* ends.  The five dimensions of a charge are one number here.               *)
(*                                                                          *)
(* The repository's asyncio.Lock is never held over a suspension, so taking  *)
(* it never waits: a caller's reserve, its retry after a version conflict    *)
(* and its mark_dispatched are one step of the event loop, and so are an     *)
(* answer and its settlement.  Versions are therefore left out.              *)
(*                                                                          *)
(* Names that ScenarioWaves has too are the lease's own here (LeaseNext,     *)
(* LeaseTypeOK), since one module proves about both.                         *)
(***************************************************************************)
EXTENDS Naturals, FiniteSets, Functions

CONSTANTS
    Calls,          \* the calls the Run may make, an attempt of one being a call
    Sources,        \* those of them that are HTTP requests to a source
    Charge,         \* [Calls -> Nat]: what each one reserves
    Limit,          \* the Run's hard limit
    OutputReserve,  \* the part of it that is kept for the final output
    Excess          \* bound: by how much a model may use more than was estimated

ASSUME LeaseAssumption ==
    /\ IsFiniteSet(Calls) /\ Sources \subseteq Calls
    /\ Charge \in [Calls -> Nat] /\ Limit \in Nat /\ Excess \in Nat
    /\ OutputReserve \in 0..Limit

VARIABLES
    totals,     \* [used, reserved]
    lease,      \* [Calls -> [status, spent, outcome, allowed]]: reservations and their audit
    terminal,   \* the scope is marked as ended: _terminal_scopes
    clock,      \* "early"; "closing" while only output may start; "late" after the deadline
    run         \* "active", "cancelled" (asked by the user), "ended" (frozen)

leaseVars == <<totals, lease, terminal, clock, run>>

Status  == {"none", "dispatched", "settled", "released", "refused"}
Outcome == {"none", "success", "failed", "unknown"}
Lease   == [status : Status, spent : Nat, outcome : Outcome, allowed : BOOLEAN]

Open == {c \in Calls : lease[c].status = "dispatched"}

(* An operator Faulty... is a slip the code could have made in the operator *)
(* that follows it: the properties below are known to notice them.          *)

\* _ensure_within for a call that is not the output's.
Within(total) == total <= Limit - OutputReserve

FaultyFits(c) == Within(totals.used + Charge[c])
Fits(c)       == Within(totals.used + totals.reserved + Charge[c])

\* What a call is charged for: an unknown result gives nothing back.
Effective(c, outcome, used) ==
    IF outcome = "unknown" /\ used < Charge[c] THEN Charge[c] ELSE used

Remaining(c, outcome) == totals.reserved - Charge[c]

FaultyLate == clock = "late"
Late       == clock = "late" \/ terminal

FaultyOverLimit(c, spent) == ~Within(totals.used + totals.reserved + spent)
OverLimit(c, spent)       == ~Within(totals.used + (totals.reserved - Charge[c]) + spent)

-----------------------------------------------------------------------------
LeaseInit ==
    /\ totals = [used |-> 0, reserved |-> 0]
    /\ lease = [c \in Calls |-> [status |-> "none", spent |-> 0, outcome |-> "none", allowed |-> FALSE]]
    /\ terminal = FALSE
    /\ clock = "early"
    /\ run = "active"

\* The scope's own refusal: its end, then the deadline of its stage.
Shut == terminal \/ clock # "early"

\* reserve and mark_dispatched, then the call goes out.
Start(c) ==
    /\ lease[c].status = "none"
    /\ ~Shut /\ Fits(c)
    /\ totals' = [totals EXCEPT !.reserved = @ + Charge[c]]
    /\ lease' = [lease EXCEPT ![c].status = "dispatched"]
    /\ UNCHANGED <<terminal, clock, run>>

\* reserve raises BudgetExhaustedError: the caller gives up.
Refuse(c) ==
    /\ lease[c].status = "none"
    /\ Shut \/ ~Fits(c)
    /\ lease' = [lease EXCEPT ![c].status = "refused"]
    /\ UNCHANGED <<totals, terminal, clock, run>>

\* The deadline passes between reserve and mark_dispatched, which releases.
MissDispatch(c) ==
    /\ lease[c].status = "none"
    /\ ~Shut /\ Fits(c)
    /\ clock' = "closing"
    /\ lease' = [lease EXCEPT ![c].status = "released"]
    /\ UNCHANGED <<totals, terminal, run>>

\* settle, with the scope as "ended" says: a caller may mark it just before.  A
\* settlement beyond the limit is recorded, never refused.
Settle(c, outcome, used, ended) ==
    LET spent == Effective(c, outcome, used) IN
    /\ totals' = [used |-> totals.used + spent, reserved |-> Remaining(c, outcome)]
    /\ lease' = [lease EXCEPT ![c] =
                    [status |-> "settled", spent |-> spent, outcome |-> outcome,
                     allowed |-> outcome = "success" /\ ~Late /\ ~ended /\ ~OverLimit(c, spent)]]

\* The call comes back with what it used: a source never reads more than it
\* reserved, and whatever it answers counts as a success here.
Return(c) ==
    /\ c \in Open
    /\ \E outcome \in (IF c \in Sources THEN {"success"} ELSE {"success", "failed"}) :
       \E used \in 0 .. (Charge[c] + IF c \in Sources THEN 0 ELSE Excess) :
            Settle(c, outcome, used, FALSE)
    /\ UNCHANGED <<terminal, clock, run>>

\* The call raises, or a model or a tool runs into its timeout.
Break(c) ==
    /\ c \in Open
    /\ Settle(c, "unknown", 0, FALSE)
    /\ UNCHANGED <<terminal, clock, run>>

\* The timeout of a source reaches the request as a cancellation of its task
\* (asyncio.timeout around it in fetch), and a cancelled request marks the scope.
SlowSource(c) ==
    /\ c \in Open \cap Sources
    /\ terminal' = TRUE
    /\ Settle(c, "unknown", 0, TRUE)
    /\ UNCHANGED <<clock, run>>

\* The task of the call is cancelled: each of the three callers marks, then settles.
Cancelled(c) ==
    /\ c \in Open
    /\ run # "active"
    /\ terminal' = TRUE
    /\ Settle(c, "unknown", 0, TRUE)
    /\ UNCHANGED <<clock, run>>

\* The user asks to stop; the runtime and its calls learn of it one by one.
AskStop ==
    /\ run = "active"
    /\ run' = "cancelled"
    /\ UNCHANGED <<totals, lease, terminal, clock>>

\* The Run's task ends (done, failed, cancelled or out of time) and freezes the scope.
Freeze ==
    /\ run # "ended"
    /\ run' = "ended"
    /\ terminal' = TRUE
    /\ UNCHANGED <<totals, lease, clock>>

Tick ==
    /\ clock # "late"
    /\ clock' = IF clock = "early" THEN "closing" ELSE "late"
    /\ UNCHANGED <<totals, lease, terminal, run>>

\* The ways a call that went out comes to its end.
Finish(c) == Return(c) \/ Break(c) \/ SlowSource(c) \/ Cancelled(c)

LeaseNext ==
    \/ \E c \in Calls : Start(c) \/ Refuse(c) \/ MissDispatch(c) \/ Finish(c)
    \/ AskStop \/ Freeze \/ Tick

LeaseSpec == LeaseInit /\ [][LeaseNext]_leaseVars

-----------------------------------------------------------------------------
LeaseTypeOK ==
    /\ totals \in [used : Nat, reserved : Nat]
    /\ lease \in [Calls -> Lease]
    /\ terminal \in BOOLEAN
    /\ clock \in {"early", "closing", "late"}
    /\ run \in {"active", "cancelled", "ended"}

Spent    == SumFunctionOnSet([c \in Calls |-> lease[c].spent], Calls)
Reserved == SumFunctionOnSet(Charge, Open)
Overrun  == [c \in Calls |-> IF lease[c].spent > Charge[c] THEN lease[c].spent - Charge[c] ELSE 0]

(* The two totals of the ledger, kept by increments on every path, are those *)
(* of the reservations still open and of the calls settled: nothing is       *)
(* counted twice and nothing that ended stays reserved.                      *)
Balanced ==
    /\ totals.reserved = Reserved
    /\ totals.used = Spent

(* What is used and reserved exceeds the limit, with the output's part kept,  *)
(* by no more than models used beyond their estimates: calls in flight at     *)
(* the same time never share the same room.                                   *)
WithinLimit ==
    totals.used + totals.reserved
        <= (Limit - OutputReserve) + SumFunctionOnSet(Overrun, Calls)

(* The ledger is well-formed, balanced and within its limit, however calls    *)
(* that are in flight together end.                                           *)
LedgerInvariant == LeaseTypeOK /\ Balanced /\ WithinLimit

(* While no call went beyond its own estimate, no result is withheld as over  *)
(* the limit: a success that was settled without being delivered came late.   *)
HonestDelivered ==
    (\A c \in Calls : Overrun[c] = 0) =>
        \A c \in Calls : lease[c].outcome = "success" /\ ~lease[c].allowed => Late

(* Once the Run has ended, or its deadline has passed, no call goes out and   *)
(* no result that still arrives may be delivered.                             *)
NothingAfterTheEnd ==
    [][run = "ended" \/ clock = "late" =>
        \A c \in Calls : /\ lease'[c].allowed => lease[c].allowed
                         /\ lease'[c].status = "dispatched" => lease[c].status = "dispatched"]_leaseVars

=============================================================================
