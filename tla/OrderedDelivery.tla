--------------------------- MODULE OrderedDelivery ---------------------------
(***************************************************************************)
(* What the event stream of a Run promises its readers: every reader gets   *)
(* every event exactly once and in order, however often it reconnects.      *)
(***************************************************************************)
EXTENDS Naturals

CONSTANT Clients

VARIABLES
    published,  \* how many events the Run has published
    received    \* [Clients -> Nat]: how many of them each reader has got

dvars == <<published, received>>

Init == published = 0 /\ received = [c \in Clients |-> 0]

Publish == published' = published + 1 /\ UNCHANGED received

Receive(c) ==
    /\ received[c] < published
    /\ received' = [received EXCEPT ![c] = @ + 1]
    /\ UNCHANGED published

Next == Publish \/ \E c \in Clients : Receive(c)

Spec == Init /\ [][Next]_dvars

=============================================================================
