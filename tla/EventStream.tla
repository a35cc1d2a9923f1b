----------------------------- MODULE EventStream -----------------------------
(***************************************************************************)
(* The live event stream of one Run: the in-process EventHub                *)
(* (runtime/event_hub.py), the SSE connections that replay and then follow  *)
(* it (api/sse.py), and the browser's client that reconnects with the id of *)
(* the last event it got (operation-chat/sseClient.ts).  A connection is a  *)
(* coroutine: publishers run at each of its awaits and yields.              *)
(***************************************************************************)
EXTENDS Naturals, Sequences

CONSTANTS
    Clients,        \* readers of the stream, one connection at a time each
    MaxReconnects,  \* how often a client reconnects (maxReconnects, 3 by default)
    MaxEvents,      \* bound: events published
    MaxDrops        \* bound: connections lost by the network

ASSUME LimitsNatural == MaxReconnects \in Nat /\ MaxEvents \in Nat /\ MaxDrops \in Nat

VARIABLES
    history,    \* Seq(Kind): the events of the Run, the index is the sequence
    conn,       \* [Clients -> Conn]: the server's side of each connection
    got,        \* [Clients -> Nat]: the last event each client has got
    tries,      \* [Clients -> Nat]: reconnects of each client so far
    drops

vars == <<history, conn, got, tries, drops>>

\* stream_done ends a connection; with the status waiting_input ("pause") the
\* Run goes on later, with any other status ("done") its stream is closed.
Done == {"pause", "done"}
Kind == {"event"} \cup Done

At   == {"off", "opened", "replay", "live"}
Conn == [at : At, cursor : Nat, replayed : Seq(Nat), queue : Seq(Nat)]
Idle(at, cursor) == [at |-> at, cursor |-> cursor, replayed |-> <<>>, queue |-> <<>>]
Off  == Idle("off", 0)

(* An operator Faulty... is a slip the code could have made in the operator *)
(* that follows it: the properties below are known to notice them.          *)

Closed == \E i \in DOMAIN history : history[i] = "done"

\* The client has got a stream_done: its loop returns.
Completed(c) == got[c] > 0 /\ history[got[c]] \in Done

\* The subscription is registered before the history is read.
FaultySubscribed(c) == conn[c].at = "live"
Subscribed(c)       == conn[c].at # "off"

FaultyLastTry(c) == tries[c] < MaxReconnects
MayReconnect(c)  == tries[c] <= MaxReconnects

\* Replay returns what is strictly later than the cursor.
FaultyNewer(cursor) == [i \in 1 .. Len(history) |-> i]
Newer(cursor)       == [i \in 1 .. (Len(history) - cursor) |-> cursor + i]

\* What was replayed is in the queue once more, and is skipped there.
IsNew(c, n) == n > conn[c].cursor

Init ==
    /\ history = <<>>
    /\ conn = [c \in Clients |-> Off]
    /\ got = [c \in Clients |-> 0]
    /\ tries = [c \in Clients |-> 0]
    /\ drops = 0

-----------------------------------------------------------------------------
(* The hub. *)

\* publish_next appends and hands the event to every subscriber; once the
\* stream is closed it refuses.
Publish(kind) ==
    /\ ~Closed /\ Len(history) < MaxEvents
    /\ history' = Append(history, kind)
    /\ conn' = [c \in Clients |->
                  IF Subscribed(c)
                    THEN [conn[c] EXCEPT !.queue = Append(@, Len(history) + 1)]
                    ELSE conn[c]]
    /\ UNCHANGED <<got, tries, drops>>

-----------------------------------------------------------------------------
(* A connection, and the client at its other end. *)

Open(c) == conn' = [conn EXCEPT ![c] = Idle("opened", got[c])]

\* The client's loop, and its first connection.
Connect(c) ==
    /\ conn[c].at = "off" /\ ~Completed(c) /\ MayReconnect(c)
    /\ Open(c)
    /\ UNCHANGED <<history, got, tries, drops>>

\* The page is loaded again after a wait and follows the Run from where it was.
Follow(c) ==
    /\ conn[c].at = "off" /\ Completed(c) /\ history[got[c]] = "pause"
    /\ Open(c)
    /\ tries' = [tries EXCEPT ![c] = 0]
    /\ UNCHANGED <<history, got, drops>>

\* A closed stream ends here, whatever the queue holds; the client counts a
\* connection that ends without a stream_done as one to be repeated.
AfterReplay(c) ==
    IF Closed
      THEN conn' = [conn EXCEPT ![c] = Off] /\ tries' = [tries EXCEPT ![c] = @ + 1]
      ELSE conn' = [conn EXCEPT ![c] = [@ EXCEPT !.at = "live"]] /\ UNCHANGED tries

\* Without events to replay nothing is sent in between.
Replay(c) ==
    LET later == Newer(conn[c].cursor) IN
    /\ conn[c].at = "opened"
    /\ IF later = <<>>
         THEN AfterReplay(c)
         ELSE /\ conn' = [conn EXCEPT ![c] = [@ EXCEPT !.at = "replay", !.replayed = later]]
              /\ UNCHANGED tries
    /\ UNCHANGED <<history, got, drops>>

\* The client gets event n, unless it has it; a stream_done ends the connection.
Deliver(c, n, rest) ==
    /\ got' = [got EXCEPT ![c] = IF n > @ THEN n ELSE @]
    /\ conn' = [conn EXCEPT ![c] = IF history[n] \in Done THEN Off ELSE rest]
    /\ UNCHANGED <<history, tries, drops>>

SendReplayed(c) ==
    LET n == Head(conn[c].replayed) IN
    /\ conn[c].at = "replay" /\ conn[c].replayed # <<>>
    /\ Deliver(c, n, [conn[c] EXCEPT !.cursor = n, !.replayed = Tail(@)])

EndReplay(c) ==
    /\ conn[c].at = "replay" /\ conn[c].replayed = <<>>
    /\ AfterReplay(c)
    /\ UNCHANGED <<history, got, drops>>

SendLive(c) ==
    LET n == Head(conn[c].queue) IN
    /\ conn[c].at = "live" /\ conn[c].queue # <<>> /\ IsNew(c, n)
    /\ Deliver(c, n, [conn[c] EXCEPT !.cursor = n, !.queue = Tail(@)])

SkipLive(c) ==
    /\ conn[c].at = "live" /\ conn[c].queue # <<>> /\ ~IsNew(c, Head(conn[c].queue))
    /\ conn' = [conn EXCEPT ![c] = [conn[c] EXCEPT !.queue = Tail(@)]]
    /\ UNCHANGED <<history, got, tries, drops>>

\* The connection breaks, with whatever was under way on it.
Drop(c) ==
    /\ conn[c].at # "off" /\ drops < MaxDrops
    /\ drops' = drops + 1
    /\ conn' = [conn EXCEPT ![c] = Off]
    /\ tries' = [tries EXCEPT ![c] = @ + 1]
    /\ UNCHANGED <<history, got>>

-----------------------------------------------------------------------------

Serve(c) == Replay(c) \/ SendReplayed(c) \/ EndReplay(c) \/ SendLive(c) \/ SkipLive(c)

Next ==
    \/ \E kind \in Kind : Publish(kind)
    \/ \E c \in Clients : Connect(c) \/ Follow(c) \/ Serve(c) \/ Drop(c)

Spec == Init /\ [][Next]_vars

\* The event loop serves every connection, and a client's loop goes on.
Fairness == \A c \in Clients : WF_vars(Connect(c)) /\ WF_vars(Serve(c))

FairSpec == Spec /\ Fairness

-----------------------------------------------------------------------------
(* Properties. *)

TypeOK ==
    /\ history \in Seq(Kind)
    /\ conn \in [Clients -> Conn]
    /\ got \in [Clients -> Nat]
    /\ tries \in [Clients -> 0 .. (MaxReconnects + 1)]
    /\ drops \in 0 .. MaxDrops

\* Of n events, connection k has what comes after its cursor: its queue holds
\* the last ones without a hole, and what it has to replay leads up to them.
AtHand(k, n) ==
    /\ k.cursor <= n /\ Len(k.queue) <= n
    /\ \A i \in DOMAIN k.queue : k.queue[i] = (n - Len(k.queue)) + i
    /\ \A i \in DOMAIN k.replayed : k.replayed[i] = k.cursor + i
    /\ k.cursor + Len(k.replayed) <= n
    /\ k.at = "opened" => k.cursor <= n - Len(k.queue)
    /\ k.at # "opened" => n - Len(k.queue) <= k.cursor + Len(k.replayed)
    /\ k.at # "replay" => k.replayed = <<>>

\* At no moment is there a hole between what a connection has sent, what it has
\* still to replay and what its queue holds: the next event is always at hand.
NothingMissed ==
    \A c \in Clients :
        /\ got[c] <= Len(history)
        /\ conn[c].at # "off" => conn[c].cursor = got[c] /\ AtHand(conn[c], Len(history))

\* Every client gets every event once and in order, across drops and reconnects.
Delivery == INSTANCE OrderedDelivery WITH published <- Len(history), received <- got
InOrder  == Delivery!Spec

\* A client whose connections break no more often than it tolerates learns how
\* the stream ended, though a stream that closes during a replay costs one try.
EndReaches ==
    \A c \in Clients : Closed ~> (Completed(c) \/ drops > MaxReconnects - 1)

=============================================================================
