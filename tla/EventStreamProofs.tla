------------------------- MODULE EventStreamProofs -------------------------
(***************************************************************************)
(* For any number of readers, events and reconnects: the stream's types, no *)
(* hole between replay and live events (NothingMissed), and that the stream *)
(* implements OrderedDelivery (InOrder).                                    *)
(***************************************************************************)
EXTENDS EventStream, TLAPS

\* A connection is open only while the client may still count it as failed.
TriesLeft == \A c \in Clients : conn[c].at # "off" => tries[c] <= MaxReconnects

Shape == TypeOK /\ NothingMissed /\ TriesLeft

-----------------------------------------------------------------------------
(* What one step does to the record of one connection. *)

\* The tail of a sequence, entry by entry.
LEMMA TailEntries ==
    ASSUME NEW s \in Seq(Nat), s # <<>>
    PROVE  /\ Tail(s) \in Seq(Nat) /\ Len(Tail(s)) = Len(s) - 1 /\ Len(s) \in Nat /\ Len(s) > 0
           /\ Head(s) = s[1] /\ 1 \in DOMAIN s /\ DOMAIN Tail(s) = 1 .. (Len(s) - 1)
           /\ \A i \in DOMAIN Tail(s) : i \in Nat /\ i + 1 \in DOMAIN s /\ Tail(s)[i] = s[i + 1]
OBVIOUS

\* An event handed to a subscriber extends the end of its queue (put_nowait).
LEMMA Queueing ==
    ASSUME NEW k \in Conn, NEW n \in Nat, AtHand(k, n)
    PROVE  LET q == [k EXCEPT !.queue = Append(@, n + 1)]
           IN  q \in Conn /\ AtHand(q, n + 1) /\ q.at = k.at /\ q.cursor = k.cursor
<1> DEFINE q == [k EXCEPT !.queue = Append(@, n + 1)]
<1>0. Append(k.queue, n + 1) \in Seq(Nat)
  BY DEF Conn
<1>1. q \in Conn /\ q.at = k.at /\ q.cursor = k.cursor /\ q.replayed = k.replayed
  BY <1>0 DEF Conn, At
<1>2. q.queue = Append(k.queue, n + 1) /\ Len(q.queue) = Len(k.queue) + 1
  BY DEF Conn
<1>3. \A i \in DOMAIN q.queue : q.queue[i] = ((n + 1) - Len(q.queue)) + i
  <2> TAKE i \in DOMAIN q.queue
  <2>1. k.queue \in Seq(Nat) /\ Len(k.queue) \in Nat /\ i \in 1 .. (Len(k.queue) + 1)
    BY <1>2 DEF Conn
  <2>2. CASE i = Len(k.queue) + 1
    BY <1>2, <2>1, <2>2
  <2>3. CASE i \in 1 .. Len(k.queue)
    BY <1>2, <2>1, <2>3 DEF AtHand
  <2> QED BY <2>1, <2>2, <2>3
<1>5. q.at = k.at /\ q.cursor = k.cursor /\ q.replayed = k.replayed
  BY <1>1
<1> HIDE DEF q
<1>4. AtHand(q, n + 1)
  <2>1. Len(k.queue) \in Nat /\ Len(q.queue) = Len(k.queue) + 1 /\ k.cursor \in Nat
    BY <1>2 DEF Conn
  <2>2. (n + 1) - Len(q.queue) = n - Len(k.queue) /\ Len(q.queue) <= n + 1 /\ k.cursor <= n + 1
    BY <2>1 DEF AtHand
  <2>3. k.cursor + Len(k.replayed) <= n + 1
    <3>1. Len(k.replayed) \in Nat /\ k.cursor + Len(k.replayed) <= n
      BY DEF AtHand, Conn
    <3> QED BY ONLY <3>1, <2>1, n \in Nat
  <2>4. /\ \A i \in DOMAIN q.replayed : q.replayed[i] = q.cursor + i
        /\ q.at = "opened" => q.cursor <= (n + 1) - Len(q.queue)
        /\ q.at # "opened" => (n + 1) - Len(q.queue) <= q.cursor + Len(q.replayed)
        /\ q.at # "replay" => q.replayed = <<>>
    BY <1>5, <2>2, Zenon DEF AtHand
  <2> QED BY <1>3, <1>5, <2>2, <2>3, <2>4, Zenon DEF AtHand
<1> QED BY <1>1, <1>4 DEF q

\* The first replayed event is the next one for the client.
LEMMA NextReplayed ==
    ASSUME NEW k \in Conn, NEW n \in Nat, AtHand(k, n), k.at = "replay", k.replayed # <<>>
    PROVE  LET q == [k EXCEPT !.cursor = Head(k.replayed), !.replayed = Tail(@)]
           IN  /\ Head(k.replayed) = k.cursor + 1 /\ k.cursor + 1 <= n
               /\ q \in Conn /\ AtHand(q, n) /\ q.cursor = k.cursor + 1 /\ q.at = k.at
<1> DEFINE q == [k EXCEPT !.cursor = Head(k.replayed), !.replayed = Tail(@)]
<1>1. k.replayed \in Seq(Nat) /\ Len(k.replayed) \in Nat /\ Len(k.replayed) > 0
  BY DEF Conn
<1>2. Head(k.replayed) = k.cursor + 1 /\ k.cursor + 1 <= n
  BY <1>1, TailEntries DEF AtHand, Conn
<1>0. Tail(k.replayed) \in Seq(Nat) /\ k.cursor + 1 \in Nat
  BY <1>1 DEF Conn
<1>3. q \in Conn /\ q.cursor = k.cursor + 1 /\ q.at = k.at /\ q.queue = k.queue
  BY <1>0, <1>2 DEF Conn, At
<1>4. q.replayed = Tail(k.replayed) /\ Len(q.replayed) = Len(k.replayed) - 1
  BY <1>1 DEF Conn
<1>5. \A i \in DOMAIN q.replayed : q.replayed[i] = q.cursor + i
  <2> HIDE DEF q
  <2> TAKE i \in DOMAIN q.replayed
  <2>1. i \in Nat /\ i + 1 \in DOMAIN k.replayed /\ q.replayed[i] = k.replayed[i + 1]
    BY <1>1, <1>4, TailEntries
  <2>2. k.replayed[i + 1] = k.cursor + (i + 1) /\ k.cursor \in Nat
    BY <2>1 DEF AtHand, Conn
  <2> QED BY <1>3, <2>1, <2>2
<1> HIDE DEF q
<1>6. AtHand(q, n)
  <2>1. /\ k.cursor \in Nat /\ Len(k.queue) \in Nat
        /\ k.cursor <= n /\ k.cursor + Len(k.replayed) <= n /\ Len(k.queue) <= n
        /\ n - Len(k.queue) <= k.cursor + Len(k.replayed)
    BY DEF AtHand, Conn
  <2>2. /\ q.cursor + Len(q.replayed) = k.cursor + Len(k.replayed) /\ q.cursor <= n
    BY ONLY <1>1, <1>2, <1>3, <1>4, <2>1
  <2>3. \A i \in DOMAIN q.queue : q.queue[i] = (n - Len(q.queue)) + i
    BY <1>3, Zenon DEF AtHand
  <2>4. Len(q.queue) <= n /\ n - Len(q.queue) <= q.cursor + Len(q.replayed)
        /\ q.cursor + Len(q.replayed) <= n
    BY <1>3, <2>1, <2>2
  <2>5. q.at = "replay"
    BY <1>3
  <2> QED BY <1>5, <2>2, <2>3, <2>4, <2>5 DEF AtHand
<1> QED BY <1>2, <1>3, <1>6 DEF q

\* A number above c and at most c + 1 is c + 1.
LEMMA NextNumber ==
    ASSUME NEW h, NEW l \in Nat, NEW n \in Nat, NEW c \in Nat,
           l > 0, l <= n, h = (n - l) + 1, h > c, n - l <= c
    PROVE  h = c + 1 /\ c + 1 <= n
OBVIOUS

\* A live event the connection does not skip is the next one for the client.
LEMMA NextLive ==
    ASSUME NEW k \in Conn, NEW n \in Nat, AtHand(k, n), k.at = "live", k.queue # <<>>,
           Head(k.queue) > k.cursor
    PROVE  LET q == [k EXCEPT !.cursor = Head(k.queue), !.queue = Tail(@)]
           IN  /\ Head(k.queue) = k.cursor + 1 /\ k.cursor + 1 <= n
               /\ q \in Conn /\ AtHand(q, n) /\ q.cursor = k.cursor + 1 /\ q.at = k.at
<1> DEFINE q == [k EXCEPT !.cursor = Head(k.queue), !.queue = Tail(@)]
<1>1. k.queue \in Seq(Nat) /\ Len(k.queue) \in Nat /\ Len(k.queue) > 0
  BY DEF Conn
<1>2. k.replayed = <<>> /\ Len(k.replayed) = 0
  BY DEF AtHand
<1>3. Head(k.queue) = (n - Len(k.queue)) + 1 /\ Len(k.queue) <= n /\ k.cursor \in Nat
  BY <1>1, TailEntries DEF AtHand, Conn
<1>3a. n - Len(k.queue) <= k.cursor
  BY <1>2, <1>3 DEF AtHand
<1>4. Head(k.queue) = k.cursor + 1 /\ k.cursor + 1 <= n
  BY <1>1, <1>3, <1>3a, NextNumber
<1>0. Tail(k.queue) \in Seq(Nat) /\ k.cursor + 1 \in Nat
  BY <1>1 DEF Conn
<1>5. q \in Conn /\ q.cursor = k.cursor + 1 /\ q.at = k.at /\ q.replayed = k.replayed
  BY <1>0, <1>4 DEF Conn, At
<1>6. q.queue = Tail(k.queue) /\ Len(q.queue) = Len(k.queue) - 1
  BY <1>1 DEF Conn
<1>7. \A i \in DOMAIN q.queue : q.queue[i] = (n - Len(q.queue)) + i
  <2> HIDE DEF q
  <2> TAKE i \in DOMAIN q.queue
  <2>1. i \in Nat /\ i + 1 \in DOMAIN k.queue /\ q.queue[i] = k.queue[i + 1]
    BY <1>1, <1>6, TailEntries
  <2>2. k.queue[i + 1] = (n - Len(k.queue)) + (i + 1)
    BY <2>1 DEF AtHand
  <2> QED BY <1>1, <1>6, <2>1, <2>2
<1>8. AtHand(q, n)
  <2> HIDE DEF q
  <2>1. Len(q.queue) \in Nat /\ Len(q.queue) <= n /\ q.cursor <= n /\ q.cursor \in Nat
    BY <1>1, <1>3, <1>4, <1>5, <1>6
  <2>2. n - Len(q.queue) <= q.cursor
    BY <1>1, <1>3, <1>3a, <1>5, <1>6
  <2>3. q.at = "live" /\ q.replayed = <<>> /\ Len(q.replayed) = 0
    BY <1>2, <1>5
  <2> QED BY <1>7, <2>1, <2>2, <2>3 DEF AtHand
<1> HIDE DEF q
<1> QED BY <1>4, <1>5, <1>8 DEF q

\* Skipping what was replayed leaves the next event at hand.
LEMMA Skipping ==
    ASSUME NEW k \in Conn, NEW n \in Nat, AtHand(k, n), k.at = "live", k.queue # <<>>,
           ~(Head(k.queue) > k.cursor)
    PROVE  LET q == [k EXCEPT !.queue = Tail(@)]
           IN  q \in Conn /\ AtHand(q, n) /\ q.cursor = k.cursor
<1> DEFINE q == [k EXCEPT !.queue = Tail(@)]
<1>1. k.queue \in Seq(Nat) /\ Len(k.queue) \in Nat /\ Len(k.queue) > 0
  BY DEF Conn
<1>2. k.replayed = <<>> /\ Len(k.replayed) = 0
  BY DEF AtHand
<1>3. Head(k.queue) = (n - Len(k.queue)) + 1 /\ Head(k.queue) <= k.cursor
  BY <1>1 DEF AtHand, Conn
<1>0. Tail(k.queue) \in Seq(Nat)
  BY <1>1 DEF Conn
<1>4. q \in Conn /\ q.cursor = k.cursor /\ q.at = k.at /\ q.replayed = k.replayed
  BY <1>0 DEF Conn
<1>5. q.queue = Tail(k.queue) /\ Len(q.queue) = Len(k.queue) - 1
  BY <1>1 DEF Conn
<1>6. \A i \in DOMAIN q.queue : q.queue[i] = (n - Len(q.queue)) + i
  <2> HIDE DEF q
  <2> TAKE i \in DOMAIN q.queue
  <2>1. i \in Nat /\ i + 1 \in DOMAIN k.queue /\ q.queue[i] = k.queue[i + 1]
    BY <1>1, <1>5, TailEntries
  <2>2. k.queue[i + 1] = (n - Len(k.queue)) + (i + 1)
    BY <2>1 DEF AtHand
  <2> QED BY <1>1, <1>5, <2>1, <2>2
<1> HIDE DEF q
<1>7. AtHand(q, n)
  <2>1. k.cursor \in Nat /\ k.cursor <= n /\ Len(k.queue) <= n
    BY DEF AtHand, Conn
  <2>2. n - Len(q.queue) = Head(k.queue) /\ Len(q.queue) <= n
    <3> DEFINE l == Len(k.queue)
               m == Len(q.queue)
    <3>1. l \in Nat /\ l > 0 /\ l <= n /\ m = l - 1 /\ Head(k.queue) = (n - l) + 1
      BY <1>1, <1>3, <1>5, <2>1
    <3> HIDE DEF l, m
    <3>2. n - m = (n - l) + 1 /\ m <= n
      BY ONLY <3>1, n \in Nat
    <3> QED BY <3>1, <3>2, Zenon DEF l, m
  <2>3. n - Len(q.queue) <= q.cursor /\ q.cursor <= n /\ q.cursor \in Nat
    BY <1>3, <1>4, <2>1, <2>2
  <2>4. q.at = "live" /\ q.replayed = <<>> /\ Len(q.replayed) = 0
    BY <1>2, <1>4
  <2> QED BY <1>6, <2>2, <2>3, <2>4 DEF AtHand
<1> QED BY <1>4, <1>7 DEF q

\* The sequence Newer(cursor) continues the cursor up to the end of the history.
LEMMA NewerEntries ==
    ASSUME history \in Seq(Kind), NEW m \in Nat, m <= Len(history)
    PROVE  /\ Newer(m) \in Seq(Nat) /\ Len(Newer(m)) = Len(history) - m
           /\ \A i \in DOMAIN Newer(m) : Newer(m)[i] = m + i
           /\ Newer(m) = <<>> => m = Len(history)
<1>1. Len(history) \in Nat /\ Len(history) - m \in Nat
  OBVIOUS
<1>2. Newer(m) \in Seq(Nat)
  BY <1>1 DEF Newer
<1>3. DOMAIN Newer(m) = 1 .. (Len(history) - m)
  BY DEF Newer
<1>4. Len(Newer(m)) = Len(history) - m
  BY <1>1, <1>2, <1>3
<1>5. \A i \in DOMAIN Newer(m) : Newer(m)[i] = m + i
  BY <1>3 DEF Newer
<1>6. Newer(m) = <<>> => m = Len(history)
  BY <1>1, <1>4
<1> QED BY <1>2, <1>4, <1>5, <1>6

\* A connection opened at a cursor the history has reached has everything at hand.
LEMMA Opening ==
    ASSUME NEW m \in Nat, NEW n \in Nat, m <= n
    PROVE  LET q == Idle("opened", m)
           IN  q \in Conn /\ q.cursor = m /\ AtHand(q, n)
<1> DEFINE q == Idle("opened", m)
<1>1. q = [at |-> "opened", cursor |-> m, replayed |-> <<>>, queue |-> <<>>]
  BY DEF Idle
<1>a. <<>> \in Seq(Nat)
  OBVIOUS
<1>2. q \in Conn
  <2> HIDE DEF q
  <2> QED BY <1>1, <1>a DEF Conn, At
<1>3. AtHand(q, n)
  <2> HIDE DEF q
  <2>1. q.at = "opened" /\ q.cursor = m /\ q.replayed = <<>> /\ q.queue = <<>>
    BY <1>1
  <2>2. Len(q.queue) = 0 /\ Len(q.replayed) = 0 /\ DOMAIN q.queue = {} /\ DOMAIN q.replayed = {}
    BY <2>1
  <2> QED BY <2>1, <2>2 DEF AtHand
<1> QED BY <1>1, <1>2, <1>3

\* Reading the history keeps the queue in reach: it was registered before.
LEMMA Reading ==
    ASSUME NEW k \in Conn, history \in Seq(Kind), AtHand(k, Len(history)), k.at = "opened"
    PROVE  LET q == [k EXCEPT !.at = "replay", !.replayed = Newer(k.cursor)]
           IN  q \in Conn /\ q.cursor = k.cursor /\ AtHand(q, Len(history))
<1> DEFINE q == [k EXCEPT !.at = "replay", !.replayed = Newer(k.cursor)]
<1>1. k.cursor \in Nat /\ k.cursor <= Len(history) /\ Len(history) \in Nat
  <2>1. k.cursor \in Nat /\ Len(history) \in Nat
    BY DEF Conn
  <2>2. k.cursor <= Len(history)
    BY DEF AtHand
  <2> QED BY <2>1, <2>2
<1>2. /\ Newer(k.cursor) \in Seq(Nat) /\ Len(Newer(k.cursor)) = Len(history) - k.cursor
      /\ \A i \in DOMAIN Newer(k.cursor) : Newer(k.cursor)[i] = k.cursor + i
  BY <1>1, NewerEntries
<1>3. /\ q \in Conn /\ q.at = "replay" /\ q.cursor = k.cursor
      /\ q.replayed = Newer(k.cursor) /\ q.queue = k.queue
  BY <1>2 DEF Conn, At
<1>4. k.queue \in Seq(Nat) /\ Len(k.queue) \in Nat
  BY DEF Conn
<1>5. AtHand(q, Len(history))
  <2> HIDE DEF q
  <2> QED BY <1>1, <1>2, <1>3, <1>4 DEF AtHand
<1> QED BY <1>3, <1>5

\* A connection with nothing left to replay can follow its queue.
LEMMA Following ==
    ASSUME NEW k \in Conn, NEW n \in Nat, AtHand(k, n), k.replayed = <<>>,
           k.at = "opened" => k.cursor = n, k.at \in {"opened", "replay"}
    PROVE  LET q == [k EXCEPT !.at = "live"]
           IN  q \in Conn /\ q.cursor = k.cursor /\ AtHand(q, n)
<1> DEFINE q == [k EXCEPT !.at = "live"]
<1>1. /\ q \in Conn /\ q.at = "live" /\ q.cursor = k.cursor
      /\ q.replayed = k.replayed /\ q.queue = k.queue
  BY DEF Conn, At
<1>2. /\ k.queue \in Seq(Nat) /\ Len(k.queue) \in Nat /\ k.cursor \in Nat
      /\ Len(k.replayed) = 0
  BY DEF Conn
<1>3. AtHand(q, n)
  <2> HIDE DEF q
  <2> QED BY <1>1, <1>2 DEF AtHand
<1> QED BY <1>1, <1>3

-----------------------------------------------------------------------------
(* The invariant. *)

\* What an action on one connection must establish for the whole state to stay
\* in shape: only client c changes, and what it has got does not pass the end.
LEMMA OneClient ==
    ASSUME Shape, NEW c \in Clients, NEW q \in Conn, NEW g \in Nat,
           NEW t \in 0 .. (MaxReconnects + 1), history' = history, conn' = [conn EXCEPT ![c] = q],
           got' = [got EXCEPT ![c] = g], g <= Len(history),
           tries' = [tries EXCEPT ![c] = t], drops' \in 0 .. MaxDrops,
           q.at # "off" => q.cursor = g /\ AtHand(q, Len(history)) /\ t <= MaxReconnects
    PROVE  Shape'
<1>1. TypeOK'
  BY DEF Shape, TypeOK
<1>3. TriesLeft'
  <2> SUFFICES ASSUME NEW d \in Clients, conn'[d].at # "off"
               PROVE  tries'[d] <= MaxReconnects
    BY DEF TriesLeft
  <2>1. CASE d = c
    BY <2>1 DEF Shape, TypeOK
  <2>2. CASE d # c
    BY <2>2 DEF Shape, TypeOK, TriesLeft
  <2> QED BY <2>1, <2>2
<1>2. NothingMissed'
  <2> SUFFICES ASSUME NEW d \in Clients
               PROVE  /\ got'[d] <= Len(history')
                      /\ conn'[d].at # "off" =>
                            conn'[d].cursor = got'[d] /\ AtHand(conn'[d], Len(history'))
    BY DEF NothingMissed
  <2>1. CASE d = c
    <3>1. conn'[d] = q /\ got'[d] = g
      BY <2>1 DEF Shape, TypeOK
    <3> QED BY <3>1
  <2>2. CASE d # c
    <3>1. conn'[d] = conn[d] /\ got'[d] = got[d]
      BY <2>2 DEF Shape, TypeOK
    <3> QED BY <3>1 DEF Shape, NothingMissed
  <2> QED BY <2>1, <2>2
<1> QED BY <1>1, <1>2, <1>3 DEF Shape

\* What the invariant says of one connection.
LEMMA OfClient ==
    ASSUME Shape, NEW c \in Clients
    PROVE  /\ history \in Seq(Kind) /\ Len(history) \in Nat
           /\ conn[c] \in Conn /\ got[c] \in Nat /\ got[c] <= Len(history)
           /\ conn[c].at # "off" => conn[c].cursor = got[c] /\ AtHand(conn[c], Len(history))
           /\ conn[c].at # "off" => tries[c] <= MaxReconnects
           /\ tries[c] \in 0 .. (MaxReconnects + 1) /\ tries \in [Clients -> Nat]
           /\ got = [got EXCEPT ![c] = got[c]] /\ tries = [tries EXCEPT ![c] = tries[c]]
           /\ drops \in 0 .. MaxDrops /\ MaxReconnects \in Nat /\ MaxDrops \in Nat
BY LimitsNatural DEF Shape, TypeOK, NothingMissed, TriesLeft

\* An idle record is a connection, whatever its state.
LEMMA IdleConn ==
    Off \in Conn /\ Off.at = "off"
<1>1. Off = [at |-> "off", cursor |-> 0, replayed |-> <<>>, queue |-> <<>>]
  BY DEF Off, Idle
<1>a. <<>> \in Seq(Nat)
  OBVIOUS
<1> QED BY <1>1, <1>a DEF Conn, At

LEMMA InitShape == Init => Shape
<1> SUFFICES ASSUME Init PROVE Shape
  OBVIOUS
<1>1. history = <<>> /\ history \in Seq(Kind) /\ Len(history) = 0
  BY DEF Init
<1>2. \A c \in Clients : conn[c] = Off /\ got[c] = 0 /\ tries[c] = 0
  BY DEF Init
<1>3. conn \in [Clients -> Conn]
  BY IdleConn DEF Init
<1>4. /\ got \in [Clients -> Nat] /\ tries \in [Clients -> 0 .. (MaxReconnects + 1)]
      /\ drops \in 0 .. MaxDrops
  BY LimitsNatural DEF Init
<1> QED BY <1>1, <1>2, <1>3, <1>4, IdleConn DEF Shape, TypeOK, NothingMissed, TriesLeft

LEMMA PublishShape ==
    ASSUME Shape, NEW kind \in Kind, Publish(kind) PROVE Shape'
<1> DEFINE n == Len(history)
<1>1. n \in Nat /\ history' = Append(history, kind) /\ history' \in Seq(Kind) /\ Len(history') = n + 1
  BY DEF Shape, TypeOK, Publish
<1>2. got' = got /\ tries' = tries /\ drops' = drops
  BY DEF Publish
<1>3. ASSUME NEW c \in Clients
      PROVE  /\ conn'[c] \in Conn /\ conn'[c].at = conn[c].at
             /\ got[c] <= n + 1
             /\ conn[c].at # "off" => conn'[c].cursor = got[c] /\ AtHand(conn'[c], n + 1)
  <2>1. CASE Subscribed(c)
    <3>1. conn'[c] = [conn[c] EXCEPT !.queue = Append(@, n + 1)]
      BY <2>1 DEF Publish
    <3>2. conn[c] \in Conn /\ AtHand(conn[c], n) /\ conn[c].cursor = got[c]
      BY <1>3, <2>1, OfClient DEF Subscribed
    <3> HIDE DEF n
    <3>3. conn'[c] \in Conn /\ AtHand(conn'[c], n + 1) /\ conn'[c].at = conn[c].at
      BY <1>1, <3>1, <3>2, Queueing
    <3>4. conn'[c].cursor = conn[c].cursor
      BY <1>1, <3>1, <3>2, Queueing
    <3>5. got[c] \in Nat /\ got[c] <= n
      BY <1>3, OfClient DEF n
    <3> QED BY <1>1, <3>2, <3>3, <3>4, <3>5
  <2>2. CASE ~Subscribed(c)
    <3>1. conn'[c] = conn[c]
      BY <2>2 DEF Publish
    <3>2. conn[c] \in Conn /\ got[c] \in Nat /\ got[c] <= n
      BY <1>3, OfClient
    <3> QED BY <1>1, <2>2, <3>1, <3>2 DEF Subscribed
  <2> QED BY <2>1, <2>2
<1>4. conn' \in [Clients -> Conn]
  <2>1. DOMAIN conn' = Clients /\ conn' = [c \in Clients |-> conn'[c]]
    BY DEF Publish
  <2> QED BY <1>3, <2>1
<1>5. TypeOK'
  BY <1>1, <1>2, <1>4 DEF Shape, TypeOK
<1>6. NothingMissed'
  BY <1>1, <1>2, <1>3 DEF NothingMissed
<1>7. TriesLeft'
  BY <1>2, <1>3 DEF Shape, TriesLeft
<1> QED BY <1>5, <1>6, <1>7 DEF Shape

-----------------------------------------------------------------------------
(* One lemma per action on a connection.  But for the two that send, the     *)
(* client has what it had before.                                            *)

LEMMA OpenShape ==
    ASSUME Shape, NEW c \in Clients, NEW t \in 0 .. (MaxReconnects + 1), t <= MaxReconnects,
           Open(c), tries' = [tries EXCEPT ![c] = t], UNCHANGED <<history, got, drops>>
    PROVE  Shape'
<1> DEFINE q == Idle("opened", got[c])
<1>1. /\ history \in Seq(Kind) /\ Len(history) \in Nat /\ got[c] \in Nat /\ got[c] <= Len(history)
      /\ got = [got EXCEPT ![c] = got[c]] /\ drops \in 0 .. MaxDrops
  BY OfClient
<1>2. q \in Conn /\ q.cursor = got[c] /\ AtHand(q, Len(history))
  BY <1>1, Opening
<1>3. conn' = [conn EXCEPT ![c] = q]
  BY DEF Open
<1> HIDE DEF q
<1> QED BY <1>1, <1>2, <1>3, OneClient

LEMMA ConnectShape ==
    ASSUME Shape, NEW c \in Clients, Connect(c) PROVE Shape'
<1>1. tries[c] \in 0 .. (MaxReconnects + 1) /\ tries[c] <= MaxReconnects
      /\ tries = [tries EXCEPT ![c] = tries[c]]
  BY OfClient DEF Connect, MayReconnect
<1> QED BY <1>1, OpenShape DEF Connect

LEMMA FollowShape ==
    ASSUME Shape, NEW c \in Clients, Follow(c) PROVE Shape'
<1>1. 0 \in 0 .. (MaxReconnects + 1) /\ 0 <= MaxReconnects
  BY LimitsNatural
<1> QED BY <1>1, OpenShape DEF Follow

\* A connection that ends leaves an idle one behind; the client may count it.
LEMMA ClosingShape ==
    ASSUME Shape, NEW c \in Clients, conn[c].at # "off", conn' = [conn EXCEPT ![c] = Off],
           tries' = [tries EXCEPT ![c] = @ + 1], UNCHANGED <<history, got>>,
           drops' \in 0 .. MaxDrops
    PROVE  Shape'
<1>1. /\ got[c] \in Nat /\ got[c] <= Len(history) /\ got = [got EXCEPT ![c] = got[c]]
      /\ tries[c] + 1 \in 0 .. (MaxReconnects + 1)
  BY OfClient
<1> QED BY <1>1, IdleConn, OneClient

LEMMA DropShape ==
    ASSUME Shape, NEW c \in Clients, Drop(c) PROVE Shape'
<1>1. drops' \in 0 .. MaxDrops
  BY OfClient DEF Drop
<1> QED BY <1>1, ClosingShape DEF Drop

LEMMA AfterReplayShape ==
    ASSUME Shape, NEW c \in Clients, AfterReplay(c), UNCHANGED <<history, got, drops>>,
           conn[c].at = "opened" => Newer(conn[c].cursor) = <<>>,
           conn[c].at \in {"opened", "replay"}, conn[c].at = "replay" => conn[c].replayed = <<>>
    PROVE  Shape'
<1>1. /\ history \in Seq(Kind) /\ Len(history) \in Nat /\ conn[c] \in Conn
      /\ conn[c].cursor = got[c] /\ AtHand(conn[c], Len(history)) /\ drops \in 0 .. MaxDrops
      /\ got[c] \in Nat /\ got[c] <= Len(history) /\ got = [got EXCEPT ![c] = got[c]]
      /\ tries[c] \in 0 .. (MaxReconnects + 1) /\ tries[c] <= MaxReconnects
      /\ tries = [tries EXCEPT ![c] = tries[c]]
  BY OfClient
<1>2. CASE Closed
  BY <1>1, <1>2, ClosingShape DEF AfterReplay
<1>3. CASE ~Closed
  <2> DEFINE q == [conn[c] EXCEPT !.at = "live"]
  <2>1. conn[c].replayed = <<>>
    BY <1>1 DEF AtHand
  <2>2. conn[c].at = "opened" => conn[c].cursor = Len(history)
    BY <1>1, NewerEntries
  <2>3. q \in Conn /\ q.cursor = conn[c].cursor /\ AtHand(q, Len(history))
    BY <1>1, <2>1, <2>2, Following
  <2>4. conn' = [conn EXCEPT ![c] = q] /\ tries' = tries
    BY <1>3 DEF AfterReplay
  <2> HIDE DEF q
  <2> QED BY <1>1, <2>3, <2>4, OneClient
<1> QED BY <1>2, <1>3

LEMMA ReplayShape ==
    ASSUME Shape, NEW c \in Clients, Replay(c) PROVE Shape' /\ UNCHANGED <<history, got>>
<1>1. /\ history \in Seq(Kind) /\ Len(history) \in Nat /\ conn[c] \in Conn
      /\ conn[c].cursor = got[c] /\ AtHand(conn[c], Len(history)) /\ drops \in 0 .. MaxDrops
      /\ got[c] \in Nat /\ got[c] <= Len(history) /\ got = [got EXCEPT ![c] = got[c]]
      /\ tries[c] \in 0 .. (MaxReconnects + 1) /\ tries[c] <= MaxReconnects
      /\ tries = [tries EXCEPT ![c] = tries[c]] /\ conn[c].at = "opened"
  BY OfClient DEF Replay
<1>2. CASE Newer(conn[c].cursor) = <<>>
  BY <1>1, <1>2, AfterReplayShape DEF Replay
<1>3. CASE Newer(conn[c].cursor) # <<>>
  <2> DEFINE q == [conn[c] EXCEPT !.at = "replay", !.replayed = Newer(conn[c].cursor)]
  <2>1. q \in Conn /\ q.cursor = conn[c].cursor /\ AtHand(q, Len(history))
    BY <1>1, Reading
  <2>2. conn' = [conn EXCEPT ![c] = q] /\ UNCHANGED <<history, got, tries, drops>>
    BY <1>3 DEF Replay
  <2> HIDE DEF q
  <2> QED BY <1>1, <2>1, <2>2, OneClient
<1> QED BY <1>2, <1>3 DEF Replay

LEMMA EndReplayShape ==
    ASSUME Shape, NEW c \in Clients, EndReplay(c) PROVE Shape' /\ UNCHANGED <<history, got>>
BY AfterReplayShape DEF EndReplay

LEMMA SkipLiveShape ==
    ASSUME Shape, NEW c \in Clients, SkipLive(c) PROVE Shape' /\ UNCHANGED <<history, got>>
<1> DEFINE q == [conn[c] EXCEPT !.queue = Tail(@)]
<1>1. /\ history \in Seq(Kind) /\ Len(history) \in Nat /\ conn[c] \in Conn
      /\ conn[c].cursor = got[c] /\ AtHand(conn[c], Len(history)) /\ drops \in 0 .. MaxDrops
      /\ got[c] \in Nat /\ got[c] <= Len(history) /\ got = [got EXCEPT ![c] = got[c]]
      /\ tries[c] \in 0 .. (MaxReconnects + 1) /\ tries[c] <= MaxReconnects
      /\ tries = [tries EXCEPT ![c] = tries[c]] /\ conn[c].at = "live"
  BY OfClient DEF SkipLive
<1>2. q \in Conn /\ AtHand(q, Len(history)) /\ q.cursor = conn[c].cursor
  BY <1>1, Skipping DEF SkipLive, IsNew
<1>3. conn' = [conn EXCEPT ![c] = q] /\ UNCHANGED <<history, got, tries, drops>>
  BY DEF SkipLive
<1> HIDE DEF q
<1> QED BY <1>1, <1>2, <1>3, OneClient

\* What is sent is the next event, and the client takes it.
LEMMA DeliverShape ==
    ASSUME Shape, NEW c \in Clients, NEW n, NEW rest \in Conn, conn[c].at # "off",
           n = got[c] + 1, n <= Len(history), rest.cursor = n, AtHand(rest, Len(history)),
           Deliver(c, n, rest)
    PROVE  /\ Shape' /\ history' = history /\ got[c] < Len(history)
           /\ got' = [got EXCEPT ![c] = @ + 1]
<1>1. /\ Len(history) \in Nat /\ got[c] \in Nat /\ n \in Nat /\ drops \in 0 .. MaxDrops
      /\ tries[c] \in 0 .. (MaxReconnects + 1) /\ tries[c] <= MaxReconnects
      /\ tries = [tries EXCEPT ![c] = tries[c]] /\ Off \in Conn /\ Off.at = "off"
  BY OfClient, IdleConn
<1>2. got' = [got EXCEPT ![c] = n] /\ UNCHANGED <<history, tries, drops>>
  <2>1. n > got[c]
    BY <1>1
  <2> HIDE <1>1
  <2> QED BY <2>1 DEF Deliver
<1>3. PICK q \in {Off, rest} : conn' = [conn EXCEPT ![c] = q]
  BY DEF Deliver
<1>4. Shape'
  BY <1>1, <1>2, <1>3, OneClient
<1> QED BY <1>1, <1>2, <1>4

LEMMA SendReplayedShape ==
    ASSUME Shape, NEW c \in Clients, SendReplayed(c)
    PROVE  /\ Shape' /\ history' = history /\ got[c] < Len(history)
           /\ got' = [got EXCEPT ![c] = @ + 1]
<1> DEFINE q == [conn[c] EXCEPT !.cursor = Head(conn[c].replayed), !.replayed = Tail(@)]
<1>1. /\ Len(history) \in Nat /\ conn[c] \in Conn /\ conn[c].cursor = got[c]
      /\ AtHand(conn[c], Len(history)) /\ conn[c].at = "replay" /\ conn[c].replayed # <<>>
  BY OfClient DEF SendReplayed
<1>2. /\ Head(conn[c].replayed) = got[c] + 1 /\ got[c] + 1 <= Len(history)
      /\ q \in Conn /\ AtHand(q, Len(history)) /\ q.cursor = got[c] + 1
  BY <1>1, NextReplayed
<1>3. Deliver(c, Head(conn[c].replayed), q)
  BY DEF SendReplayed, Deliver
<1> HIDE DEF q
<1> QED BY <1>1, <1>2, <1>3, DeliverShape

LEMMA SendLiveShape ==
    ASSUME Shape, NEW c \in Clients, SendLive(c)
    PROVE  /\ Shape' /\ history' = history /\ got[c] < Len(history)
           /\ got' = [got EXCEPT ![c] = @ + 1]
<1> DEFINE q == [conn[c] EXCEPT !.cursor = Head(conn[c].queue), !.queue = Tail(@)]
<1>1. /\ Len(history) \in Nat /\ conn[c] \in Conn /\ conn[c].cursor = got[c]
      /\ AtHand(conn[c], Len(history)) /\ conn[c].at = "live" /\ conn[c].queue # <<>>
      /\ Head(conn[c].queue) > conn[c].cursor
  BY OfClient DEF SendLive, IsNew
<1>2. /\ Head(conn[c].queue) = got[c] + 1 /\ got[c] + 1 <= Len(history)
      /\ q \in Conn /\ AtHand(q, Len(history)) /\ q.cursor = got[c] + 1
  BY <1>1, NextLive
<1>3. Deliver(c, Head(conn[c].queue), q)
  BY DEF SendLive, Deliver
<1> HIDE DEF q
<1> QED BY <1>1, <1>2, <1>3, DeliverShape

-----------------------------------------------------------------------------
(* Steps and theorems. *)

\* Every step keeps the invariant, and is a step of OrderedDelivery: an event is
\* published, or one client receives its next one, or nothing it sees changes.
LEMMA StepShape ==
    ASSUME Shape, [Next]_vars
    PROVE  /\ Shape'
           /\ \/ \E kind \in Kind : history' = Append(history, kind) /\ got' = got
              \/ \E c \in Clients : /\ history' = history /\ got[c] < Len(history)
                                    /\ got' = [got EXCEPT ![c] = @ + 1]
              \/ UNCHANGED <<history, got>>
<1>1. ASSUME NEW kind \in Kind, Publish(kind)
      PROVE  Shape' /\ history' = Append(history, kind) /\ got' = got
  BY <1>1, PublishShape DEF Publish
<1>2. ASSUME NEW c \in Clients, Connect(c) \/ Follow(c) \/ Drop(c)
      PROVE  Shape' /\ UNCHANGED <<history, got>>
  <2>1. CASE Connect(c)
    BY <2>1, ConnectShape DEF Connect
  <2>2. CASE Follow(c)
    BY <2>2, FollowShape DEF Follow
  <2>3. CASE Drop(c)
    BY <2>3, DropShape DEF Drop
  <2> QED BY <1>2, <2>1, <2>2, <2>3
<1>3. ASSUME NEW c \in Clients, Replay(c) \/ EndReplay(c) \/ SkipLive(c)
      PROVE  Shape' /\ UNCHANGED <<history, got>>
  BY <1>3, ReplayShape, EndReplayShape, SkipLiveShape
<1>4. ASSUME NEW c \in Clients, SendReplayed(c) \/ SendLive(c)
      PROVE  /\ Shape' /\ history' = history /\ got[c] < Len(history)
             /\ got' = [got EXCEPT ![c] = @ + 1]
  BY <1>4, SendReplayedShape, SendLiveShape
<1>5. CASE UNCHANGED vars
  BY <1>5 DEF vars, Shape, TypeOK, NothingMissed, TriesLeft
<1>6. CASE Next
  <2>1. CASE \E kind \in Kind : Publish(kind)
    BY <1>1, <2>1
  <2>2. CASE \E c \in Clients : Connect(c) \/ Follow(c) \/ Serve(c) \/ Drop(c)
    BY <1>2, <1>3, <1>4, <2>2 DEF Serve
  <2> QED BY <1>6, <2>1, <2>2 DEF Next
<1> QED BY <1>5, <1>6

\* The hub, the connections and the clients keep their types: a client never
\* reconnects more than maxReconnects + 1 times (event_hub.py, sse.py, sseClient.ts).
THEOREM StreamTypeCorrect == Spec => []TypeOK
<1>1. Init => Shape
  BY InitShape
<1>2. Shape /\ [Next]_vars => Shape'
  BY StepShape
<1>3. Shape => TypeOK
  BY DEF Shape
<1> QED BY <1>1, <1>2, <1>3, PTL DEF Spec

\* Registering before reading leaves no hole between replayed and live events,
\* however publishers, drops and reconnects interleave (EventHub.subscribe).
THEOREM NoHole == Spec => []NothingMissed
<1>1. Init => Shape
  BY InitShape
<1>2. Shape /\ [Next]_vars => Shape'
  BY StepShape
<1>3. Shape => NothingMissed
  BY DEF Shape
<1> QED BY <1>1, <1>2, <1>3, PTL DEF Spec

\* Every reader gets every event once and in order, across drops and reconnects:
\* the stream implements OrderedDelivery (stream_run_events, connectRunStream).
THEOREM DeliveredInOrder == Spec => InOrder
<1>1. Init => Shape /\ Delivery!Init
  BY InitShape DEF Init, Delivery!Init
<1>2. Shape /\ [Next]_vars => Shape' /\ [Delivery!Next]_(Delivery!dvars)
  <2> SUFFICES ASSUME Shape, [Next]_vars
               PROVE  Shape' /\ [Delivery!Next]_(Delivery!dvars)
    OBVIOUS
  <2>0. history \in Seq(Kind)
    BY DEF Shape, TypeOK
  <2>1. ASSUME NEW kind \in Kind, history' = Append(history, kind), got' = got
        PROVE  Delivery!Next
    BY <2>0, <2>1 DEF Delivery!Next, Delivery!Publish
  <2>2. ASSUME NEW c \in Clients, history' = history, got[c] < Len(history),
               got' = [got EXCEPT ![c] = @ + 1]
        PROVE  Delivery!Next
    BY <2>2 DEF Delivery!Next, Delivery!Receive
  <2>3. UNCHANGED <<history, got>> => UNCHANGED Delivery!dvars
    BY DEF Delivery!dvars
  <2> QED BY <2>1, <2>2, <2>3, StepShape
<1> QED BY <1>1, <1>2, PTL DEF Spec, InOrder, Delivery!Spec

=============================================================================
