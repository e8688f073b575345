-------------------------- MODULE EventRingProofs ---------------------------
(***************************************************************************)
(* The event ring's types, and that one stream loses no event and gives   *)
(* none twice, for any number of publishing threads, any retention and     *)
(* capacity, and any number of consumers and of lives.                     *)
(*                                                                         *)
(* RingShape says that the retained ids are consecutive and end before     *)
(* nextId, which makes a backlog the ids after the cursor, and ties what a *)
(* subscriber holds to where its handler is.  QueuedOnce says that an      *)
(* event is on its way to a consumer by one way only.                      *)
(*                                                                         *)
(* Between two streams neither holds: two publishers offer out of order,   *)
(* and a heartbeat sets a consumer's cursor back.                          *)
(***************************************************************************)
EXTENDS EventRing, TLAPS

\* Zenon proves most leaves; those that need arithmetic or sequences cite SMT.
USE Zenon

\* The ring retains consecutive ids, the newest ones.
Consecutive ==
    /\ Len(retained) < nextId
    /\ \A i \in DOMAIN retained : retained[i] = nextId - 1 - Len(retained) + i

\* What a publisher is handing out was numbered.
Numbered(p) ==
    /\ offering[p] < nextId
    /\ offered[p] # {} => offering[p] # 0

\* Where a handler can be.
HandlerAt == {"off", "loop", "drained", "emitting", "telling"}
USE DEF HandlerAt

\* What a subscriber holds fits where its handler is, and was numbered.
Held(c) ==
    /\ (c \in attached) <=> (handler[c] # "off")
    /\ batch[c] # <<>> => handler[c] \in {"drained", "emitting", "telling"}
    /\ c \notin attached => pending[c] = <<>> /\ ~overflowed[c]
    /\ \A i \in DOMAIN pending[c] : pending[c][i] < nextId
    /\ \A i \in DOMAIN batch[c] : batch[c][i] < nextId
    /\ \A e \in known[c] : e < nextId
    /\ basis[c] <= life

\* The inductive invariant for any number of publishers.
RingShape ==
    /\ RingTypeOK
    /\ Consecutive
    /\ \A p \in Publisher : Numbered(p)
    /\ \A c \in Consumer : Held(c)

\* The event waits for the consumer or is being given to it.
OnItsWay(c, x) ==
    \/ \E i \in DOMAIN pending[c] : pending[c][i] = x
    \/ \E i \in DOMAIN batch[c] : batch[c][i] = x
    \/ \E p \in Publisher : c \in offered[p] /\ offering[p] = x

-----------------------------------------------------------------------------
(* The ring *)

\* The types of one consumer's state.
LEMMA OfConsumer ==
    ASSUME RingTypeOK, NEW c \in Consumer
    PROVE  /\ pending[c] \in Seq(Event) /\ Len(pending[c]) \in Nat
           /\ Len(pending[c]) <= SubscriberCapacity
           /\ batch[c] \in Seq(Event) /\ overflowed[c] \in BOOLEAN
           /\ cursor[c] \in Event \cup {None} /\ known[c] \subseteq Event
           /\ basis[c] \in 1..MaxLives
           /\ handler[c] \in HandlerAt
  BY SMT DEF RingTypeOK

\* Events are numbers.
LEMMA EventsAreNumbers ==
    /\ \A e \in Event : e \in Nat /\ e # 0 /\ e # None
    /\ \A e \in Nat : e # 0 /\ e <= MaxEvents <=> e \in Event
  BY RingAssumption, SMT DEF Event

\* A backlog the ring can resume from is the ids after the cursor.
LEMMA BacklogIs ==
    ASSUME RingShape, NEW after \in Nat, Resumable(after)
    PROVE  /\ Backlog(after) \in Seq(Event)
           /\ Len(Backlog(after)) = nextId - 1 - after
           /\ DOMAIN Backlog(after) = 1..(nextId - 1 - after)
           /\ \A i \in DOMAIN Backlog(after) : Backlog(after)[i] = after + i
  <1> DEFINE n == Len(retained)
             Place(k) == k \in 0..n /\ \A i \in DOMAIN retained : i > k <=> retained[i] >= after + 1
             k0 == after + 1 + n - nextId
  <1>1. /\ retained \in Seq(Event) /\ n \in Nat /\ nextId \in Nat /\ n < nextId
        /\ DOMAIN retained = 1..n
        /\ \A i \in DOMAIN retained : retained[i] = nextId - 1 - n + i
    BY RingAssumption, SMT DEF RingShape, RingTypeOK, Consecutive
  <1>2. OldestRetained = nextId - n
    <2>1. CASE retained = <<>>
      BY <1>1, <2>1, SMT DEF OldestRetained
    <2>2. CASE retained # <<>>
      <3>1. n # 0 /\ Head(retained) = retained[1] /\ 1 \in DOMAIN retained
        BY <1>1, <2>2, SMT
      <3>2. retained[1] = nextId - n
        BY <1>1, <3>1, SMT
      <3> QED BY <2>2, <3>1, <3>2 DEF OldestRetained
    <2> QED BY <2>1, <2>2
  <1>3. after < nextId /\ after + 1 >= nextId - n
    BY <1>2 DEF Resumable
  <1>4. k0 \in 0..n
    BY <1>1, <1>3, SMT
  <1>5. Place(k0)
    BY <1>1, <1>3, <1>4, SMT
  <1>6. \A k : Place(k) => k = k0
    <2> SUFFICES ASSUME NEW k, Place(k), k # k0 PROVE FALSE
      OBVIOUS
    <2>1. k \in Nat /\ k0 \in Nat /\ k <= n /\ k0 <= n
      BY <1>1, <1>4, SMT
    <2>2. CASE k < k0
      <3>1. k0 \in DOMAIN retained /\ k0 > k
        BY <1>1, <2>1, <2>2, SMT
      <3>2. retained[k0] >= after + 1
        BY <3>1
      <3> QED BY <1>5, <2>1, <3>1, <3>2, SMT
    <2>3. CASE k > k0
      <3>1. k \in DOMAIN retained
        BY <1>1, <2>1, <2>3, SMT
      <3>2. retained[k] >= after + 1
        BY <1>5, <2>3, <3>1
      <3> QED BY <2>1, <3>1, <3>2, SMT
    <2> QED BY <2>1, <2>2, <2>3, SMT
  <1> DEFINE place == CHOOSE k \in 0..n : \A i \in DOMAIN retained : i > k <=> retained[i] >= after + 1
  <1>7. Place(place)
    BY <1>5
  <1>8. place = k0
    <2> HIDE DEF place, Place, k0
    <2> QED BY <1>6, <1>7
  <1>9. Backlog(after) = SubSeq(retained, k0 + 1, n)
    BY <1>8 DEF Backlog, RetainedFrom
  <1> HIDE DEF place, Place
  <1>10. /\ SubSeq(retained, k0 + 1, n) \in Seq(Event)
         /\ Len(SubSeq(retained, k0 + 1, n)) = n - k0
         /\ \A i \in 1..(n - k0) : SubSeq(retained, k0 + 1, n)[i] = retained[k0 + i]
    <2> HIDE DEF n, k0
    <2>1. n \in Nat /\ k0 \in 0..n /\ retained \in Seq(Event) /\ n = Len(retained)
      BY <1>1, <1>4 DEF n
    <2>2. \A i \in 1..(n - k0) : k0 + i \in DOMAIN retained /\ retained[k0 + i] \in Event
      BY <2>1, SMT
    <2> QED BY <2>1, <2>2, SMT
  <1>11. n - k0 = nextId - 1 - after
    BY <1>1, SMT
  <1>12. \A i \in 1..(n - k0) : retained[k0 + i] = after + i
    BY <1>1, <1>4, SMT
  <1> QED BY <1>9, <1>10, <1>11, <1>12, SMT

-----------------------------------------------------------------------------
(* The shape of the ring *)

\* The daemon starts with an empty ring.
LEMMA ShapeInit == RingInit => RingShape
  <1> SUFFICES ASSUME RingInit PROVE RingShape
    OBVIOUS
  <1>1. RingTypeOK
    BY RingAssumption, SMT DEF RingInit, RingTypeOK, Event
  <1>2. Consecutive
    BY SMT DEF RingInit, Consecutive
  <1>3. \A p \in Publisher : Numbered(p)
    BY SMT DEF RingInit, Numbered
  <1>4. \A c \in Consumer : Held(c)
    BY SMT DEF RingInit, Held
  <1> QED BY <1>1, <1>2, <1>3, <1>4 DEF RingShape

\* publish drops the oldest id when it adds the newest.
LEMMA PublishShape ==
    ASSUME RingShape, NEW p \in Publisher, Publish(p)
    PROVE  RingShape'
  <1> DEFINE all == Append(retained, nextId)
             n == Len(retained)
  <1>1. /\ retained \in Seq(Event) /\ n \in Nat /\ n <= Retention /\ n < nextId
        /\ nextId \in Nat /\ nextId \in Event /\ nextId >= 1
        /\ DOMAIN retained = 1..n
        /\ \A i \in DOMAIN retained : retained[i] = nextId - 1 - n + i
    BY RingAssumption, SMT DEF RingShape, RingTypeOK, Consecutive, Publish, Event
  <1>2. nextId' = nextId + 1 /\ nextId' \in 1..(MaxEvents + 1)
    BY <1>1, RingAssumption, SMT DEF Publish
  <1>3. /\ all \in Seq(Event) /\ Len(all) = n + 1 /\ DOMAIN all = 1..(n + 1)
        /\ \A i \in 1..(n + 1) : all[i] = nextId - 1 - n + i
    BY <1>1, SMT
  <1>4. retained' = IF Len(all) > Retention THEN Tail(all) ELSE all
    BY DEF Publish
  <1> HIDE DEF all, n
  <1>5. /\ retained' \in Seq(Event) /\ Len(retained') <= Retention
        /\ Consecutive'
    <2>1. CASE Len(all) > Retention
      <3>1. retained' = Tail(all) /\ n = Retention
        BY <1>1, <1>3, <1>4, <2>1, RingAssumption, SMT
      <3>2. /\ retained' \in Seq(Event) /\ Len(retained') = n /\ DOMAIN retained' = 1..n
            /\ \A i \in 1..n : retained'[i] = all[i + 1] /\ i + 1 \in 1..(n + 1)
        BY <1>1, <1>3, <3>1, SMT
      <3>3. \A i \in 1..n : retained'[i] = nextId' - 1 - n + i
        BY <1>1, <1>2, <1>3, <3>2, SMT
      <3>4. n < nextId' /\ n <= Retention
        BY <1>1, <1>2, SMT
      <3> QED BY <3>2, <3>3, <3>4 DEF Consecutive
    <2>2. CASE ~(Len(all) > Retention)
      <3>1. retained' = all /\ Len(all) <= Retention
        BY <1>1, <1>3, <1>4, <2>2, RingAssumption, SMT
      <3> QED BY <1>1, <1>2, <1>3, <3>1, SMT DEF Consecutive
    <2> QED BY <2>1, <2>2
  <1>6. RingTypeOK'
    BY <1>1, <1>2, <1>5 DEF RingShape, RingTypeOK, Publish
  <1>7. \A q \in Publisher : Numbered(q)'
    <2>1. ASSUME NEW q \in Publisher PROVE Numbered(q)'
      <3>1. offering \in [Publisher -> Event \cup {0}] /\ offered \in [Publisher -> SUBSET attached]
        BY DEF RingShape, RingTypeOK
      <3>2. offering[q] \in Nat
        BY <3>1, EventsAreNumbers, SMT
      <3>3. Numbered(q)
        BY DEF RingShape
      <3> QED BY <1>1, <1>2, <3>1, <3>2, <3>3, SMT DEF Publish, Numbered
    <2> QED BY <2>1
  <1>8. \A c \in Consumer : Held(c)'
    <2>1. ASSUME NEW c \in Consumer PROVE Held(c)'
      <3>1. Held(c) /\ UNCHANGED <<life, attached, pending, overflowed, handler, batch, basis, known>>
        BY DEF RingShape, Publish
      <3>2. /\ \A i \in DOMAIN pending[c] : pending[c][i] \in Nat
            /\ \A i \in DOMAIN batch[c] : batch[c][i] \in Nat
            /\ \A e \in known[c] : e \in Nat
        <4>1. pending[c] \in Seq(Event) /\ batch[c] \in Seq(Event) /\ known[c] \subseteq Event
          BY OfConsumer DEF RingShape
        <4>2. /\ \A i \in DOMAIN pending[c] : pending[c][i] \in Event
              /\ \A i \in DOMAIN batch[c] : batch[c][i] \in Event
          BY <4>1, SMT
        <4> QED BY <4>1, <4>2, EventsAreNumbers
      <3> QED BY <1>1, <1>2, <3>1, <3>2, SMT DEF Held
    <2> QED BY <2>1
  <1> QED BY <1>5, <1>6, <1>7, <1>8 DEF RingShape

\* offer respects the capacity.
LEMMA OfferShape ==
    ASSUME RingShape, NEW p \in Publisher, NEW c \in Consumer, Offer(p, c)
    PROVE  RingShape'
  <1>1. RingTypeOK /\ offering[p] \in Event /\ offering[p] < nextId
    BY DEF RingShape, RingTypeOK, Offer, Numbered
  <1>2. UNCHANGED <<life, nextId, retained, offering, attached, handler, batch, cursor, basis, known>>
    BY DEF Offer
  <1>3. /\ offered' \in [Publisher -> SUBSET attached]
        /\ \A q \in Publisher : offered'[q] \subseteq offered[q]
    BY <1>1 DEF RingTypeOK, Offer
  <1>4. \/ /\ pending' = [pending EXCEPT ![c] = <<>>]
           /\ overflowed' = [overflowed EXCEPT ![c] = TRUE]
        \/ /\ Len(pending[c]) < SubscriberCapacity
           /\ pending' = [pending EXCEPT ![c] = Append(pending[c], offering[p])]
           /\ overflowed' = overflowed
    BY <1>1, OfConsumer, RingAssumption, SMT DEF Offer
  <1>5. /\ pending' \in [Consumer -> Seq(Event)]
        /\ \A d \in Consumer : Len(pending'[d]) <= SubscriberCapacity
    <2>1. /\ pending \in [Consumer -> Seq(Event)]
          /\ \A d \in Consumer : Len(pending[d]) <= SubscriberCapacity
      BY <1>1 DEF RingTypeOK
    <2>2. CASE pending' = [pending EXCEPT ![c] = <<>>]
      BY <2>1, <2>2, RingAssumption, SMT
    <2>3. CASE /\ Len(pending[c]) < SubscriberCapacity
               /\ pending' = [pending EXCEPT ![c] = Append(pending[c], offering[p])]
      <3>1. /\ Append(pending[c], offering[p]) \in Seq(Event)
            /\ Len(Append(pending[c], offering[p])) <= SubscriberCapacity
        BY <1>1, <2>1, <2>3, RingAssumption, SMT
      <3> QED BY <2>1, <2>3, <3>1
    <2> QED BY <1>4, <2>2, <2>3
  <1>6. overflowed' \in [Consumer -> BOOLEAN]
    BY <1>1, <1>4 DEF RingTypeOK
  <1>7. RingTypeOK'
    BY <1>1, <1>2, <1>3, <1>5, <1>6 DEF RingTypeOK
  <1>8. c \in attached
    BY <1>1 DEF RingTypeOK, Offer
  <1>9. \A d \in Consumer : \A i \in DOMAIN pending'[d] : pending'[d][i] < nextId
    <2>1. ASSUME NEW d \in Consumer, d # c
          PROVE  \A i \in DOMAIN pending'[d] : pending'[d][i] < nextId
      BY <1>1, <1>4, <2>1 DEF RingShape, Held, RingTypeOK
    <2>2. \A i \in DOMAIN pending'[c] : pending'[c][i] < nextId
      <3>1. pending[c] \in Seq(Event) /\ \A i \in DOMAIN pending[c] : pending[c][i] < nextId
        BY <1>1, OfConsumer DEF RingShape, Held
      <3>2. CASE pending' = [pending EXCEPT ![c] = <<>>]
        BY <1>1, <3>2, SMT DEF RingTypeOK
      <3>3. CASE pending' = [pending EXCEPT ![c] = Append(pending[c], offering[p])]
        <4>1. pending'[c] = Append(pending[c], offering[p])
          BY <1>1, <3>3 DEF RingTypeOK
        <4> QED BY <1>1, <3>1, <4>1, SMT
      <3> QED BY <1>4, <3>2, <3>3
    <2> QED BY <2>1, <2>2
  <1>10. \A d \in Consumer : d # c => overflowed'[d] = overflowed[d] /\ pending'[d] = pending[d]
    BY <1>1, <1>4 DEF RingTypeOK
  <1>11. \A d \in Consumer : Held(d)'
    BY <1>2, <1>8, <1>9, <1>10 DEF RingShape, Held
  <1>12. \A q \in Publisher : Numbered(q)'
    BY <1>2, <1>3 DEF RingShape, Numbered
  <1> QED BY <1>2, <1>7, <1>11, <1>12 DEF RingShape, Consecutive

\* The two ways a subscription begins: at the live position, or after a cursor.
LEMMA Subscriptions ==
    ASSUME RingShape, NEW c \in Consumer, Subscribe(c)
    PROVE  /\ c \notin attached /\ attached' = attached \cup {c}
           /\ UNCHANGED <<life, nextId, retained, offering, offered, batch, cursor>>
           /\ handler' = [handler EXCEPT ![c] = "loop"]
           /\ \/ /\ cursor[c] = None
                 /\ known' = [known EXCEPT ![c] = 1..(nextId - 1)]
                 /\ basis' = [basis EXCEPT ![c] = life]
                 /\ UNCHANGED <<pending, overflowed>>
              \/ /\ cursor[c] \in Event /\ Resumable(cursor[c])
                 /\ Len(Backlog(cursor[c])) <= SubscriberCapacity
                 /\ pending' = [pending EXCEPT ![c] = Backlog(cursor[c])]
                 /\ overflowed' = [overflowed EXCEPT ![c] = FALSE]
                 /\ UNCHANGED <<known, basis>>
              \/ /\ cursor[c] \in Event
                 /\ pending' = [pending EXCEPT ![c] = <<>>]
                 /\ overflowed' = [overflowed EXCEPT ![c] = TRUE]
                 /\ UNCHANGED <<known, basis>>
  <1> DEFINE after == cursor[c]
             primed == Resumable(after) /\ Len(Backlog(after)) <= SubscriberCapacity
  <1>1. cursor[c] \in Event \cup {None}
    BY OfConsumer DEF RingShape
  <1>2. CASE cursor[c] = None
    BY <1>2 DEF Subscribe
  <1>3. CASE cursor[c] # None /\ primed
    <2>1. (~primed) = FALSE
      BY <1>3
    <2>2. /\ pending' = [pending EXCEPT ![c] = Backlog(after)]
          /\ overflowed' = [overflowed EXCEPT ![c] = ~primed]
          /\ UNCHANGED <<known, basis>>
      BY <1>3 DEF Subscribe
    <2> QED BY <1>1, <1>3, <2>1, <2>2 DEF Subscribe
  <1>4. CASE cursor[c] # None /\ ~primed
    <2>1. (~primed) = TRUE
      BY <1>4
    <2>2. /\ pending' = [pending EXCEPT ![c] = <<>>]
          /\ overflowed' = [overflowed EXCEPT ![c] = ~primed]
          /\ UNCHANGED <<known, basis>>
      BY <1>4 DEF Subscribe
    <2> QED BY <1>1, <1>4, <2>1, <2>2 DEF Subscribe
  <1> QED BY <1>2, <1>3, <1>4

\* A subscription starts with what its cursor asks for.
LEMMA SubscribeShape ==
    ASSUME RingShape, NEW c \in Consumer, Subscribe(c)
    PROVE  RingShape'
  <1>1. RingTypeOK /\ Held(c) /\ nextId \in 1..(MaxEvents + 1) /\ life \in 1..MaxLives
    BY DEF RingShape, RingTypeOK
  <1>2. /\ attached' = attached \cup {c} /\ c \notin attached
        /\ UNCHANGED <<life, nextId, retained, offering, offered, batch, cursor>>
        /\ handler' = [handler EXCEPT ![c] = "loop"]
    BY Subscriptions
  <1>3. /\ batch[c] = <<>> /\ pending[c] = <<>>
    BY <1>1, <1>2 DEF Held
  <1>4. /\ pending' \in [Consumer -> Seq(Event)]
        /\ \A d \in Consumer : Len(pending'[d]) <= SubscriberCapacity
        /\ \A d \in Consumer : \A i \in DOMAIN pending'[d] : pending'[d][i] < nextId
    <2>1. /\ pending \in [Consumer -> Seq(Event)]
          /\ \A d \in Consumer : Len(pending[d]) <= SubscriberCapacity
          /\ \A d \in Consumer : \A i \in DOMAIN pending[d] : pending[d][i] < nextId
      BY DEF RingShape, RingTypeOK, Held
    <2>2. CASE pending' = pending
      BY <2>1, <2>2
    <2>3. CASE pending' = [pending EXCEPT ![c] = <<>>]
      BY <2>1, <2>3, RingAssumption, SMT
    <2>4. CASE /\ cursor[c] \in Event /\ Resumable(cursor[c])
               /\ Len(Backlog(cursor[c])) <= SubscriberCapacity
               /\ pending' = [pending EXCEPT ![c] = Backlog(cursor[c])]
      <3>1. cursor[c] \in Nat
        BY <2>4, EventsAreNumbers
      <3>2. /\ Backlog(cursor[c]) \in Seq(Event)
            /\ DOMAIN Backlog(cursor[c]) = 1..(nextId - 1 - cursor[c])
            /\ \A i \in DOMAIN Backlog(cursor[c]) : Backlog(cursor[c])[i] = cursor[c] + i
        BY <2>4, <3>1, BacklogIs
      <3>3. \A i \in DOMAIN Backlog(cursor[c]) : Backlog(cursor[c])[i] < nextId
        BY <1>1, <3>1, <3>2, RingAssumption, SMT
      <3> QED BY <2>1, <2>4, <3>2, <3>3
    <2> QED BY <2>2, <2>3, <2>4, Subscriptions
  <1>5. overflowed' \in [Consumer -> BOOLEAN]
    BY <1>1, Subscriptions, ZenonT(30) DEF RingTypeOK
  <1>6. /\ known' \in [Consumer -> SUBSET Event]
        /\ \A d \in Consumer : \A e \in known'[d] : e < nextId
    <2>1. known \in [Consumer -> SUBSET Event] /\ \A d \in Consumer : \A e \in known[d] : e < nextId
      BY DEF RingShape, RingTypeOK, Held
    <2>2. 1..(nextId - 1) \subseteq Event /\ \A e \in 1..(nextId - 1) : e < nextId
      BY <1>1, RingAssumption, SMT DEF Event
    <2> QED BY <2>1, <2>2, Subscriptions, ZenonT(30)
  <1>7. /\ basis' \in [Consumer -> 1..MaxLives]
        /\ \A d \in Consumer : basis'[d] <= life
    <2>1. basis \in [Consumer -> 1..MaxLives] /\ \A d \in Consumer : basis[d] <= life
      BY DEF RingShape, RingTypeOK, Held
    <2> QED BY <1>1, <2>1, Subscriptions, SMT
  <1>8. RingTypeOK'
    BY <1>1, <1>2, <1>4, <1>5, <1>6, <1>7 DEF RingTypeOK
  <1>9. \A d \in Consumer : d # c => /\ overflowed'[d] = overflowed[d] /\ pending'[d] = pending[d]
                                     /\ handler'[d] = handler[d]
    <2>1. /\ pending \in [Consumer -> Seq(Event)] /\ overflowed \in [Consumer -> BOOLEAN]
          /\ handler \in [Consumer -> HandlerAt]
      BY <1>1 DEF RingTypeOK
    <2>2. /\ \/ pending' = pending
             \/ \E s : pending' = [pending EXCEPT ![c] = s]
          /\ \/ overflowed' = overflowed
             \/ \E b : overflowed' = [overflowed EXCEPT ![c] = b]
      BY Subscriptions
    <2> QED BY <1>2, <2>1, <2>2
  <1>10. handler'[c] = "loop"
    BY <1>1, <1>2 DEF RingTypeOK
  <1>11. \A d \in Consumer : Held(d)'
    BY <1>2, <1>3, <1>4, <1>6, <1>7, <1>9, <1>10 DEF RingShape, Held
  <1> QED BY <1>2, <1>8, <1>11 DEF RingShape, Numbered, Consecutive

\* A stream that ends leaves nothing behind.
LEMMA DetachShape ==
    ASSUME RingShape, NEW c \in Consumer, Detach(c),
           UNCHANGED <<life, nextId, retained, offering, basis, known>>,
           cursor' = cursor \/ cursor' = [cursor EXCEPT ![c] = None]
    PROVE  RingShape'
  <1>1. RingTypeOK
    BY DEF RingShape
  <1>2. /\ offered' \in [Publisher -> SUBSET attached']
        /\ \A q \in Publisher : offered'[q] \subseteq offered[q]
    BY <1>1 DEF RingTypeOK, Detach
  <1>3. /\ pending' \in [Consumer -> Seq(Event)] /\ pending'[c] = <<>>
        /\ \A d \in Consumer : Len(pending'[d]) <= SubscriberCapacity
        /\ \A d \in Consumer : d # c => pending'[d] = pending[d]
    BY <1>1, RingAssumption, SMT DEF RingTypeOK, Detach
  <1>4. /\ overflowed' \in [Consumer -> BOOLEAN] /\ ~overflowed'[c]
        /\ \A d \in Consumer : d # c => overflowed'[d] = overflowed[d]
    BY <1>1 DEF RingTypeOK, Detach
  <1>5. /\ batch' \in [Consumer -> Seq(Event)] /\ batch'[c] = <<>>
        /\ \A d \in Consumer : d # c => batch'[d] = batch[d]
    BY <1>1, SMT DEF RingTypeOK, Detach
  <1>6. /\ handler' \in [Consumer -> HandlerAt] /\ handler'[c] = "off"
        /\ \A d \in Consumer : d # c => handler'[d] = handler[d]
    BY <1>1 DEF RingTypeOK, Detach
  <1>7. attached' = attached \ {c}
    BY DEF Detach
  <1>8. cursor' \in [Consumer -> Event \cup {None}]
    BY <1>1 DEF RingTypeOK
  <1>9. RingTypeOK'
    BY <1>1, <1>2, <1>3, <1>4, <1>5, <1>6, <1>7, <1>8 DEF RingTypeOK
  <1>10. ASSUME NEW d \in Consumer PROVE Held(d)'
    <2>1. CASE d = c
      BY <1>3, <1>4, <1>5, <1>6, <1>7, <2>1, SMT DEF RingShape, Held
    <2>2. CASE d # c
      BY <1>3, <1>4, <1>5, <1>6, <1>7, <2>2 DEF RingShape, Held
    <2> QED BY <2>1, <2>2
  <1>11. \A q \in Publisher : Numbered(q)'
    BY <1>2 DEF RingShape, Numbered
  <1> QED BY <1>9, <1>10, <1>11 DEF RingShape, Consecutive

\* drain takes everything that is pending.
LEMMA DrainShape ==
    ASSUME RingShape, NEW c \in Consumer, Drain(c)
    PROVE  RingShape'
  <1>1. RingTypeOK
    BY DEF RingShape
  <1>2. /\ batch' \in [Consumer -> Seq(Event)] /\ batch'[c] = pending[c]
        /\ \A d \in Consumer : d # c => batch'[d] = batch[d]
    BY <1>1 DEF RingTypeOK, Drain
  <1>3. /\ pending' \in [Consumer -> Seq(Event)] /\ pending'[c] = <<>>
        /\ \A d \in Consumer : Len(pending'[d]) <= SubscriberCapacity
        /\ \A d \in Consumer : d # c => pending'[d] = pending[d]
    BY <1>1, RingAssumption, SMT DEF RingTypeOK, Drain
  <1>4. /\ handler' \in [Consumer -> HandlerAt]
        /\ handler'[c] = "drained" /\ handler[c] = "loop"
        /\ \A d \in Consumer : d # c => handler'[d] = handler[d]
    BY <1>1 DEF RingTypeOK, Drain
  <1>5. UNCHANGED <<life, nextId, retained, offering, offered, attached, overflowed,
                    cursor, basis, known>>
    BY DEF Drain
  <1>6. RingTypeOK'
    BY <1>1, <1>2, <1>3, <1>4, <1>5 DEF RingTypeOK
  <1>7. ASSUME NEW d \in Consumer PROVE Held(d)'
    <2>1. CASE d = c
      BY <1>2, <1>3, <1>4, <1>5, <2>1 DEF RingShape, Held
    <2>2. CASE d # c
      BY <1>2, <1>3, <1>4, <1>5, <2>2 DEF RingShape, Held
    <2> QED BY <2>1, <2>2
  <1> QED BY <1>5, <1>6, <1>7 DEF RingShape, Consecutive, Numbered

\* One event of a batch is written.
LEMMA Emitted ==
    ASSUME RingShape, NEW c \in Consumer, Emit(c)
    PROVE  /\ batch[c] \in Seq(Event) /\ batch[c] # <<>> /\ 1 \in DOMAIN batch[c]
           /\ batch[c][1] \in Event /\ batch[c][1] < nextId
           /\ cursor' = [cursor EXCEPT ![c] = batch[c][1]]
           /\ known' = [known EXCEPT ![c] = known[c] \cup {batch[c][1]}]
           /\ batch'[c] \in Seq(Event) /\ DOMAIN batch'[c] = 1..(Len(batch[c]) - 1)
           /\ \A i \in DOMAIN batch'[c] : /\ i + 1 \in DOMAIN batch[c]
                                          /\ batch'[c][i] = batch[c][i + 1]
           /\ batch'[c] = <<>> <=> Len(batch[c]) = 1
           /\ batch' = [batch EXCEPT ![c] = Tail(batch[c])]
           /\ c \in attached
  <1>1. /\ batch[c] \in Seq(Event) /\ batch \in [Consumer -> Seq(Event)]
        /\ batch[c] # <<>> /\ c \in attached
    BY OfConsumer DEF RingShape, Held, Emit, RingTypeOK
  <1>2. /\ 1 \in DOMAIN batch[c] /\ Head(batch[c]) = batch[c][1] /\ batch[c][1] \in Event
    BY <1>1, SMT
  <1>3. batch[c][1] < nextId
    BY <1>2 DEF RingShape, Held
  <1>4. batch' = [batch EXCEPT ![c] = Tail(batch[c])] /\ batch'[c] = Tail(batch[c])
    BY <1>1 DEF Emit
  <1>5. /\ Tail(batch[c]) \in Seq(Event) /\ DOMAIN Tail(batch[c]) = 1..(Len(batch[c]) - 1)
        /\ \A i \in DOMAIN Tail(batch[c]) : /\ i + 1 \in DOMAIN batch[c]
                                            /\ Tail(batch[c])[i] = batch[c][i + 1]
        /\ Tail(batch[c]) = <<>> <=> Len(batch[c]) = 1
    <2>1. /\ Len(batch[c]) \in Nat \ {0}
          /\ Tail(batch[c]) \in Seq(Event) /\ Len(Tail(batch[c])) = Len(batch[c]) - 1
      BY <1>1, SMT
    <2>2. Tail(batch[c]) = <<>> <=> Len(Tail(batch[c])) = 0
      <3>1. \A s \in Seq(Event) : Len(s) = 0 => s = <<>>
        BY SMT
      <3>2. Len(<<>>) = 0
        OBVIOUS
      <3> QED BY <2>1, <3>1, <3>2
    <2>3. \A i \in DOMAIN Tail(batch[c]) : /\ i + 1 \in DOMAIN batch[c]
                                           /\ Tail(batch[c])[i] = batch[c][i + 1]
      BY <1>1, SMT
    <2> QED BY <2>1, <2>2, <2>3, SMT
  <1>6. /\ cursor' = [cursor EXCEPT ![c] = batch[c][1]]
        /\ known' = [known EXCEPT ![c] = known[c] \cup {batch[c][1]}]
    BY <1>2 DEF Emit
  <1> QED BY <1>1, <1>2, <1>3, <1>4, <1>5, <1>6

\* A written event was numbered, and the handler returns to its loop after the last.
LEMMA EmitShape ==
    ASSUME RingShape, NEW c \in Consumer, Emit(c)
    PROVE  RingShape'
  <1>1. RingTypeOK
    BY DEF RingShape
  <1>2. /\ batch' \in [Consumer -> Seq(Event)]
        /\ \A d \in Consumer : d # c => batch'[d] = batch[d]
        /\ \A i \in DOMAIN batch'[c] : batch'[c][i] < nextId
        /\ batch'[c] = <<>> <=> Len(batch[c]) = 1
    <2>1. batch \in [Consumer -> Seq(Event)] /\ batch' = [batch EXCEPT ![c] = Tail(batch[c])]
          /\ batch'[c] \in Seq(Event)
      BY <1>1, Emitted DEF RingTypeOK
    <2>2. \A i \in DOMAIN batch[c] : batch[c][i] < nextId
      BY DEF RingShape, Held
    <2> QED BY <2>1, <2>2, Emitted, SMT
  <1>3. /\ cursor' \in [Consumer -> Event \cup {None}]
    BY <1>1, Emitted DEF RingTypeOK
  <1>4. /\ known' \in [Consumer -> SUBSET Event]
        /\ \A d \in Consumer : \A e \in known'[d] : e < nextId
    <2>1. known \in [Consumer -> SUBSET Event] /\ \A d \in Consumer : \A e \in known[d] : e < nextId
      BY DEF RingShape, RingTypeOK, Held
    <2>2. /\ known' = [known EXCEPT ![c] = known[c] \cup {batch[c][1]}]
          /\ batch[c][1] \in Event /\ batch[c][1] < nextId
      BY Emitted
    <2> QED BY <2>1, <2>2
  <1>5. /\ handler' \in [Consumer -> HandlerAt]
        /\ handler'[c] = IF Len(batch[c]) = 1 THEN "loop" ELSE "emitting"
        /\ \A d \in Consumer : d # c => handler'[d] = handler[d]
    BY <1>1 DEF RingTypeOK, Emit
  <1>6. UNCHANGED <<life, nextId, retained, offering, offered, attached, pending, overflowed, basis>>
    BY DEF Emit
  <1>7. RingTypeOK'
    BY <1>1, <1>2, <1>3, <1>4, <1>5, <1>6 DEF RingTypeOK
  <1>8. ASSUME NEW d \in Consumer PROVE Held(d)'
    <2>1. CASE d = c
      BY <1>2, <1>4, <1>5, <1>6, <2>1, Emitted DEF RingShape, Held
    <2>2. CASE d # c
      BY <1>2, <1>4, <1>5, <1>6, <2>2 DEF RingShape, Held
    <2> QED BY <2>1, <2>2
  <1> QED BY <1>6, <1>7, <1>8 DEF RingShape, Consecutive, Numbered

\* A restart empties the ring, and no view was built on the new life yet.
LEMMA RestartShape ==
    ASSUME RingShape, Restart
    PROVE  RingShape'
  <1>1. RingTypeOK /\ life \in 1..MaxLives /\ \A c \in Consumer : basis[c] <= life
    BY DEF RingShape, RingTypeOK, Held
  <1>2. life' = life + 1 /\ life' \in 1..MaxLives
    BY <1>1, RingAssumption, SMT DEF Restart
  <1>3. RingTypeOK'
    BY <1>1, <1>2, RingAssumption, SMT DEF RingTypeOK, Restart, Event
  <1>4. Consecutive' /\ \A p \in Publisher : Numbered(p)'
    BY SMT DEF Restart, Consecutive, Numbered
  <1>5. \A c \in Consumer : basis'[c] <= life'
    <2>1. basis \in [Consumer -> 1..MaxLives] /\ basis' = basis
      BY <1>1 DEF RingTypeOK, Restart
    <2> QED BY <1>1, <1>2, <2>1, RingAssumption, SMT
  <1>6. \A c \in Consumer : Held(c)'
    BY <1>5, SMT DEF Restart, Held
  <1> QED BY <1>3, <1>4, <1>6 DEF RingShape

\* A look at overflowed, or a heartbeat: the handler moves on, and the consumer's cursor
\* may be set back.
Turns(c) == StartEmitting(c) \/ StartTelling(c) \/ Heartbeat(c)

\* What such a step changes.
LEMMA Turned ==
    ASSUME RingShape, NEW c \in Consumer, Turns(c)
    PROVE  /\ UNCHANGED <<life, nextId, retained, offering, offered, attached, pending,
                          overflowed, batch, basis, known>>
           /\ handler' \in [Consumer -> HandlerAt] /\ handler[c] # "off" /\ handler'[c] # "off"
           /\ batch[c] # <<>> => handler'[c] \in {"drained", "emitting", "telling"}
           /\ \A d \in Consumer : d # c => handler'[d] = handler[d]
           /\ cursor' \in [Consumer -> Event \cup {None}]
  <1>1. handler \in [Consumer -> HandlerAt] /\ cursor \in [Consumer -> Event \cup {None}]
    BY DEF RingShape, RingTypeOK
  <1>2. CASE StartEmitting(c)
    BY <1>1, <1>2 DEF StartEmitting
  <1>3. CASE StartTelling(c)
    BY <1>1, <1>3 DEF StartTelling
  <1>4. CASE Heartbeat(c)
    <2>1. 1 \in Event
      BY RingAssumption, SMT DEF Event
    <2> QED BY <1>1, <1>4, <2>1 DEF Heartbeat
  <1> QED BY <1>2, <1>3, <1>4 DEF Turns

\* Such a step keeps the shape.
LEMMA TurnShape ==
    ASSUME RingShape, NEW c \in Consumer, Turns(c)
    PROVE  RingShape'
  <1>1. RingTypeOK'
    BY Turned DEF RingShape, RingTypeOK
  <1>2. ASSUME NEW d \in Consumer PROVE Held(d)'
    <2>1. CASE d = c
      <3>1. /\ c \in attached' /\ handler'[c] # "off"
            /\ UNCHANGED <<attached, pending, overflowed, nextId, batch, known, basis, life>>
            /\ batch'[c] # <<>> => handler'[c] \in {"drained", "emitting", "telling"}
        BY Turned DEF RingShape, Held
      <3>2. Held(c)
        BY DEF RingShape
      <3> QED BY <2>1, <3>1, <3>2 DEF Held
    <2>2. CASE d # c
      BY <2>2, Turned DEF RingShape, Held
    <2> QED BY <2>1, <2>2
  <1> QED BY <1>1, <1>2, Turned DEF RingShape, Consecutive, Numbered

\* Every step keeps the shape.
LEMMA ShapeStep == RingShape /\ [RingNext]_ringVars => RingShape'
  <1> SUFFICES ASSUME RingShape, [RingNext]_ringVars PROVE RingShape'
    OBVIOUS
  <1>1. ASSUME NEW c \in Consumer, StartEmitting(c) \/ StartTelling(c) \/ Heartbeat(c)
        PROVE  RingShape'
    BY <1>1, TurnShape DEF Turns
  <1>2. ASSUME NEW c \in Consumer, Tell(c) PROVE RingShape'
    BY <1>2, DetachShape DEF Tell
  <1>3. ASSUME NEW c \in Consumer, Disconnect(c) PROVE RingShape'
    BY <1>3, DetachShape DEF Disconnect
  <1>4. CASE UNCHANGED ringVars
    BY <1>4 DEF ringVars, RingShape, RingTypeOK, Consecutive, Numbered, Held
  <1> QED BY <1>1, <1>2, <1>3, <1>4, PublishShape, OfferShape, SubscribeShape, DrainShape, EmitShape,
             RestartShape DEF RingNext, StreamHandler, StreamWrite

\* The shape always holds.
LEMMA ShapeAlways == RingSpec => []RingShape
  BY ShapeInit, ShapeStep, PTL DEF RingSpec

\* Every variable of the ring keeps its type, with its two bounds, the retention of
\* the ring and the capacity of a subscriber, for any number of publishers.
THEOREM RingTypeCorrect == RingSpec => []RingTypeOK
  <1>1. RingShape => RingTypeOK
    BY DEF RingShape
  <1> QED BY <1>1, ShapeAlways, PTL

-----------------------------------------------------------------------------
(* One stream *)

\* Events on their way are those of Awaited.
LEMMA AwaitedIs == \A c, x : x \in Awaited(c) <=> OnItsWay(c, x)
  BY DEF Awaited, OnItsWay, Range

\* The numbers a consumer's stream consists of.
LEMMA StreamNumbers ==
    ASSUME RingShape, NEW c \in Consumer
    PROVE  /\ nextId \in Nat \ {0}
           /\ \A i \in DOMAIN batch[c] : batch[c][i] \in Nat \ {0} /\ batch[c][i] < nextId
           /\ \A i \in DOMAIN pending[c] : pending[c][i] \in Nat \ {0} /\ pending[c][i] < nextId
           /\ \A e \in known[c] : e \in Nat \ {0} /\ e < nextId
           /\ \A p \in Publisher : offering[p] \in Nat /\ offering[p] < nextId
           /\ cursor[c] # None => cursor[c] \in Nat \ {0}
  <1>1. /\ batch[c] \in Seq(Event) /\ pending[c] \in Seq(Event) /\ known[c] \subseteq Event
        /\ cursor[c] \in Event \cup {None}
    BY OfConsumer DEF RingShape
  <1>2. /\ \A i \in DOMAIN batch[c] : batch[c][i] \in Event
        /\ \A i \in DOMAIN pending[c] : pending[c][i] \in Event
    BY <1>1, SMT
  <1>3. \A p \in Publisher : offering[p] \in Event \cup {0} /\ offering[p] < nextId
    BY DEF RingShape, RingTypeOK, Numbered
  <1>4. nextId \in Nat \ {0}
    BY RingAssumption, SMT DEF RingShape, RingTypeOK
  <1> QED BY <1>1, <1>2, <1>3, <1>4, EventsAreNumbers, SMT DEF RingShape, Held

\* A consumer has the event or is about to be given it.
Reached(c, x) == x \in known[c] \/ OnItsWay(c, x)

\* An event is in reach when it is known or on its way.
LEMMA ReachIs == \A c, x : x \in Reach(c) <=> Reached(c, x)
  BY AwaitedIs DEF Reach, Reached

\* The same, after a step.
LEMMA ReachIsAfter == \A c, x : x \in Reach(c)' <=> Reached(c, x)'
  BY DEF Reach, Reached, Awaited, OnItsWay, Range

\* A stream that a step leaves alone keeps its events.
LEMMA ReachKept ==
    ASSUME NEW c, NEW x, UNCHANGED <<nextId, offering, batch[c], pending[c], known[c]>>,
           \A p \in Publisher : c \in offered[p] => c \in offered'[p],
           Reached(c, x)
    PROVE  Reached(c, x)'
  BY DEF Reached, OnItsWay

\* publish takes nothing from a stream, and its event is on its way to every subscriber.
LEMMA PublishReaches ==
    ASSUME RingShape, NEW p \in Publisher, Publish(p), NEW c \in attached, NEW x,
           Reached(c, x) \/ x \in nextId..(nextId' - 1)
    PROVE  Reached(c, x)'
  <1>1. /\ offered \in [Publisher -> SUBSET attached] /\ offering \in [Publisher -> Event \cup {0}]
        /\ nextId \in Nat /\ nextId' = nextId + 1 /\ offered[p] = {}
        /\ UNCHANGED <<attached, pending, batch, known>>
    BY RingAssumption, SMT DEF RingShape, RingTypeOK, Publish
  <1>2. /\ offered'[p] = attached /\ offering'[p] = nextId
        /\ \A q \in Publisher : q # p => offered'[q] = offered[q] /\ offering'[q] = offering[q]
    BY <1>1 DEF Publish
  <1>3. CASE Reached(c, x)
    BY <1>1, <1>2, <1>3 DEF Reached, OnItsWay
  <1>4. CASE x \in nextId..(nextId' - 1)
    <2>1. x = nextId
      BY <1>1, <1>4, SMT
    <2> QED BY <1>2, <2>1 DEF Reached, OnItsWay
  <1> QED BY <1>3, <1>4

\* offer moves an event to the end of the queue, unless the subscriber overflows.
LEMMA OfferReaches ==
    ASSUME RingShape, NEW p \in Publisher, NEW d \in Consumer, Offer(p, d),
           NEW c \in Consumer, ~overflowed'[c], NEW x, Reached(c, x)
    PROVE  Reached(c, x)'
  <1>1. /\ offered \in [Publisher -> SUBSET attached]
        /\ pending \in [Consumer -> Seq(Event)] /\ overflowed \in [Consumer -> BOOLEAN]
    BY DEF RingShape, RingTypeOK
  <1>2. /\ UNCHANGED <<nextId, offering, attached, batch, known>>
        /\ offered' = [offered EXCEPT ![p] = offered[p] \ {d}]
    BY DEF Offer
  <1>3. CASE c # d
    <2>1. pending'[c] = pending[c] /\ \A q \in Publisher : c \in offered[q] => c \in offered'[q]
      BY <1>1, <1>2, <1>3 DEF Offer
    <2> QED BY <1>2, <2>1, ReachKept
  <1>4. CASE c = d
    <2>1. pending'[c] = Append(pending[c], offering[p])
      BY <1>1, <1>4 DEF Offer
    <2>2. pending[c] \in Seq(Event) /\ offering[p] \in Event
      BY <1>1, <1>4 DEF RingShape, RingTypeOK, Numbered, Offer
    <2>3. /\ Len(pending[c]) \in Nat
          /\ DOMAIN pending'[c] = DOMAIN pending[c] \cup {Len(pending[c]) + 1}
          /\ \A i \in DOMAIN pending[c] : pending'[c][i] = pending[c][i]
          /\ pending'[c][Len(pending[c]) + 1] = offering[p]
      BY <2>1, <2>2, SMT
    <2>4. \A q \in Publisher : q # p => offered'[q] = offered[q]
      BY <1>1, <1>2
    <2>5. (\E i \in DOMAIN pending[c] : pending[c][i] = x) =>
             \E i \in DOMAIN pending'[c] : pending'[c][i] = x
      BY <2>3
    <2>6. \E i \in DOMAIN pending'[c] : pending'[c][i] = offering[p]
      BY <2>3
    <2> QED BY <1>2, <2>4, <2>5, <2>6 DEF Reached, OnItsWay
  <1> QED BY <1>3, <1>4

\* drain moves the queue into the batch, which is empty then.
LEMMA DrainReaches ==
    ASSUME RingShape, NEW d \in Consumer, Drain(d), NEW c \in Consumer, NEW x, Reached(c, x)
    PROVE  Reached(c, x)'
  <1>1. RingTypeOK /\ Held(d)
    BY DEF RingShape
  <1>2. UNCHANGED <<nextId, offering, offered, known>>
    BY DEF Drain
  <1>3. /\ batch'[d] = pending[d] /\ pending'[d] = <<>> /\ batch[d] = <<>>
        /\ \A e \in Consumer : e # d => batch'[e] = batch[e] /\ pending'[e] = pending[e]
    BY <1>1 DEF RingTypeOK, Drain, Held
  <1>4. CASE c # d
    BY <1>2, <1>3, <1>4, ReachKept
  <1>5. CASE c = d
    <2>1. \A i \in DOMAIN batch[d] : FALSE
      BY <1>3, SMT
    <2> QED BY <1>2, <1>3, <1>5, <2>1 DEF Reached, OnItsWay
  <1> QED BY <1>4, <1>5

\* What is written to a consumer is known to it.
LEMMA EmitReaches ==
    ASSUME RingShape, NEW d \in Consumer, Emit(d), NEW c \in Consumer, NEW x, Reached(c, x)
    PROVE  Reached(c, x)'
  <1>1. RingTypeOK
    BY DEF RingShape
  <1>2. UNCHANGED <<nextId, offering, offered, pending>>
    BY DEF Emit
  <1>3. CASE c # d
    <2>1. batch'[c] = batch[c] /\ known'[c] = known[c]
      BY <1>1, <1>3, Emitted, SMT DEF RingTypeOK
    <2> QED BY <1>2, <2>1, ReachKept
  <1>4. CASE c = d
    <2>1. known'[c] = known[c] \cup {batch[c][1]}
      BY <1>1, <1>4, Emitted, SMT DEF RingTypeOK
    <2>2. ASSUME NEW i \in DOMAIN batch[c], i # 1
          PROVE  \E j \in DOMAIN batch'[c] : batch'[c][j] = batch[c][i]
      <3>1. /\ batch[c] \in Seq(Event) /\ DOMAIN batch'[c] = 1..(Len(batch[c]) - 1)
            /\ \A j \in DOMAIN batch'[c] : batch'[c][j] = batch[c][j + 1]
        BY <1>4, Emitted
      <3>2. i - 1 \in DOMAIN batch'[c] /\ (i - 1) + 1 = i
        BY <2>2, <3>1, SMT
      <3> QED BY <3>1, <3>2
    <2> QED BY <1>2, <2>1, <2>2 DEF Reached, OnItsWay
  <1> QED BY <1>3, <1>4

\* A stream begins with every event its consumer misses.
LEMMA SubscribeReaches ==
    ASSUME RingShape, NEW c \in Consumer, Subscribe(c), ~overflowed'[c], NEW x \in Missing(c)
    PROVE  Reached(c, x)'
  <1>1. /\ pending \in [Consumer -> Seq(Event)] /\ overflowed \in [Consumer -> BOOLEAN]
        /\ known \in [Consumer -> SUBSET Event]
    BY DEF RingShape, RingTypeOK
  <1>2. CASE cursor[c] = None
    BY <1>2 DEF Missing
  <1>3. CASE cursor[c] # None
    <2>1. /\ cursor[c] \in Event /\ Resumable(cursor[c])
          /\ pending' = [pending EXCEPT ![c] = Backlog(cursor[c])]
      BY <1>1, <1>3, Subscriptions, ZenonT(30)
    <2>2. cursor[c] \in Nat /\ nextId \in Nat
      BY <2>1, EventsAreNumbers, StreamNumbers
    <2>3. /\ DOMAIN pending'[c] = 1..(nextId - 1 - cursor[c])
          /\ \A i \in DOMAIN pending'[c] : pending'[c][i] = cursor[c] + i
      BY <1>1, <2>1, <2>2, BacklogIs
    <2>4. x \in (cursor[c] + 1)..(nextId - 1)
      BY <1>3 DEF Missing
    <2>5. x - cursor[c] \in DOMAIN pending'[c] /\ cursor[c] + (x - cursor[c]) = x
      BY <2>2, <2>3, <2>4, SMT
    <2>6. pending'[c][x - cursor[c]] = x
      BY <2>3, <2>5
    <2> QED BY <2>5, <2>6 DEF Reached, OnItsWay
  <1> QED BY <1>2, <1>3

\* No step takes an event from a stream that stands.
LEMMA StandingReaches ==
    ASSUME RingShape, [RingNext]_ringVars, NEW c \in attached, c \in attached', ~overflowed'[c],
           NEW x, Reached(c, x) \/ x \in nextId..(nextId' - 1)
    PROVE  Reached(c, x)'
  <1>1. c \in Consumer
    BY DEF RingShape, RingTypeOK
  <1>2. nextId' = nextId => Reached(c, x)
    <2>1. nextId \in Nat
      BY <1>1, StreamNumbers
    <2> QED BY <2>1, SMT
  <1>3. ASSUME NEW d \in Consumer, Subscribe(d) PROVE Reached(c, x)'
    <2>1. /\ d \notin attached /\ UNCHANGED <<nextId, offering, offered, batch>>
      BY <1>3, Subscriptions
    <2>2. pending'[c] = pending[c] /\ known'[c] = known[c]
      <3>1. pending \in [Consumer -> Seq(Event)] /\ known \in [Consumer -> SUBSET Event]
        BY DEF RingShape, RingTypeOK
      <3> QED BY <1>1, <1>3, <2>1, <3>1, Subscriptions
    <2> QED BY <1>2, <2>1, <2>2, ReachKept
  <1>4. ASSUME NEW d \in Consumer, Detach(d), UNCHANGED <<nextId, offering, known>>
        PROVE  Reached(c, x)'
    <2>1. c # d
      BY <1>4 DEF Detach
    <2>2. /\ pending'[c] = pending[c] /\ batch'[c] = batch[c]
          /\ \A p \in Publisher : c \in offered[p] => c \in offered'[p]
      BY <1>1, <1>4, <2>1 DEF Detach, RingShape, RingTypeOK
    <2> QED BY <1>2, <1>4, <2>2, ReachKept
  <1>5. ASSUME NEW d \in Consumer, StreamHandler(d) \/ StreamWrite(d) PROVE Reached(c, x)'
    <2>1. CASE Drain(d)
      <3>1. nextId' = nextId
        BY <2>1 DEF Drain
      <3> QED BY <1>1, <1>2, <2>1, <3>1, DrainReaches
    <2>2. CASE Emit(d)
      <3>1. nextId' = nextId
        BY <2>2 DEF Emit
      <3> QED BY <1>1, <1>2, <2>2, <3>1, EmitReaches
    <2>3. CASE Turns(d)
      BY <1>2, <2>3, Turned, ReachKept
    <2>4. CASE Tell(d)
      BY <1>4, <2>4 DEF Tell
    <2> QED BY <1>5, <2>1, <2>2, <2>3, <2>4 DEF StreamHandler, StreamWrite, Turns
  <1>6. ASSUME NEW d \in Consumer, Disconnect(d) PROVE Reached(c, x)'
    BY <1>4, <1>6 DEF Disconnect
  <1>7. ASSUME NEW p \in Publisher, NEW d \in Consumer, Offer(p, d) PROVE Reached(c, x)'
    <2>1. nextId' = nextId
      BY <1>7 DEF Offer
    <2> QED BY <1>1, <1>2, <1>7, <2>1, OfferReaches
  <1>8. CASE Restart
    BY <1>8 DEF Restart
  <1>9. CASE UNCHANGED ringVars
    BY <1>2, <1>9, ReachKept DEF ringVars
  <1>10. ASSUME NEW p \in Publisher, Publish(p) PROVE Reached(c, x)'
    BY <1>10, PublishReaches
  <1> QED BY <1>3, <1>5, <1>6, <1>7, <1>8, <1>9, <1>10 DEF RingNext

\* A stream stands after a step that it did not stand before only by subscribing.
LEMMA StandsBySubscribing ==
    ASSUME RingShape, [RingNext]_ringVars, NEW c \in attached', c \notin attached
    PROVE  c \in Consumer /\ Subscribe(c)
  <1>1. \A d \in Consumer : Subscribe(d) => attached' = attached \cup {d}
    BY DEF Subscribe
  <1>2. \A d : Detach(d) => attached' \subseteq attached
    BY DEF Detach
  <1>3. \A d \in Consumer : StreamHandler(d) \/ StreamWrite(d) \/ Disconnect(d)
                              => attached' \subseteq attached
    BY <1>2 DEF StreamHandler, StreamWrite, Disconnect, Drain, StartEmitting, StartTelling,
                Tell, Heartbeat, Emit
  <1>4. \A p \in Publisher : Publish(p) => attached' = attached
    BY DEF Publish
  <1>5. \A p \in Publisher, d \in Consumer : Offer(p, d) => attached' = attached
    BY DEF Offer
  <1>6. Restart \/ UNCHANGED ringVars => attached' \subseteq attached
    BY DEF Restart, ringVars
  <1> QED BY <1>1, <1>3, <1>4, <1>5, <1>6 DEF RingNext

\* However many threads publish, a stream that stands and did not overflow loses no
\* event, gains every event published meanwhile, and begins with every event after its
\* consumer's cursor.  What two publishers can cost a consumer, they cost it between two
\* streams: the cursor of an event offered early leaves an older one behind.
THEOREM StreamsLoseNothing == RingSpec => NothingDropped
  <1>1. RingShape /\ [RingNext]_ringVars =>
          [\A c \in attached' : ~overflowed'[c] =>
             IF c \in attached THEN Reach(c) \cup nextId..(nextId' - 1) \subseteq Reach(c)'
                               ELSE Missing(c) \subseteq Reach(c)']_ringVars
    <2> SUFFICES ASSUME RingShape, [RingNext]_ringVars, NEW c \in attached', ~overflowed'[c]
                 PROVE  IF c \in attached THEN Reach(c) \cup nextId..(nextId' - 1) \subseteq Reach(c)'
                                          ELSE Missing(c) \subseteq Reach(c)'
      OBVIOUS
    <2>1. CASE c \in attached
      <3>1. ASSUME NEW x \in Reach(c) \cup nextId..(nextId' - 1) PROVE x \in Reach(c)'
        <4>1. Reached(c, x) \/ x \in nextId..(nextId' - 1)
          BY ReachIs
        <4>2. Reached(c, x)'
          BY <2>1, <4>1, StandingReaches
        <4> QED BY <4>2, ReachIsAfter
      <3> QED BY <2>1, <3>1
    <2>2. CASE c \notin attached
      <3>1. c \in Consumer /\ Subscribe(c)
        BY <2>2, StandsBySubscribing
      <3>2. \A x \in Missing(c) : Reached(c, x)'
        BY <3>1, SubscribeReaches
      <3> QED BY <2>2, <3>2, ReachIsAfter
    <2> QED BY <2>1, <2>2
  <1> QED BY <1>1, ShapeAlways, PTL DEF RingSpec, NothingDropped

\* A queue holds each event once.
Single(s) == \A i, j \in DOMAIN s : s[i] = s[j] => i = j

\* An event is on its way to a consumer by one way only.
QueuedOnce(c) ==
    /\ Single(batch[c]) /\ Single(pending[c])
    /\ \A i \in DOMAIN batch[c] : \A j \in DOMAIN pending[c] : batch[c][i] # pending[c][j]
    /\ \A p \in Publisher : c \in offered[p] =>
          /\ \A i \in DOMAIN batch[c] : batch[c][i] # offering[p]
          /\ \A i \in DOMAIN pending[c] : pending[c][i] # offering[p]
          /\ \A q \in Publisher : c \in offered[q] /\ offering[q] = offering[p] => q = p

\* A step that adds nothing to a stream leaves each event there once.
LEMMA OnceKept ==
    ASSUME NEW d, QueuedOnce(d), UNCHANGED <<offering, batch[d], pending[d]>>,
           \A p \in Publisher : d \in offered'[p] => d \in offered[p]
    PROVE  QueuedOnce(d)'
  BY SMT DEF QueuedOnce, Single

\* A published id is new.
LEMMA PublishOnce ==
    ASSUME RingShape, NEW p \in Publisher, Publish(p), NEW d \in Consumer, QueuedOnce(d)
    PROVE  QueuedOnce(d)'
  <1>1. /\ offered \in [Publisher -> SUBSET attached] /\ offering \in [Publisher -> Event \cup {0}]
        /\ UNCHANGED <<pending, batch>>
    BY DEF RingShape, RingTypeOK, Publish
  <1>2. /\ offering'[p] = nextId
        /\ \A q \in Publisher : q # p => offered'[q] = offered[q] /\ offering'[q] = offering[q]
    BY <1>1 DEF Publish
  <1>3. /\ \A i \in DOMAIN batch[d] : batch[d][i] # nextId
        /\ \A i \in DOMAIN pending[d] : pending[d][i] # nextId
        /\ \A q \in Publisher : offering[q] # nextId
    BY StreamNumbers, SMT
  <1> QED BY <1>1, <1>2, <1>3, SMT DEF QueuedOnce, Single

\* An offered event leaves its publisher's hands as it enters the queue.
LEMMA OfferOnce ==
    ASSUME RingShape, NEW p \in Publisher, NEW c \in Consumer, Offer(p, c),
           NEW d \in Consumer, QueuedOnce(d)
    PROVE  QueuedOnce(d)'
  <1>1. /\ offered \in [Publisher -> SUBSET attached] /\ pending \in [Consumer -> Seq(Event)]
    BY DEF RingShape, RingTypeOK
  <1>2. /\ UNCHANGED <<offering, batch>> /\ c \in offered[p]
        /\ offered'[p] = offered[p] \ {c}
        /\ \A q \in Publisher : q # p => offered'[q] = offered[q]
    BY <1>1 DEF Offer
  <1>3. CASE d # c
    <2>1. pending'[d] = pending[d]
      BY <1>1, <1>3 DEF Offer
    <2> QED BY <1>2, <2>1, OnceKept
  <1>4. CASE d = c /\ pending'[c] = <<>>
    <2>1. \A i \in DOMAIN pending'[c] : FALSE
      BY <1>4, SMT
    <2>2. Single(pending'[c]) /\ Single(batch[c])
      BY <1>4, <2>1 DEF QueuedOnce, Single
    <2>3. \A q \in Publisher : c \in offered'[q] => c \in offered[q]
      BY <1>2
    <2>4. batch' = batch /\ offering' = offering
      BY <1>2
    <2>5. QueuedOnce(c)'
      BY <1>4, <2>1, <2>2, <2>3, <2>4 DEF QueuedOnce
    <2> QED BY <1>4, <2>5
  <1>5. CASE d = c /\ pending'[c] = Append(pending[c], offering[p])
    <2>1. pending[c] \in Seq(Event) /\ offering[p] \in Event
      BY <1>1, <1>2 DEF RingShape, RingTypeOK, Numbered
    <2> DEFINE last == Len(pending[c]) + 1
    <2>2. /\ DOMAIN pending'[c] = DOMAIN pending[c] \cup {last} /\ last \notin DOMAIN pending[c]
          /\ \A i \in DOMAIN pending[c] : pending'[c][i] = pending[c][i]
          /\ pending'[c][last] = offering[p]
      BY <1>5, <2>1, SMT
    <2> HIDE DEF last
    <2>3. /\ \A i \in DOMAIN batch[c] : batch[c][i] # offering[p]
          /\ \A i \in DOMAIN pending[c] : pending[c][i] # offering[p]
          /\ \A q \in Publisher : q # p /\ c \in offered[q] => offering[q] # offering[p]
      BY <1>2, <1>5 DEF QueuedOnce
    <2>4. Single(pending[c])'
      BY <1>5, <2>2, <2>3, SMT DEF QueuedOnce, Single
    <2>5. \A i \in DOMAIN batch[c] : \A j \in DOMAIN pending'[c] : batch[c][i] # pending'[c][j]
      BY <1>5, <2>2, <2>3, SMT DEF QueuedOnce
    <2>6. \A q \in Publisher : c \in offered'[q] =>
             /\ q # p /\ c \in offered[q]
             /\ \A i \in DOMAIN pending'[c] : pending'[c][i] # offering[q]
      BY <1>2, <1>5, <2>2, <2>3, SMT DEF QueuedOnce
    <2>7. \A q \in Publisher : c \in offered'[q] =>
             /\ \A i \in DOMAIN batch[c] : batch[c][i] # offering[q]
             /\ \A r \in Publisher : c \in offered'[r] /\ offering[r] = offering[q] => r = q
      BY <1>5, <2>6 DEF QueuedOnce
    <2>8. Single(batch[c])
      BY <1>5 DEF QueuedOnce
    <2>9. batch' = batch /\ offering' = offering
      BY <1>2
    <2>10. QueuedOnce(c)'
      BY <2>4, <2>5, <2>6, <2>7, <2>8, <2>9 DEF QueuedOnce
    <2> QED BY <1>5, <2>10
  <1> QED BY <1>1, <1>3, <1>4, <1>5 DEF Offer

\* A backlog holds each id once, and nobody is offering to a new subscriber.
LEMMA SubscribeOnce ==
    ASSUME RingShape, NEW c \in Consumer, Subscribe(c), NEW d \in Consumer, QueuedOnce(d)
    PROVE  QueuedOnce(d)'
  <1>1. /\ offered \in [Publisher -> SUBSET attached] /\ pending \in [Consumer -> Seq(Event)]
    BY DEF RingShape, RingTypeOK
  <1>2. c \notin attached /\ UNCHANGED <<nextId, offering, offered, batch>>
    BY Subscriptions
  <1>3. CASE d # c
    <2>1. pending'[d] = pending[d]
      BY <1>1, <1>3, Subscriptions
    <2> QED BY <1>2, <2>1, OnceKept
  <1>4. CASE d = c
    <2>1. \A q \in Publisher : c \notin offered[q]
      BY <1>1, <1>2
    <2>2. batch[c] = <<>> /\ pending[c] = <<>>
      BY <1>2 DEF RingShape, Held
    <2>3. \A i \in DOMAIN batch[c] : FALSE
      BY <2>2, SMT
    <2>4. Single(pending'[c])
      <3>1. Single(<<>>)
        BY SMT DEF Single
      <3>2. ASSUME cursor[c] \in Event, Resumable(cursor[c]) PROVE Single(Backlog(cursor[c]))
        <4>1. cursor[c] \in Nat /\ nextId \in Nat
          BY <3>2, EventsAreNumbers, StreamNumbers
        <4>2. /\ DOMAIN Backlog(cursor[c]) = 1..(nextId - 1 - cursor[c])
              /\ \A i \in DOMAIN Backlog(cursor[c]) : Backlog(cursor[c])[i] = cursor[c] + i
          BY <3>2, <4>1, BacklogIs
        <4>3. \A i, j \in 1..(nextId - 1 - cursor[c]) : cursor[c] + i = cursor[c] + j => i = j
          BY <4>1, SMT
        <4> QED BY <4>2, <4>3 DEF Single
      <3>3. \/ pending'[c] = <<>>
            \/ cursor[c] \in Event /\ Resumable(cursor[c]) /\ pending'[c] = Backlog(cursor[c])
        BY <1>1, <2>2, Subscriptions
      <3> QED BY <3>1, <3>2, <3>3
    <2> QED BY <1>2, <1>4, <2>1, <2>3, <2>4 DEF QueuedOnce, Single
  <1> QED BY <1>3, <1>4

\* The handler's steps move events along the stream and end it, and never copy one.
LEMMA HandlerOnce ==
    ASSUME RingShape, NEW c \in Consumer, StreamHandler(c) \/ StreamWrite(c) \/ Disconnect(c),
           NEW d \in Consumer, QueuedOnce(d)
    PROVE  QueuedOnce(d)'
  <1>1. RingTypeOK /\ Held(c)
    BY DEF RingShape
  <1>2. CASE Drain(c)
    <2>1. /\ UNCHANGED <<offering, offered>>
          /\ batch'[c] = pending[c] /\ pending'[c] = <<>> /\ batch[c] = <<>>
          /\ \A e \in Consumer : e # c => batch'[e] = batch[e] /\ pending'[e] = pending[e]
      BY <1>1, <1>2 DEF RingTypeOK, Drain, Held
    <2>2. \A i \in DOMAIN pending'[c] : FALSE
      BY <2>1, SMT
    <2>3. CASE d = c
      BY <2>1, <2>2, <2>3, SMT DEF QueuedOnce, Single
    <2>4. CASE d # c
      BY <2>1, <2>4, OnceKept
    <2> QED BY <2>3, <2>4
  <1>3. CASE Emit(c)
    <2>1. UNCHANGED <<offering, offered, pending>>
      BY <1>3 DEF Emit
    <2>2. CASE d = c
      <3>1. /\ DOMAIN batch'[c] \subseteq Nat
            /\ \A i \in DOMAIN batch'[c] : i + 1 \in DOMAIN batch[c] /\ batch'[c][i] = batch[c][i + 1]
        BY <1>3, Emitted, SMT
      <3>2. \A i, j \in DOMAIN batch'[c] : i + 1 = j + 1 => i = j
        BY <3>1, SMT
      <3>3. Single(batch'[c])
        BY <2>2, <3>1, <3>2, SMT DEF QueuedOnce, Single
      <3> QED BY <2>1, <2>2, <3>1, <3>3, SMT DEF QueuedOnce, Single
    <2>3. CASE d # c
      <3>1. batch'[d] = batch[d]
        BY <1>1, <1>3, <2>3, Emitted, SMT DEF RingTypeOK
      <3> QED BY <2>1, <3>1, OnceKept
    <2> QED BY <2>2, <2>3
  <1>4. CASE Turns(c)
    BY <1>4, Turned, OnceKept
  <1>5. CASE Detach(c) /\ UNCHANGED offering
    <2>1. \A q \in Publisher : offered'[q] \subseteq offered[q]
      BY <1>5 DEF Detach
    <2>2. CASE d = c
      <3>1. batch'[c] = <<>> /\ pending'[c] = <<>>
        BY <1>1, <1>5 DEF RingTypeOK, Detach
      <3>2. DOMAIN batch'[c] = {} /\ DOMAIN pending'[c] = {}
        BY <3>1, SMT
      <3> QED BY <1>5, <2>1, <2>2, <3>2 DEF QueuedOnce, Single
    <2>3. CASE d # c
      <3>1. batch'[d] = batch[d] /\ pending'[d] = pending[d]
        BY <1>1, <1>5, <2>3 DEF RingTypeOK, Detach
      <3> QED BY <1>5, <2>1, <3>1, OnceKept
    <2> QED BY <2>2, <2>3
  <1> QED BY <1>2, <1>3, <1>4, <1>5 DEF StreamHandler, StreamWrite, Disconnect, Tell, Turns

\* Every step leaves each event once in each stream.
LEMMA OnceStep ==
    RingShape /\ (\A d \in Consumer : QueuedOnce(d)) /\ [RingNext]_ringVars
      => (\A d \in Consumer : QueuedOnce(d))'
  <1> SUFFICES ASSUME RingShape, NEW d \in Consumer, QueuedOnce(d), [RingNext]_ringVars
               PROVE  QueuedOnce(d)'
    OBVIOUS
  <1>1. CASE Restart
    <2>1. /\ batch'[d] = <<>> /\ pending'[d] = <<>> /\ \A p \in Publisher : offered'[p] = {}
      BY <1>1 DEF Restart
    <2>2. DOMAIN batch'[d] = {} /\ DOMAIN pending'[d] = {}
      BY <2>1, SMT
    <2> QED BY <2>1, <2>2 DEF QueuedOnce, Single
  <1>2. CASE UNCHANGED ringVars
    BY <1>2, OnceKept DEF ringVars
  <1> QED BY <1>1, <1>2, PublishOnce, OfferOnce, SubscribeOnce, HandlerOnce DEF RingNext

\* Each event is always on its way by one way only.
LEMMA OnceAlways == RingSpec => [](RingShape /\ \A d \in Consumer : QueuedOnce(d))
  <1>1. RingInit => \A d \in Consumer : QueuedOnce(d)
    BY SMT DEF RingInit, QueuedOnce, Single
  <1> QED BY <1>1, OnceStep, ShapeInit, ShapeStep, PTL DEF RingSpec

\* Only a published event joins a stream that stands.
LEMMA OnlyNewJoins ==
    ASSUME RingShape, [RingNext]_ringVars, NEW c \in attached, c \in attached', NEW x,
           OnItsWay(c, x)'
    PROVE  OnItsWay(c, x) \/ x \in nextId..(nextId' - 1)
  <1>1. c \in Consumer /\ RingTypeOK /\ nextId \in Nat
    BY StreamNumbers DEF RingShape, RingTypeOK
  <1>2. ASSUME UNCHANGED <<offering, batch[c], pending[c]>>,
               \A p \in Publisher : c \in offered'[p] => c \in offered[p]
        PROVE  OnItsWay(c, x)
    BY <1>2 DEF OnItsWay
  <1>3. ASSUME NEW p \in Publisher, Publish(p) PROVE OnItsWay(c, x) \/ x \in nextId..(nextId' - 1)
    <2>1. /\ offering'[p] = nextId /\ nextId \in nextId..(nextId' - 1)
          /\ \A q \in Publisher : q # p => offered'[q] = offered[q] /\ offering'[q] = offering[q]
          /\ UNCHANGED <<pending, batch>>
      BY <1>1, <1>3, SMT DEF RingTypeOK, Publish
    <2> QED BY <2>1 DEF OnItsWay
  <1>4. ASSUME NEW p \in Publisher, NEW d \in Consumer, Offer(p, d) PROVE OnItsWay(c, x)
    <2>1. /\ UNCHANGED <<offering, batch>> /\ d \in offered[p]
          /\ \A q \in Publisher : offered'[q] \subseteq offered[q]
      BY <1>1, <1>4 DEF RingTypeOK, Offer
    <2>2. CASE c # d
      BY <1>1, <1>2, <1>4, <2>1, <2>2 DEF RingTypeOK, Offer
    <2>3. CASE c = d
      <3>1. pending'[c] = <<>> \/ pending'[c] = Append(pending[c], offering[p])
        BY <1>1, <1>4, <2>3 DEF RingTypeOK, Offer
      <3>2. pending[c] \in Seq(Event) /\ offering[p] \in Event
        BY <1>1, <2>1 DEF RingShape, RingTypeOK, Numbered
      <3>3. \A i \in DOMAIN pending'[c] :
               \/ i \in DOMAIN pending[c] /\ pending'[c][i] = pending[c][i]
               \/ pending'[c][i] = offering[p]
        BY <3>1, <3>2, SMT
      <3> QED BY <2>1, <2>3, <3>3 DEF OnItsWay
    <2> QED BY <2>2, <2>3
  <1>5. ASSUME NEW d \in Consumer, Subscribe(d) PROVE OnItsWay(c, x)
    <2>1. c # d /\ UNCHANGED <<offering, offered, batch>>
      BY <1>5, Subscriptions
    <2>2. pending'[c] = pending[c]
      BY <1>1, <1>5, <2>1, Subscriptions DEF RingTypeOK
    <2> QED BY <1>2, <2>1, <2>2
  <1>6. ASSUME NEW d \in Consumer, Drain(d) PROVE OnItsWay(c, x)
    <2>1. /\ UNCHANGED <<offering, offered>>
          /\ batch'[d] = pending[d] /\ pending'[d] = <<>>
          /\ \A e \in Consumer : e # d => batch'[e] = batch[e] /\ pending'[e] = pending[e]
      BY <1>1, <1>6 DEF RingTypeOK, Drain
    <2>2. \A i \in DOMAIN pending'[d] : FALSE
      BY <2>1, SMT
    <2> QED BY <1>1, <2>1, <2>2 DEF OnItsWay
  <1>7. ASSUME NEW d \in Consumer, Emit(d) PROVE OnItsWay(c, x)
    <2>1. UNCHANGED <<offering, offered, pending>>
      BY <1>7 DEF Emit
    <2>2. c # d => batch'[c] = batch[c]
      BY <1>1, <1>7, Emitted, SMT DEF RingTypeOK
    <2>3. \A i \in DOMAIN batch'[d] : i + 1 \in DOMAIN batch[d] /\ batch'[d][i] = batch[d][i + 1]
      BY <1>7, Emitted
    <2> QED BY <2>1, <2>2, <2>3 DEF OnItsWay
  <1>8. ASSUME NEW d \in Consumer, Detach(d), UNCHANGED offering PROVE OnItsWay(c, x)
    <2>1. c # d
      BY <1>8 DEF Detach
    <2>2. /\ batch'[c] = batch[c] /\ pending'[c] = pending[c]
          /\ \A q \in Publisher : offered'[q] \subseteq offered[q]
      BY <1>1, <1>8, <2>1 DEF RingTypeOK, Detach
    <2> QED BY <1>2, <1>8, <2>2
  <1>9. ASSUME NEW d \in Consumer, StreamHandler(d) \/ StreamWrite(d) \/ Disconnect(d)
        PROVE  OnItsWay(c, x)
    <2>1. CASE Turns(d)
      BY <1>2, <2>1, Turned
    <2> QED BY <1>6, <1>7, <1>8, <1>9, <2>1 DEF StreamHandler, StreamWrite, Disconnect, Tell, Turns
  <1>10. CASE Restart
    BY <1>10 DEF Restart
  <1>11. CASE UNCHANGED ringVars
    BY <1>2, <1>11 DEF ringVars
  <1> QED BY <1>3, <1>4, <1>5, <1>9, <1>10, <1>11 DEF RingNext

\* A stream begins with nothing its consumer does not miss.
LEMMA BeginsWithMissing ==
    ASSUME RingShape, NEW c \in Consumer, Subscribe(c), NEW x, OnItsWay(c, x)'
    PROVE  x \in Missing(c)
  <1>1. /\ offered \in [Publisher -> SUBSET attached] /\ pending \in [Consumer -> Seq(Event)]
    BY DEF RingShape, RingTypeOK
  <1>2. c \notin attached /\ UNCHANGED <<nextId, offering, offered, batch>>
    BY Subscriptions
  <1>3. batch[c] = <<>> /\ pending[c] = <<>>
    BY <1>2 DEF RingShape, Held
  <1>4. PICK i \in DOMAIN pending'[c] : pending'[c][i] = x
    <2>1. \A q \in Publisher : c \notin offered[q]
      BY <1>1, <1>2
    <2>2. \A i \in DOMAIN batch[c] : FALSE
      BY <1>3, SMT
    <2> QED BY <1>2, <2>1, <2>2 DEF OnItsWay
  <1>5. pending'[c] # <<>>
    BY <1>4, SMT
  <1>6. cursor[c] \in Event /\ Resumable(cursor[c]) /\ pending'[c] = Backlog(cursor[c])
    <2>1. \/ pending' = pending \/ pending' = [pending EXCEPT ![c] = <<>>]
          \/ /\ cursor[c] \in Event /\ Resumable(cursor[c])
             /\ pending' = [pending EXCEPT ![c] = Backlog(cursor[c])]
      BY Subscriptions
    <2> QED BY <1>1, <1>3, <1>5, <2>1
  <1>7. cursor[c] \in Nat /\ cursor[c] # None /\ nextId \in Nat
    BY <1>6, EventsAreNumbers, StreamNumbers
  <1>8. /\ DOMAIN Backlog(cursor[c]) = 1..(nextId - 1 - cursor[c])
        /\ \A j \in DOMAIN Backlog(cursor[c]) : Backlog(cursor[c])[j] = cursor[c] + j
    BY <1>6, <1>7, BacklogIs
  <1>9. i \in 1..(nextId - 1 - cursor[c]) /\ x = cursor[c] + i
    BY <1>4, <1>6, <1>8
  <1>10. x \in (cursor[c] + 1)..(nextId - 1)
    BY <1>7, <1>9, SMT
  <1> QED BY <1>7, <1>10 DEF Missing

\* However many threads publish, one stream gives its consumer no event twice and none its
\* cursor has passed.  Between two streams it can: a consumer whose cursor is an event
\* offered late, or a heartbeat, resumes before events that it was already given.
THEOREM StreamsGiveOnce == RingSpec => GivenOnce
  <1>1. RingShape /\ (\A d \in Consumer : QueuedOnce(d)) /\ [RingNext]_ringVars =>
          [\A c \in attached' :
             IF c \in attached
             THEN /\ Awaited(c)' \subseteq Awaited(c) \cup nextId..(nextId' - 1)
                  /\ Emit(c) => batch[c][1] \notin Awaited(c)'
             ELSE Awaited(c)' \subseteq Missing(c)]_ringVars
    <2> SUFFICES ASSUME RingShape, \A d \in Consumer : QueuedOnce(d), [RingNext]_ringVars,
                        NEW c \in attached'
                 PROVE  IF c \in attached
                        THEN /\ Awaited(c)' \subseteq Awaited(c) \cup nextId..(nextId' - 1)
                             /\ Emit(c) => batch[c][1] \notin Awaited(c)'
                        ELSE Awaited(c)' \subseteq Missing(c)
      OBVIOUS
    <2>1. \A x : x \in Awaited(c)' <=> OnItsWay(c, x)'
      BY DEF Awaited, OnItsWay, Range
    <2>2. CASE c \notin attached
      <3>1. c \in Consumer /\ Subscribe(c)
        BY <2>2, StandsBySubscribing
      <3>2. \A x : OnItsWay(c, x)' => x \in Missing(c)
        BY <3>1, BeginsWithMissing
      <3> QED BY <2>1, <2>2, <3>2
    <2>3. ASSUME c \in attached, Emit(c), NEW x, x = batch[c][1], OnItsWay(c, x)' PROVE FALSE
      <3>1. c \in Consumer /\ QueuedOnce(c)
        BY <2>3 DEF RingShape, RingTypeOK
      <3>2. UNCHANGED <<offering, offered, pending>>
        BY <2>3 DEF Emit
      <3>3. /\ 1 \in DOMAIN batch[c] /\ DOMAIN batch'[c] = 1..(Len(batch[c]) - 1)
            /\ \A i \in DOMAIN batch'[c] : i + 1 \in DOMAIN batch[c] /\ batch'[c][i] = batch[c][i + 1]
        BY <2>3, <3>1, Emitted
      <3>4. \A i \in DOMAIN batch'[c] : i + 1 # 1
        BY <3>3, SMT
      <3>5. \A i \in DOMAIN batch'[c] : batch'[c][i] # batch[c][1]
        BY <3>1, <3>3, <3>4, ZenonT(30) DEF QueuedOnce, Single
      <3> QED BY <2>3, <3>1, <3>2, <3>3, <3>5 DEF QueuedOnce, OnItsWay
    <2>4. CASE c \in attached
      <3>1. \A x : OnItsWay(c, x)' => OnItsWay(c, x) \/ x \in nextId..(nextId' - 1)
        BY <2>4, OnlyNewJoins
      <3>2. Awaited(c)' \subseteq Awaited(c) \cup nextId..(nextId' - 1)
        BY <2>1, <3>1, AwaitedIs
      <3>3. Emit(c) => batch[c][1] \notin Awaited(c)'
        BY <2>1, <2>3, <2>4
      <3> QED BY <2>4, <3>2, <3>3
    <2> QED BY <2>2, <2>4
  <1> QED BY <1>1, OnceAlways, PTL DEF RingSpec, GivenOnce
=============================================================================
