----------------------------- MODULE EventRing ------------------------------
(***************************************************************************)
(* cs71d/events.py and the stream handler of cs71d/api.py: a bounded ring  *)
(* of daemon events, offered without blocking to bounded subscribers, each *)
(* of which one handler thread empties into one consumer's connection.     *)
(*                                                                         *)
(* Publishers are the threads that publish: the serial worker, and the API *)
(* threads that admit and settle operations.  publish numbers and retains  *)
(* an event under the ring's lock, and offers it after releasing the lock. *)
(* A consumer resumes after the event_id of the last frame it was given, a *)
(* heartbeat's included.  known is what the stream no longer owes it: the  *)
(* events it was given, and, when it asked for the live position, those    *)
(* published before it subscribed.  The snapshot a consumer reads is a     *)
(* separate request, and no part of this module.                           *)
(***************************************************************************)
EXTENDS Naturals, Sequences, FiniteSets, Functions

CONSTANTS
    Publisher,            \* threads that publish
    Consumer,             \* stream consumers
    None,                 \* no cursor
    Retention,            \* retention
    SubscriberCapacity,   \* subscriber_capacity
    MaxEvents,            \* bound: events published in one life of the daemon
    MaxLives              \* bound: lives of the daemon

ASSUME RingAssumption ==
    /\ Retention \in Nat \ {0} /\ SubscriberCapacity \in Nat \ {0}
    /\ MaxEvents \in Nat \ {0} /\ MaxLives \in Nat \ {0}
    /\ None \notin Nat

VARIABLES
    life,        \* the daemon's current life
    nextId,      \* _next_id
    retained,    \* _retained, by event id
    offering,    \* the event each publisher is handing out
    offered,     \* the subscribers it still has to offer it to
    attached,    \* the consumers with a subscriber in _subscribers
    pending,     \* _pending of each consumer's subscriber
    overflowed,  \* _overflowed of each consumer's subscriber
    handler,     \* where the stream handler is
    batch,       \* the drained events it has yet to emit
    cursor,      \* the id a consumer would resume after
    basis,       \* the life in which it last asked for the live position
    known        \* events of this life the stream no longer owes it

ringVars == <<life, nextId, retained, offering, offered, attached, pending,
              overflowed, handler, batch, cursor, basis, known>>

Event == 1..MaxEvents

RingTypeOK ==
    /\ life \in 1..MaxLives
    /\ nextId \in 1..(MaxEvents + 1)
    /\ retained \in Seq(Event) /\ Len(retained) <= Retention
    /\ offering \in [Publisher -> Event \cup {0}]
    /\ offered \in [Publisher -> SUBSET attached]
    /\ attached \subseteq Consumer
    /\ pending \in [Consumer -> Seq(Event)]
    /\ \A c \in Consumer : Len(pending[c]) <= SubscriberCapacity
    /\ overflowed \in [Consumer -> BOOLEAN]
    /\ handler \in [Consumer -> {"off", "loop", "drained", "emitting", "telling"}]
    /\ batch \in [Consumer -> Seq(Event)]
    /\ cursor \in [Consumer -> Event \cup {None}]
    /\ basis \in [Consumer -> 1..MaxLives]
    /\ known \in [Consumer -> SUBSET Event]

\* The domain publishes its session's first transition before the API serves a
\* stream, so a life begins with one event.
RingInit ==
    /\ life = 1 /\ nextId = 2 /\ retained = <<1>>
    /\ offering = [p \in Publisher |-> 0] /\ offered = [p \in Publisher |-> {}]
    /\ attached = {}
    /\ pending = [c \in Consumer |-> <<>>]
    /\ overflowed = [c \in Consumer |-> FALSE]
    /\ handler = [c \in Consumer |-> "off"]
    /\ batch = [c \in Consumer |-> <<>>]
    /\ known = [c \in Consumer |-> {}]
    /\ cursor = [c \in Consumer |-> None]
    /\ basis = [c \in Consumer |-> 1]

-----------------------------------------------------------------------------
(* publish and _Subscriber.offer *)

\* Under the ring's lock.
Publish(p) ==
    /\ offered[p] = {} /\ nextId <= MaxEvents
    /\ nextId' = nextId + 1
    /\ LET all == Append(retained, nextId)
       IN  retained' = IF Len(all) > Retention THEN Tail(all) ELSE all
    /\ offering' = [offering EXCEPT ![p] = nextId]
    /\ offered' = [offered EXCEPT ![p] = attached]
    /\ UNCHANGED <<life, attached, pending, overflowed, handler, batch, cursor,
                   basis, known>>

\* Mutant: off by one, a full queue takes one more.
OfferOverCapacity(p, c) ==
    /\ c \in offered[p]
    /\ offered' = [offered EXCEPT ![p] = @ \ {c}]
    /\ IF Len(pending[c]) > SubscriberCapacity
       THEN /\ pending' = [pending EXCEPT ![c] = <<>>]
            /\ overflowed' = [overflowed EXCEPT ![c] = TRUE]
       ELSE /\ pending' = [pending EXCEPT ![c] = Append(@, offering[p])]
            /\ UNCHANGED overflowed
    /\ UNCHANGED <<life, nextId, retained, offering, attached, handler, batch,
                   cursor, basis, known>>

\* Under the subscriber's condition, after the ring's lock was released.
Offer(p, c) ==
    /\ c \in offered[p]
    /\ offered' = [offered EXCEPT ![p] = @ \ {c}]
    /\ IF Len(pending[c]) >= SubscriberCapacity
       THEN /\ pending' = [pending EXCEPT ![c] = <<>>]
            /\ overflowed' = [overflowed EXCEPT ![c] = TRUE]
       ELSE /\ pending' = [pending EXCEPT ![c] = Append(@, offering[p])]
            /\ UNCHANGED overflowed
    /\ UNCHANGED <<life, nextId, retained, offering, attached, handler, batch,
                   cursor, basis, known>>

-----------------------------------------------------------------------------
(* subscribe, prime and mark_overflowed *)

OldestRetained == IF retained = <<>> THEN nextId ELSE Head(retained)

\* The retained events from an id on.  The ring holds them in the order of their
\* ids, so they are what follows some place in it.
RetainedFrom(id) ==
    LET place == CHOOSE n \in 0..Len(retained) :
                     \A i \in DOMAIN retained : i > n <=> retained[i] >= id
    IN SubSeq(retained, place + 1, Len(retained))

\* Mutant: off by one, the event the consumer already has is sent again.
BacklogFrom(after) == RetainedFrom(after)

\* Mutant: a backlog that does not fit is cut to its newest events.
BacklogThatFits(after) ==
    RetainedFrom(IF after + 1 + SubscriberCapacity < nextId THEN nextId - SubscriberCapacity
                 ELSE after + 1)

Backlog(after) == RetainedFrom(after + 1)

\* A cursor the ring can resume from without skipping an event.
Resumable(after) == after < nextId /\ after + 1 >= OldestRetained

\* A consumer without a cursor asks for the live position.
Subscribe(c) ==
    /\ c \notin attached
    /\ attached' = attached \cup {c} /\ handler' = [handler EXCEPT ![c] = "loop"]
    /\ LET after  == cursor[c]
           primed == Resumable(after) /\ Len(Backlog(after)) <= SubscriberCapacity
       IN IF after = None
          THEN /\ known' = [known EXCEPT ![c] = 1..(nextId - 1)]
               /\ basis' = [basis EXCEPT ![c] = life]
               /\ UNCHANGED <<pending, overflowed>>
          ELSE /\ pending' = [pending EXCEPT ![c] = IF primed THEN Backlog(after) ELSE <<>>]
               /\ overflowed' = [overflowed EXCEPT ![c] = ~primed]
               /\ UNCHANGED <<known, basis>>
    /\ UNCHANGED <<life, nextId, retained, offering, offered, batch, cursor>>

-----------------------------------------------------------------------------
(* _stream: the handler's loop *)

\* The subscriber is closed and leaves the ring with whatever it still held.
Detach(c) ==
    /\ attached' = attached \ {c}
    /\ offered' = [p \in Publisher |-> offered[p] \ {c}]
    /\ pending' = [pending EXCEPT ![c] = <<>>]
    /\ overflowed' = [overflowed EXCEPT ![c] = FALSE]
    /\ handler' = [handler EXCEPT ![c] = "off"]
    /\ batch' = [batch EXCEPT ![c] = <<>>]

\* drain, which comes back with nothing when it times out.
Drain(c) ==
    /\ handler[c] = "loop" /\ ~overflowed[c]
    /\ batch' = [batch EXCEPT ![c] = pending[c]]
    /\ pending' = [pending EXCEPT ![c] = <<>>]
    /\ handler' = [handler EXCEPT ![c] = "drained"]
    /\ UNCHANGED <<life, nextId, retained, offering, offered, attached, overflowed,
                   cursor, basis, known>>

\* The second look at overflowed, before the batch is written.
StartEmitting(c) ==
    /\ handler[c] = "drained" /\ ~overflowed[c]
    /\ handler' = [handler EXCEPT ![c] = "emitting"]
    /\ UNCHANGED <<life, nextId, retained, offering, offered, attached, pending,
                   overflowed, batch, cursor, basis, known>>

\* Mutant: only the look after a drain notices that the subscriber is lost.
StartTellingAfterDrain(c) ==
    /\ handler[c] = "drained" /\ overflowed[c]
    /\ handler' = [handler EXCEPT ![c] = "telling"]
    /\ UNCHANGED <<life, nextId, retained, offering, offered, attached, pending,
                   overflowed, batch, cursor, basis, known>>

\* Either look at overflowed finds the subscriber lost.
StartTelling(c) ==
    /\ handler[c] \in {"loop", "drained"} /\ overflowed[c]
    /\ handler' = [handler EXCEPT ![c] = "telling"]
    /\ UNCHANGED <<life, nextId, retained, offering, offered, attached, pending,
                   overflowed, batch, cursor, basis, known>>

\* snapshot.required is written and ends the stream; the consumer forgets its cursor.
Tell(c) ==
    /\ handler[c] = "telling"
    /\ Detach(c)
    /\ cursor' = [cursor EXCEPT ![c] = None]
    /\ UNCHANGED <<life, nextId, retained, offering, basis, known>>

\* A heartbeat's frame has the id 0, and its body the event_id max(0, 1), which the
\* consumer takes for its cursor like any other.
Heartbeat(c) ==
    /\ handler[c] = "emitting" /\ batch[c] = <<>>
    /\ cursor' = [cursor EXCEPT ![c] = 1]
    /\ handler' = [handler EXCEPT ![c] = "loop"]
    /\ UNCHANGED <<life, nextId, retained, offering, offered, attached, pending,
                   overflowed, batch, basis, known>>

Emit(c) ==
    /\ handler[c] = "emitting" /\ batch[c] # <<>>
    /\ LET event == Head(batch[c]) IN
         /\ cursor' = [cursor EXCEPT ![c] = event]
         /\ known' = [known EXCEPT ![c] = @ \cup {event}]
    /\ batch' = [batch EXCEPT ![c] = Tail(@)]
    /\ handler' = [handler EXCEPT ![c] = IF Len(batch[c]) = 1 THEN "loop" ELSE "emitting"]
    /\ UNCHANGED <<life, nextId, retained, offering, offered, attached, pending,
                   overflowed, basis>>

\* The consumer went away, or a write to it failed.
Disconnect(c) ==
    /\ c \in attached
    /\ Detach(c)
    /\ UNCHANGED <<life, nextId, retained, offering, cursor, basis, known>>

-----------------------------------------------------------------------------
\* The daemon restarts.  The ring is in memory; consumers keep their cursors.
Restart ==
    /\ life < MaxLives /\ life' = life + 1
    /\ nextId' = 2 /\ retained' = <<1>>
    /\ offering' = [p \in Publisher |-> 0] /\ offered' = [p \in Publisher |-> {}]
    /\ attached' = {}
    /\ pending' = [c \in Consumer |-> <<>>]
    /\ overflowed' = [c \in Consumer |-> FALSE]
    /\ handler' = [c \in Consumer |-> "off"]
    /\ batch' = [c \in Consumer |-> <<>>]
    /\ known' = [c \in Consumer |-> {}]
    /\ UNCHANGED <<cursor, basis>>

\* The handler's steps that wait for nobody: drain comes back by its timeout.
StreamHandler(c) == Drain(c) \/ StartEmitting(c) \/ StartTelling(c)

\* Its writes, which wait for a consumer that does not read (wfile has no timeout).
StreamWrite(c) == Emit(c) \/ Heartbeat(c) \/ Tell(c)

RingNext ==
    \/ \E p \in Publisher : Publish(p)
    \/ \E p \in Publisher, c \in Consumer : Offer(p, c)
    \/ \E c \in Consumer :
         Subscribe(c) \/ Disconnect(c) \/ StreamHandler(c) \/ StreamWrite(c)
    \/ Restart

\* A publisher that has numbered an event goes on to offer it, and a handler thread
\* keeps running up to its next write.  Nobody has to publish, to subscribe, to stay
\* or to read.
RingSpec ==
    /\ RingInit /\ [][RingNext]_ringVars
    /\ \A p \in Publisher, c \in Consumer : WF_ringVars(Offer(p, c))
    /\ \A c \in Consumer : WF_ringVars(StreamHandler(c))

-----------------------------------------------------------------------------
(* Properties *)

\* The events on their way to a consumer.
Awaited(c) ==
    Range(pending[c]) \cup Range(batch[c])
      \cup {offering[p] : p \in {q \in Publisher : c \in offered[q]}}

\* What a consumer has or is about to be given.
Reach(c) == known[c] \cup Awaited(c)

\* The events a consumer that subscribes now is owed: all after its cursor.
Missing(c) == IF cursor[c] = None THEN {} ELSE (cursor[c] + 1)..(nextId - 1)

\* Loss is always explicit, for a consumer and for all its streams in one life of the
\* daemon: while a stream stands, it has or is about to be given every event published
\* since it asked for the live position (subscribe, publish, offer).
NoSilentLoss ==
    \A c \in attached :
      ~overflowed[c] /\ basis[c] = life => 1..(nextId - 1) \subseteq Reach(c)

\* Within one stream, loss is explicit whatever the publishers do: while it stands and
\* did not overflow, no step drops an event from it and every event published meanwhile
\* joins it; and a stream that begins holds all that follows its consumer's cursor
\* (subscribe, publish, offer, drain, _stream).
NothingDropped ==
    [][\A c \in attached' : ~overflowed'[c] =>
          IF c \in attached THEN Reach(c) \cup nextId..(nextId' - 1) \subseteq Reach(c)'
                            ELSE Missing(c) \subseteq Reach(c)']_ringVars

\* One stream gives no event twice, nor one its consumer's cursor has passed: it begins
\* with nothing but what follows the cursor, only events published meanwhile join it, and
\* an event that is written is on its way no longer (subscribe, drain, _stream's emit).
GivenOnce ==
    [][\A c \in attached' :
         IF c \in attached
         THEN /\ Awaited(c)' \subseteq Awaited(c) \cup nextId..(nextId' - 1)
              /\ Emit(c) => batch[c][1] \notin Awaited(c)'
         ELSE Awaited(c)' \subseteq Missing(c)]_ringVars

\* Whatever is on its way to a consumer that keeps reading arrives, unless the stream
\* ends first: a handler that overflowed, timed out or raced a publisher is never stuck
\* (_stream, offer, drain).  A consumer keeps reading when no write waits for it for ever.
EventsArrive ==
    \A c \in Consumer, e \in Event :
      []<>(handler[c] \notin {"emitting", "telling"}) =>
        (e \in Awaited(c) ~> e \in known[c] \/ c \notin attached)
=============================================================================
