--------------------------- MODULE JournalProofs ----------------------------
(***************************************************************************)
(* Proofs of the safety properties of Journal, for every set of handlers,  *)
(* requests, configuration fields and values, and every bound.             *)
(*                                                                         *)
(* The database and the one that recovery may find instead are both well   *)
(* kept, and the second has everything the first has (Durable): that makes *)
(* a crash at any point harmless.  InOrder says of one handler what its    *)
(* step entitles it to: while it holds the machine lock its operation is   *)
(* on record, the journal is available, and the values it will write back  *)
(* are those in force if it observed this life's generation.               *)
(*                                                                         *)
(* HistoryInv adds in which state each next write finds its operation, so  *)
(* that every history is one the lifecycle allows.                         *)
(***************************************************************************)
EXTENDS Journal, TLAPS

\* Zenon proves most leaves; those that need arithmetic or sequences cite SMT.
USE Zenon

-----------------------------------------------------------------------------
(* The inductive invariant *)

\* Every key names the one operation that was admitted with it.
KeysNameOne(d) ==
    \A k \in Key :
        LET named == {o \in DOMAIN d.operations : d.operations[o].request.key = k}
        IN IF d.keys[k] = None THEN named = {} ELSE named = {d.keys[k].operation}

\* A configuration change that succeeded has its snapshot.
HasSnapshot(d, o) == \E i \in DOMAIN d.configurations : d.configurations[i].operation = o
SuccessIsStored(d) ==
    \A o \in DOMAIN d.operations :
        d.operations[o].request.action = "configure" /\ Last(d.operations[o].trail) = "succeeded"
            => HasSnapshot(d, o)

\* The i-th snapshot is the one that is in force.
Newest(c, i) ==
    /\ i \in DOMAIN c
    /\ \A j \in DOMAIN c :
         c[j].generation < c[i].generation \/ (c[j].generation = c[i].generation /\ j <= i)

\* A well kept database: keys name one operation, successes are stored, and there is a
\* configuration in force once there is any.
Kept(d) ==
    /\ d \in Database /\ KeysNameOne(d) /\ SuccessIsStored(d)
    /\ d.configurations # <<>> => \E i \in DOMAIN d.configurations : Newest(d.configurations, i)

\* Everything in d is still in e, and transitions were only added.
Grows(d, e) ==
    /\ Len(d.operations) <= Len(e.operations)
    /\ \A o \in DOMAIN d.operations :
         /\ o \in DOMAIN e.operations
         /\ e.operations[o].request = d.operations[o].request
         /\ \A i \in DOMAIN d.operations[o].trail :
              /\ i \in DOMAIN e.operations[o].trail
              /\ e.operations[o].trail[i] = d.operations[o].trail[i]
    /\ \A i \in DOMAIN d.configurations :
         i \in DOMAIN e.configurations /\ e.configurations[i] = d.configurations[i]

\* Both databases that recovery may find are well kept, and neither loses a record.
Durable == Kept(db) /\ Kept(doubt) /\ Grows(db, doubt)

\* The steps a handler makes under the machine lock, and those at which its
\* operation is on record.
Locked == {"queued", "accepted", "running", "snapshot", "succeeded"}
Recorded == {"accepted", "running", "snapshot", "succeeded", "enqueue"}

\* What its step entitles a handler to.
InOrder(h) ==
    LET c == call[h] IN
    /\ c.step # "idle" => up /\ c.request \in Request
    /\ c.step \in Locked <=> lock = h
    /\ c.step \in Recorded =>
         /\ c.operation \in DOMAIN db.operations
         /\ db.operations[c.operation].request = c.request
    /\ c.step = "running" => c.request.action \in {"stop", "configure"}
    /\ c.step \in {"read", "snapshot", "succeeded"} => c.request.action = "configure"
    /\ c.step = "enqueue" => c.request.action # "configure"
    /\ c.step = "succeeded" => HasSnapshot(db, c.operation)
    /\ c.step = "read" /\ c.origin = life =>
         c.generation <= generation /\ (c.generation = generation => c.base = Applied)
    /\ c.step \in Locked \ {"succeeded"} /\ c.request.action = "configure" /\ c.origin = life =>
         c.base = Applied

\* The inductive invariant.
JournalInv ==
    /\ JournalTypeOK /\ Durable /\ AnsweredIsRecorded
    /\ peaks \in Seq(Nat)
    /\ \A h \in Handler : InOrder(h)
    /\ lock # None => available
    /\ \A o \in DOMAIN work : db.operations[o].request.action # "configure"
    /\ ~up => lock = None /\ work = <<>> /\ life < bound.lives

-----------------------------------------------------------------------------
(* Sequences *)

\* Appending to a list leaves what it had and adds one element at its end.
LEMMA Appended ==
  ASSUME NEW S, NEW s \in Seq(S), NEW x \in S
  PROVE  /\ Append(s, x) \in Seq(S) /\ Len(Append(s, x)) = Len(s) + 1
         /\ DOMAIN Append(s, x) = DOMAIN s \cup {Len(s) + 1} /\ Len(s) + 1 \notin DOMAIN s
         /\ \A i \in DOMAIN s : Append(s, x)[i] = s[i] /\ i < Len(s) + 1
         /\ Append(s, x)[Len(s) + 1] = x /\ Last(Append(s, x)) = x
         /\ DOMAIN s \subseteq Nat /\ Len(s) \in Nat
<1>1. Len(s) \in Nat /\ DOMAIN s = 1..Len(s)
  BY SMT
<1>2. Append(s, x) \in Seq(S) /\ Len(Append(s, x)) = Len(s) + 1
  BY SMT
<1>3. DOMAIN Append(s, x) = 1..(Len(s) + 1)
  BY <1>2, SMT
<1>4. 1..(Len(s) + 1) = 1..Len(s) \cup {Len(s) + 1}
  BY <1>1, SMT
<1>5. Append(s, x)[Len(s) + 1] = x /\ \A i \in 1..Len(s) : Append(s, x)[i] = s[i]
  BY <1>1, SMT
<1> QED
  BY <1>1, <1>2, <1>3, <1>4, <1>5, SMT DEF Last

\* Replacing one element of a list leaves a list with the others.
LEMMA Replaced ==
  ASSUME NEW S, NEW s \in Seq(S), NEW i \in DOMAIN s, NEW x \in S
  PROVE  /\ [s EXCEPT ![i] = x] \in Seq(S) /\ Len([s EXCEPT ![i] = x]) = Len(s)
         /\ DOMAIN [s EXCEPT ![i] = x] = DOMAIN s
         /\ \A j \in DOMAIN s : [s EXCEPT ![i] = x][j] = IF j = i THEN x ELSE s[j]
BY SMT

-----------------------------------------------------------------------------
(* What the writes do to a well kept database *)

\* A database has what it has.
LEMMA GrowsSelf ==
  ASSUME NEW d \in Database PROVE Grows(d, d)
BY SMT DEF Grows, Database, Row

\* record_admission under a free key.
LEMMA AdmissionKeeps ==
  ASSUME Kept(db), NEW r \in Request, KeyFree(r.key)
  PROVE  /\ Kept(WithAdmission(r)) /\ Grows(db, WithAdmission(r))
         /\ WithAdmission(r).configurations = db.configurations
         /\ Len(db.operations) + 1 \in DOMAIN WithAdmission(r).operations
         /\ WithAdmission(r).operations[Len(db.operations) + 1].request = r
         /\ Len(db.operations) + 1 \in Nat
<1> DEFINE row == [request |-> r, trail |-> <<"queued">>]
           n   == Len(db.operations) + 1
           key == [operation |-> n, live |-> TRUE]
           d   == WithAdmission(r)
<1>1. /\ db = [operations |-> db.operations, keys |-> db.keys,
               configurations |-> db.configurations]
      /\ db.operations \in Seq(Row) /\ db.keys \in [Key -> KeyRow \cup {None}]
      /\ db.configurations \in Seq(Snapshot)
  BY DEF Kept, Database
<1>2. row \in Row /\ row.request = r /\ row.trail = <<"queued">>
  <2>1. <<"queued">> \in Seq(OperationState)
    BY SMT DEF OperationState
  <2> QED
    BY <2>1 DEF Row
<1> DEFINE ops == Append(db.operations, row)
<1>4. /\ ops \in Seq(Row) /\ DOMAIN ops = DOMAIN db.operations \cup {n}
      /\ n \notin DOMAIN db.operations /\ n \in Nat /\ Len(ops) = n
      /\ \A i \in DOMAIN db.operations : ops[i] = db.operations[i]
      /\ ops[n] = row
  BY <1>1, <1>2, Appended, SMT
<1> HIDE DEF ops, row, n
<1>5. /\ d.operations = ops /\ d.configurations = db.configurations
      /\ d.keys = [db.keys EXCEPT ![r.key] = key]
  BY <1>1 DEF WithAdmission, ops, row, n
<1>6. r.key \in Key /\ key \in KeyRow /\ key # None /\ key.operation = n
  <2>1. key \in KeyRow /\ key.operation = n
    BY <1>4 DEF KeyRow
  <2>2. None \notin KeyRow
    BY JournalAssumption DEF KeyRow
  <2> QED
    BY <2>1, <2>2 DEF Key
<1> HIDE DEF key
<1>7. d \in Database
  <2>1. [db.keys EXCEPT ![r.key] = key] \in [Key -> KeyRow \cup {None}]
    BY <1>1, <1>6
  <2> QED
    BY <1>1, <1>4, <2>1 DEF Database, WithAdmission, ops, row, n, key
<1> HIDE DEF d
<1>8. KeysNameOne(d)
  <2> SUFFICES ASSUME NEW k \in Key
               PROVE  LET named == {o \in DOMAIN ops : ops[o].request.key = k}
                      IN IF d.keys[k] = None THEN named = {} ELSE named = {d.keys[k].operation}
    BY <1>5 DEF KeysNameOne
  <2>1. LET named == {o \in DOMAIN db.operations : db.operations[o].request.key = k}
        IN IF db.keys[k] = None THEN named = {} ELSE named = {db.keys[k].operation}
    BY DEF Kept, KeysNameOne
  <2>2. CASE k = r.key
    <3>1. db.keys[k] = None /\ d.keys[k] = key
      BY <1>1, <1>5, <2>2 DEF KeyFree
    <3>2. {o \in DOMAIN ops : ops[o].request.key = k} = {n}
      BY <1>2, <1>4, <2>1, <2>2, <3>1, SMT
    <3> QED
      BY <1>6, <3>1, <3>2
  <2>3. CASE k # r.key
    <3>1. d.keys[k] = db.keys[k]
      BY <1>1, <1>5, <2>3
    <3>2. {o \in DOMAIN ops : ops[o].request.key = k}
            = {o \in DOMAIN db.operations : db.operations[o].request.key = k}
      BY <1>2, <1>4, <2>3
    <3> QED
      BY <2>1, <3>1, <3>2
  <2> QED
    BY <2>2, <2>3
<1>9. SuccessIsStored(d)
  <2>1. Last(row.trail) # "succeeded"
    BY <1>2, SMT DEF Last
  <2> QED
    BY <1>4, <1>5, <2>1, SMT DEF Kept, SuccessIsStored, HasSnapshot
<1>10. Grows(db, d)
  BY <1>1, <1>4, <1>5, SMT DEF Grows, n
<1>11. Kept(d)
  BY <1>5, <1>7, <1>8, <1>9 DEF Kept
<1> QED
  BY <1>2, <1>4, <1>5, <1>10, <1>11 DEF n, d

\* record_transition; a configuration change may only succeed once it is stored.
LEMMA TransitionKeeps ==
  ASSUME Kept(db), NEW o \in DOMAIN db.operations, NEW to \in OperationState,
         to = "succeeded" /\ db.operations[o].request.action = "configure" => HasSnapshot(db, o)
  PROVE  /\ Kept(WithTransition(o, to)) /\ Grows(db, WithTransition(o, to))
         /\ WithTransition(o, to).configurations = db.configurations
         /\ Len(WithTransition(o, to).operations) = Len(db.operations)
<1> DEFINE trail == Append(db.operations[o].trail, to)
           row   == [request |-> db.operations[o].request, trail |-> trail]
           ops   == [db.operations EXCEPT ![o] = row]
           d     == WithTransition(o, to)
<1>1. /\ db.operations \in Seq(Row) /\ db.keys \in [Key -> KeyRow \cup {None}]
      /\ db.configurations \in Seq(Snapshot)
  BY DEF Kept, Database
<1>2. db.operations[o] \in Row /\ db.operations[o].trail \in Seq(OperationState)
      /\ db.operations[o].request \in Request
  <2>1. db.operations[o] \in Row
    BY <1>1, SMT
  <2> QED
    BY <2>1 DEF Row
<1>3. /\ trail \in Seq(OperationState) /\ Last(trail) = to
      /\ \A i \in DOMAIN db.operations[o].trail :
           i \in DOMAIN trail /\ trail[i] = db.operations[o].trail[i]
  BY <1>2, Appended, SMT
<1> HIDE DEF trail
<1>4. row \in Row /\ row.request = db.operations[o].request /\ row.trail = trail
  BY <1>2, <1>3 DEF Row
<1>5. d.keys = db.keys /\ d.configurations = db.configurations /\ d.operations = ops
      /\ d = [db EXCEPT !.operations = ops]
  <2>1. [db.operations[o] EXCEPT !.trail = trail] = row
    BY <1>2, SMT DEF Row
  <2>2. d = [db EXCEPT !.operations = [db.operations EXCEPT ![o] =
               [db.operations[o] EXCEPT !.trail = trail]]]
    BY DEF WithTransition, trail
  <2> HIDE DEF d
  <2>3. d = [db EXCEPT !.operations = ops]
    BY <2>1, <2>2
  <2> QED
    BY <2>3 DEF Kept, Database
<1> HIDE DEF row
<1>6. /\ ops \in Seq(Row) /\ Len(ops) = Len(db.operations) /\ DOMAIN ops = DOMAIN db.operations
      /\ \A j \in DOMAIN db.operations : ops[j] = IF j = o THEN row ELSE db.operations[j]
  BY <1>1, <1>4, Replaced, SMT
<1> HIDE DEF ops
<1>7. d \in Database
  BY <1>1, <1>5, <1>6 DEF Kept, Database
<1> HIDE DEF d
<1>8. KeysNameOne(d)
  <2>1. \A j \in DOMAIN db.operations : ops[j].request = db.operations[j].request
    BY <1>4, <1>6
  <2>2. \A k \in Key : {j \in DOMAIN ops : ops[j].request.key = k}
                       = {j \in DOMAIN db.operations : db.operations[j].request.key = k}
    BY <1>6, <2>1
  <2> QED
    BY <1>5, <2>2 DEF Kept, KeysNameOne
<1>9. SuccessIsStored(d)
  BY <1>3, <1>4, <1>5, <1>6, SMT DEF Kept, SuccessIsStored, HasSnapshot
<1>10. Grows(db, d)
  BY <1>1, <1>3, <1>4, <1>5, <1>6, SMT DEF Grows
<1> QED
  BY <1>5, <1>6, <1>7, <1>8, <1>9, <1>10 DEF Kept, d

\* record_configuration: whatever its generation, one snapshot is in force.
LEMMA SnapshotKeeps ==
  ASSUME Kept(db), NEW o \in Nat, NEW values \in Configuration, NEW g \in Nat
  PROVE  /\ Kept(WithSnapshot(o, values, g)) /\ Grows(db, WithSnapshot(o, values, g))
         /\ HasSnapshot(WithSnapshot(o, values, g), o)
         /\ WithSnapshot(o, values, g).operations = db.operations
<1> DEFINE new == [generation |-> g, values |-> values, operation |-> o]
           n   == Len(db.configurations) + 1
           cs  == Append(db.configurations, new)
           d   == WithSnapshot(o, values, g)
<1>1. /\ db.operations \in Seq(Row) /\ db.keys \in [Key -> KeyRow \cup {None}]
      /\ db.configurations \in Seq(Snapshot)
  BY DEF Kept, Database
<1>2. new \in Snapshot /\ new.operation = o /\ new.generation = g
  BY DEF Snapshot
<1>3. d = [db EXCEPT !.configurations = cs]
  BY DEF WithSnapshot
<1> HIDE DEF new, d
<1>4. /\ cs \in Seq(Snapshot) /\ DOMAIN cs = DOMAIN db.configurations \cup {n}
      /\ n \notin DOMAIN db.configurations /\ n \in Nat /\ cs[n] = new
      /\ \A i \in DOMAIN db.configurations : cs[i] = db.configurations[i] /\ i < n
      /\ DOMAIN db.configurations \subseteq Nat
  BY <1>1, <1>2, Appended, SMT
<1> HIDE DEF cs, n
<1>5. d.keys = db.keys /\ d.configurations = cs /\ d.operations = db.operations
  BY <1>3 DEF Kept, Database
<1>6. d \in Database
  BY <1>1, <1>3, <1>4 DEF Kept, Database
<1>7. HasSnapshot(d, o)
  BY <1>2, <1>4, <1>5 DEF HasSnapshot
<1>8. KeysNameOne(d)
  BY <1>5, SMT DEF Kept, KeysNameOne
<1>9. SuccessIsStored(d)
  BY <1>4, <1>5, SMT DEF Kept, SuccessIsStored, HasSnapshot
<1>10. Grows(db, d)
  BY <1>1, <1>4, <1>5, SMT DEF Grows, Row
<1>11. \E i \in DOMAIN cs : Newest(cs, i)
  <2>0. \A i \in DOMAIN db.configurations : db.configurations[i].generation \in Nat
    <3>1. \A i \in DOMAIN db.configurations : db.configurations[i] \in Snapshot
      BY <1>1, SMT
    <3> QED
      BY <3>1 DEF Snapshot
  <2>1. CASE db.configurations = <<>>
    BY <1>4, <2>1, SMT DEF Newest
  <2>2. CASE db.configurations # <<>>
    <3>1. PICK m \in DOMAIN db.configurations : Newest(db.configurations, m)
      BY <2>2 DEF Kept
    <3>2. CASE db.configurations[m].generation <= g
      <4>1. Newest(cs, n)
        BY <1>2, <1>4, <2>0, <3>1, <3>2, SMT DEF Newest
      <4> QED
        BY <1>4, <4>1
    <3>3. CASE g < db.configurations[m].generation
      <4>1. Newest(cs, m)
        BY <1>2, <1>4, <2>0, <3>1, <3>3 DEF Newest
      <4> QED
        BY <1>4, <4>1
    <3> QED
      BY <2>0, <3>2, <3>3, SMT
  <2> QED
    BY <2>1, <2>2
<1> QED
  BY <1>5, <1>6, <1>7, <1>8, <1>9, <1>10, <1>11 DEF Kept, d

\* The end of a key's window changes neither operations nor configurations.
LEMMA ExpiryKeeps ==
  ASSUME NEW d, Kept(d), NEW k \in Key
  PROVE  /\ Kept(WithExpired(d, k))
         /\ WithExpired(d, k).operations = d.operations
         /\ WithExpired(d, k).configurations = d.configurations
<1> DEFINE row == IF d.keys[k] = None THEN d.keys[k] ELSE [d.keys[k] EXCEPT !.live = FALSE]
           e   == WithExpired(d, k)
<1>1. /\ d \in Database /\ d.operations \in Seq(Row) /\ d.keys \in [Key -> KeyRow \cup {None}]
      /\ d.configurations \in Seq(Snapshot)
  BY DEF Kept, Database
<1>2. e = [d EXCEPT !.keys = [d.keys EXCEPT ![k] = row]]
  BY DEF WithExpired
<1>3. /\ row \in KeyRow \cup {None} /\ (row = None <=> d.keys[k] = None)
      /\ d.keys[k] # None => row.operation = d.keys[k].operation
  <2>1. None \notin KeyRow
    BY JournalAssumption DEF KeyRow
  <2>2. CASE d.keys[k] = None
    BY <2>2
  <2>3. CASE d.keys[k] \in KeyRow
    <3>1. [d.keys[k] EXCEPT !.live = FALSE] \in KeyRow
          /\ [d.keys[k] EXCEPT !.live = FALSE].operation = d.keys[k].operation
      BY <2>3 DEF KeyRow
    <3> QED
      BY <2>1, <2>3, <3>1
  <2> QED
    BY <1>1, <2>2, <2>3
<1> HIDE DEF row, e
<1>4. e.operations = d.operations /\ e.configurations = d.configurations
      /\ e.keys = [d.keys EXCEPT ![k] = row]
  BY <1>1, <1>2 DEF Database
<1>5. e \in Database
  BY <1>1, <1>2, <1>3 DEF Database
<1>6. \A j \in Key : /\ e.keys[j] = None <=> d.keys[j] = None
                     /\ d.keys[j] # None => e.keys[j].operation = d.keys[j].operation
  BY <1>1, <1>3, <1>4
<1>7. KeysNameOne(e)
  BY <1>4, <1>6, SMT DEF Kept, KeysNameOne
<1>8. SuccessIsStored(e)
  BY <1>4 DEF Kept, SuccessIsStored, HasSnapshot
<1> QED
  BY <1>4, <1>5, <1>7, <1>8 DEF Kept, e

-----------------------------------------------------------------------------
(* Transactions, reads and calls *)

\* A transaction leaves its write in the database, or the database as it was and
\* the write at most in doubt.
LEMMA TransactionEnds ==
  ASSUME Durable, NEW outcome \in Outcome, NEW STATE next, Transaction(outcome, next),
         (Kept(next) /\ Grows(db, next)) \/ outcome \in {"not_begun", "not_written"}
  PROVE  /\ Durable' /\ Grows(db, db')
         /\ outcome = "committed" => db' = next
         /\ outcome # "committed" => db' = db
<1>1. \/ outcome = "committed" /\ db' = next /\ doubt' = next
      \/ outcome = "not_committed" /\ db' = db /\ doubt' = next
      \/ outcome \in {"not_begun", "not_written"} /\ db' = db /\ doubt' = doubt
  BY DEF Transaction, Outcome
<1>2. db \in Database /\ Grows(db, db)
  BY GrowsSelf DEF Durable, Kept
<1>3. CASE outcome = "committed" /\ db' = next /\ doubt' = next
  <2>1. Kept(db') /\ Kept(doubt') /\ Grows(db, db')
    BY <1>3
  <2>2. Grows(db', doubt')
    BY <1>3, <2>1, GrowsSelf DEF Kept
  <2> QED
    BY <1>3, <2>1, <2>2 DEF Durable
<1>4. CASE outcome = "not_committed" /\ db' = db /\ doubt' = next
  BY <1>2, <1>4 DEF Durable
<1>5. CASE outcome \in {"not_begun", "not_written"} /\ db' = db /\ doubt' = doubt
  BY <1>2, <1>5 DEF Durable
<1> QED
  BY <1>1, <1>3, <1>4, <1>5

\* A published write is a new generation; one that failed latches the fault.
LEMMA PublishedIs ==
  ASSUME generation \in Nat, available \in BOOLEAN, NEW outcome, Published(outcome) \/ Failed(outcome)
  PROVE  /\ generation' \in Nat /\ generation' >= generation /\ available' \in BOOLEAN
         /\ outcome = "committed" /\ Published(outcome) =>
              generation' = generation + 1 /\ available' = available
<1>1. generation' \in Nat /\ generation' >= generation
  BY SMT DEF Published, Failed, LatchFault
<1>2. available' \in BOOLEAN
  BY DEF Published, Failed, LatchFault
<1> QED
  BY <1>1, <1>2 DEF Published

\* The values in force are a configuration, and change only with the snapshots.
LEMMA AppliedIs ==
  ASSUME Kept(db)
  PROVE  /\ Applied \in Configuration
         /\ db'.configurations = db.configurations => Applied' = Applied
<1>1. Applied \in Configuration
  <2>1. CASE db.configurations = <<>>
    BY <2>1, JournalAssumption DEF Applied, Configuration
  <2>2. CASE db.configurations # <<>>
    <3>1. NewestSnapshot \in DOMAIN db.configurations
      BY <2>2 DEF Kept, NewestSnapshot, Newest
    <3>2. db.configurations[NewestSnapshot] \in Snapshot
      BY <3>1, SMT DEF Kept, Database
    <3> QED
      BY <2>2, <3>2 DEF Applied, Snapshot
  <2> QED
    BY <2>1, <2>2
<1>2. ASSUME db'.configurations = db.configurations PROVE Applied' = Applied
  BY <1>2, SMT DEF Applied, NewestSnapshot
<1> QED
  BY <1>1, <1>2

\* The handler without a request is a handler state, and is idle.
LEMMA NoCallIsCall == NoCall \in Call /\ NoCall.step = "idle"
BY JournalAssumption DEF NoCall, Call, Step, Configuration

\* A client's generation is this life's latest, or was read in an earlier life.
LEMMA ObservedIs ==
  ASSUME JournalTypeOK, peaks \in Seq(Nat), NEW o \in Observed
  PROVE  o[1] \in Nat /\ o[2] \in Nat /\ (o[1] = life => o[2] = generation)
<1>1. life \in Nat /\ generation \in Nat /\ DOMAIN peaks = 1..(life - 1)
  BY JournalAssumption, SMT DEF JournalTypeOK
<1>2. CASE o = <<life, generation>>
  BY <1>1, <1>2
<1>3. ASSUME NEW l \in DOMAIN peaks, NEW g \in generation..peaks[l], o = <<l, g>>
      PROVE  o[1] \in Nat /\ o[2] \in Nat /\ o[1] # life
  BY <1>1, <1>3, SMT
<1> QED
  BY <1>2, <1>3 DEF Observed

\* What a handler holds when it has taken a request: the request as it was sent,
\* nothing read and no operation yet.
LEMMA ReceivedIs ==
  ASSUME JournalTypeOK, peaks \in Seq(Nat), NEW r \in Request, NEW o \in Observed
  PROVE  /\ Received(r, o) \in Call /\ Received(r, o).step = "read"
         /\ Received(r, o).request = r /\ Received(r, o).origin = o[1]
         /\ Received(r, o).generation = o[2]
<1>1. o[1] \in Nat /\ o[2] \in Nat
  BY ObservedIs
<1>2. [f \in Field |-> Default] \in Configuration
  BY JournalAssumption DEF Configuration
<1> QED
  BY <1>1, <1>2 DEF Received, NoCall, Call, Step

\* A call that may take the lock; only a configuration change was made earlier.
LEMMA WaitingIs ==
  ASSUME JournalInv, NEW h \in Handler, NEW c \in Waiting(h)
  PROVE  /\ c \in Call /\ c.step = "read" /\ c.request \in Request /\ up
         /\ call[h].step \in {"idle", "read"} /\ lock # h
         /\ c.request.action = "configure" => c = call[h]
<1>0. JournalTypeOK /\ peaks \in Seq(Nat) /\ InOrder(h) /\ call[h] \in Call
  BY DEF JournalInv, JournalTypeOK
<1>1. CASE call[h].step = "read"
  <2>1. c = call[h]
    BY <1>1, SMT DEF Waiting
  <2> QED
    BY <1>0, <1>1, <2>1 DEF InOrder, Locked
<1>2. CASE call[h].step # "read"
  <2>1. PICK r \in Request, o \in Observed :
          c = Received(r, o) /\ MayReceive(h) /\ r.action # "configure"
    BY <1>2, SMT DEF Waiting
  <2>2. up /\ call[h].step = "idle"
    BY <2>1 DEF MayReceive
  <2> QED
    BY <1>0, <2>1, <2>2, ReceivedIs DEF InOrder, Locked
<1> QED
  BY <1>1, <1>2

-----------------------------------------------------------------------------
(* Handlers under a step *)

\* A handler that the step does not serve stays in order: the journal only grows,
\* and whatever replaces the values it read is a new generation.
LEMMA OthersInOrder ==
  ASSUME JournalInv, NEW g \in Handler, call'[g] = call[g], UNCHANGED <<up, life>>,
         Grows(db, db'), generation' \in Nat, generation' >= generation,
         lock' = g <=> lock = g,
         db'.configurations = db.configurations \/ (generation' > generation /\ lock # g)
  PROVE  InOrder(g)'
<1>1. InOrder(g) /\ call[g] \in Call /\ generation \in Nat /\ Kept(db)
  BY DEF JournalInv, JournalTypeOK, Durable
<1>2. call[g].step \in Recorded =>
        /\ call[g].operation \in DOMAIN db'.operations
        /\ db'.operations[call[g].operation].request = call[g].request
  BY <1>1 DEF InOrder, Grows
<1>3. call[g].step = "succeeded" => HasSnapshot(db', call[g].operation)
  BY <1>1 DEF InOrder, Grows, HasSnapshot
<1>4. call[g].step = "read" /\ call[g].origin = life =>
        /\ call[g].generation <= generation'
        /\ call[g].generation = generation' => call[g].base = Applied'
  <2>1. call[g].generation \in Nat
    BY <1>1 DEF Call
  <2>2. CASE db'.configurations = db.configurations
    BY <1>1, <2>1, <2>2, AppliedIs, SMT DEF InOrder
  <2>3. CASE generation' > generation
    BY <1>1, <2>1, <2>3, SMT DEF InOrder
  <2> QED
    BY <2>2, <2>3
<1>5. call[g].step \in Locked \ {"succeeded"} /\ call[g].request.action = "configure"
        /\ call[g].origin = life => call[g].base = Applied'
  BY <1>1, AppliedIs DEF InOrder
<1> QED
  BY <1>1, <1>2, <1>3, <1>4, <1>5, SMT DEF InOrder

\* A handler whose request is over is in order.
LEMMA IdleInOrder ==
  ASSUME NEW h \in Handler, call'[h] = NoCall, lock' # h
  PROVE  InOrder(h)'
BY NoCallIsCall DEF InOrder, Locked, Recorded

\* What is left of the invariant once a step has been seen to be durable and its
\* handlers to be in order.
LEMMA Conclude ==
  ASSUME JournalInv, Durable', Grows(db, db'), UNCHANGED <<up, life, peaks, bound>>,
         generation' \in Nat, available' \in BOOLEAN, ready' \in BOOLEAN,
         lock' \in Handler \cup {None}, lock' # None => available',
         call' \in [Handler -> Call], \A g \in Handler : InOrder(g)',
         DOMAIN work' \subseteq DOMAIN db'.operations,
         \A o \in DOMAIN work' : /\ work'[o] \in {"waiting", "sent"}
                                 /\ db'.operations[o].request.action # "configure",
         ~up => lock' = None /\ work' = <<>>,
         AnsweredIsRecorded'
  PROVE  JournalInv' /\ Grows(db, db')
<1>1. db' \in Database /\ doubt' \in Database
  BY DEF Durable, Kept
<1>2. JournalTypeOK'
  BY <1>1 DEF JournalInv, JournalTypeOK
<1> QED
  BY <1>2 DEF JournalInv

\* What the worker holds is still recorded in a journal that has grown.
LEMMA WorkRecorded ==
  ASSUME JournalInv, Grows(db, db'), NEW o \in DOMAIN work
  PROVE  /\ o \in DOMAIN db'.operations /\ work[o] \in {"waiting", "sent"}
         /\ db'.operations[o].request.action # "configure"
BY DEF JournalInv, JournalTypeOK, Grows

-----------------------------------------------------------------------------
(* Steps that write nothing *)

\* A step that writes neither the database nor the one in doubt keeps both.
LEMMA NothingWritten ==
  ASSUME JournalInv, UNCHANGED <<db, doubt>>
  PROVE  Durable' /\ Grows(db, db') /\ db'.configurations = db.configurations
BY GrowsSelf DEF JournalInv, Durable, Kept

\* Reading the configuration before the lock writes nothing, and what it read is
\* in force if the generation it goes with is.
LEMMA ReadConfigurationStep ==
  ASSUME JournalInv, NEW h \in Handler, NEW r \in Request, NEW o \in Observed,
         ReadConfiguration(h, r, o), UNCHANGED bound
  PROVE  JournalInv' /\ Grows(db, db')
<1> DEFINE c == [Received(r, o) EXCEPT !.base = Applied]
<1>0. JournalTypeOK /\ peaks \in Seq(Nat) /\ Kept(db) /\ InOrder(h)
  BY DEF JournalInv, Durable
<1>1. /\ call' = [call EXCEPT ![h] = c] /\ r.action = "configure" /\ up /\ call[h].step = "idle"
      /\ UNCHANGED <<db, doubt, up, life, peaks, generation, available, ready, work, lock>>
      /\ answer' = NoAnswer
  BY DEF ReadConfiguration, MayReceive, NoneAnswered
<1>2. /\ c \in Call /\ c.step = "read" /\ c.request = r /\ c.base = Applied
      /\ c.origin = o[1] /\ c.generation = o[2]
  BY <1>0, ReceivedIs, AppliedIs, SMT DEF Call
<1> HIDE DEF c
<1>3. call'[h] = c /\ call' \in [Handler -> Call]
  BY <1>0, <1>1, <1>2 DEF JournalTypeOK
<1>4. Durable' /\ Grows(db, db') /\ Applied' = Applied /\ db'.configurations = db.configurations
  BY <1>0, <1>1, NothingWritten, AppliedIs
<1>5. InOrder(h)'
  <2>1. lock # h /\ (c.origin = life => c.generation = generation) /\ generation \in Nat
    BY <1>0, <1>1, <1>2, ObservedIs DEF InOrder, Locked, JournalTypeOK
  <2> QED
    BY <1>1, <1>2, <1>3, <1>4, <2>1, SMT DEF InOrder, Locked, Recorded
<1>6. ASSUME NEW g \in Handler, g # h PROVE InOrder(g)'
  <2>1. call'[g] = call[g] /\ generation' \in Nat /\ generation' >= generation
    BY <1>0, <1>1, <1>6, SMT DEF JournalTypeOK
  <2> QED
    BY <1>1, <1>4, <2>1, OthersInOrder
<1>7. AnsweredIsRecorded'
  BY <1>1 DEF AnsweredIsRecorded
<1> QED
  <2>1. generation' \in Nat /\ available' \in BOOLEAN /\ ready' \in BOOLEAN
        /\ lock' \in Handler \cup {None}
    BY <1>0, <1>1 DEF JournalTypeOK
  <2>2. (lock' # None => available') /\ (~up => lock' = None /\ work' = <<>>)
    BY <1>1 DEF JournalInv
  <2> QED
    BY <1>1, <1>3, <1>4, <1>5, <1>6, <1>7, <2>1, <2>2, WorkRecorded, Conclude

\* The request of h is over, with or without an answer, and nothing is written.
LEMMA OverUnwritten ==
  ASSUME JournalInv, NEW h \in Handler, up, lock # h, call' = [call EXCEPT ![h] = NoCall],
         UNCHANGED <<db, doubt, up, life, peaks, ready, work, lock, bound>>,
         generation' \in Nat, generation' >= generation, available' \in BOOLEAN,
         lock # None => available', AnsweredIsRecorded'
  PROVE  JournalInv' /\ Grows(db, db')
<1>0. JournalTypeOK
  BY DEF JournalInv
<1>1. call'[h] = NoCall /\ call' \in [Handler -> Call]
  BY <1>0, NoCallIsCall DEF JournalTypeOK
<1>2. Durable' /\ Grows(db, db') /\ db'.configurations = db.configurations
  BY NothingWritten
<1>3. InOrder(h)'
  BY <1>1, IdleInOrder
<1>4. ASSUME NEW g \in Handler, g # h PROVE InOrder(g)'
  <2>1. call'[g] = call[g]
    BY <1>0, <1>4 DEF JournalTypeOK
  <2> QED
    BY <1>2, <2>1, OthersInOrder
<1>5. ready' \in BOOLEAN /\ lock' \in Handler \cup {None}
  BY <1>0 DEF JournalTypeOK
<1> QED
  BY <1>1, <1>2, <1>3, <1>4, <1>5, WorkRecorded, Conclude

\* A request that finds the journal unavailable leaves without a record.
LEMMA UnavailableStep ==
  ASSUME JournalInv, NEW h \in Handler, NEW c \in Waiting(h), Unavailable(h, c), UNCHANGED bound
  PROVE  JournalInv' /\ Grows(db, db')
<1>1. up /\ lock # h
  BY WaitingIs
<1>2. generation \in Nat /\ available \in BOOLEAN
  BY DEF JournalInv, JournalTypeOK
<1>3. generation' \in Nat /\ generation' >= generation
  BY <1>2, SMT DEF Unavailable, RefreshDurability, LatchFault
<1>4. available' \in BOOLEAN
  BY <1>2 DEF Unavailable, RefreshDurability, LatchFault
<1>5. /\ lock = None /\ call' = [call EXCEPT ![h] = NoCall] /\ answer' = NoAnswer
      /\ UNCHANGED <<db, doubt, up, life, peaks, ready, work, lock>>
  BY DEF Unavailable, Refuse, NoneAnswered
<1>6. AnsweredIsRecorded'
  BY <1>5 DEF AnsweredIsRecorded
<1> QED
  BY <1>1, <1>3, <1>4, <1>5, <1>6, OverUnwritten

\* Answering from a known key invents nothing: the operation is the recorded one.
LEMMA ReplayStep ==
  ASSUME JournalInv, NEW h \in Handler, NEW c \in Waiting(h), Replay(h, c), UNCHANGED bound
  PROVE  JournalInv' /\ Grows(db, db')
<1> DEFINE r == c.request
           o == db.keys[c.request.key].operation
<1>1. up /\ lock # h /\ r \in Request
  BY WaitingIs
<1>2. generation \in Nat /\ available \in BOOLEAN /\ (lock # None => available)
  BY DEF JournalInv, JournalTypeOK
<1>3. /\ call' = [call EXCEPT ![h] = NoCall]
      /\ UNCHANGED <<db, doubt, up, life, peaks, generation, available, ready, work, lock>>
      /\ db.keys[r.key] # None
      /\ \/ answer' = NoAnswer
         \/ answer' = [request |-> r, operation |-> o]
            /\ Fingerprint(db.operations[o].request) = Fingerprint(r)
  BY DEF Replay, Answer, Refuse, NoneAnswered, LiveKey, SameRequest
<1>4. o \in DOMAIN db.operations
  <2>1. r.key \in Key /\ KeysNameOne(db)
    BY <1>1 DEF Key, JournalInv, Durable, Kept
  <2> QED
    BY <1>3, <2>1 DEF KeysNameOne
<1> HIDE DEF r, o
<1>5. AnsweredIsRecorded'
  <2>1. CASE answer' = NoAnswer
    BY <2>1 DEF AnsweredIsRecorded
  <2>2. CASE answer' = [request |-> r, operation |-> o]
             /\ Fingerprint(db.operations[o].request) = Fingerprint(r)
    <3>1. answer'.operation = o /\ answer'.request = r /\ db' = db
      BY <1>3, <2>2
    <3> QED
      BY <1>4, <2>2, <3>1 DEF AnsweredIsRecorded, Fingerprint
  <2> QED
    BY <1>3, <2>1, <2>2
<1>6. /\ generation' \in Nat /\ generation' >= generation /\ available' \in BOOLEAN
      /\ lock # None => available'
  BY <1>2, <1>3, SMT
<1> QED
  BY <1>1, <1>3, <1>5, <1>6, OverUnwritten

\* The lock is taken by a call whose generation was compared with the present one.
LEMMA EvaluateStep ==
  ASSUME JournalInv, NEW h \in Handler, NEW c \in Waiting(h), Evaluate(h, c), UNCHANGED bound
  PROVE  JournalInv' /\ Grows(db, db')
<1>0. JournalTypeOK /\ Kept(db)
  BY DEF JournalInv, Durable
<1>1. /\ c \in Call /\ c.step = "read" /\ c.request \in Request /\ up /\ lock = None
      /\ c.request.action = "configure" => c = call[h]
  BY WaitingIs DEF Evaluate
<1>2. generation \in Nat /\ available \in BOOLEAN /\ ready \in BOOLEAN /\ lock # h /\ h # None
      /\ available
  BY <1>1, JournalAssumption DEF JournalInv, JournalTypeOK, Evaluate, RequireDurable
<1>3. UNCHANGED <<db, doubt, up, life, peaks, generation, available, ready, work>>
      /\ answer' = NoAnswer
  BY DEF Evaluate, NoneAnswered, Refuse
<1>4. AnsweredIsRecorded'
  BY <1>3 DEF AnsweredIsRecorded
<1>a. /\ generation' \in Nat /\ generation' >= generation /\ available' \in BOOLEAN
      /\ lock # None => available'
  BY <1>2, <1>3, SMT
<1>5. CASE Refuse(h) /\ UNCHANGED lock
  BY <1>1, <1>2, <1>3, <1>4, <1>5, <1>a, OverUnwritten DEF Refuse
<1>6. CASE Fresh(c) /\ call' = [call EXCEPT ![h] = [c EXCEPT !.step = "queued"]] /\ lock' = h
  <2> DEFINE n == [c EXCEPT !.step = "queued"]
  <2>1. /\ n \in Call /\ n.step = "queued" /\ n.request = c.request /\ n.origin = c.origin
        /\ n.base = c.base
    BY <1>1 DEF Call, Step
  <2> HIDE DEF n
  <2>2. call'[h] = n /\ call' \in [Handler -> Call]
    BY <1>0, <1>6, <2>1 DEF JournalTypeOK, n
  <2>3. Durable' /\ Grows(db, db') /\ Applied' = Applied /\ db'.configurations = db.configurations
    BY <1>0, <1>3, NothingWritten, AppliedIs
  <2>4. c.request.action = "configure" /\ c.origin = life => c.base = Applied
    BY <1>1, <1>6 DEF Fresh, JournalInv, InOrder
  <2>5. InOrder(h)'
    BY <1>1, <1>3, <1>6, <2>1, <2>2, <2>3, <2>4 DEF InOrder, Locked, Recorded
  <2>6. ASSUME NEW g \in Handler, g # h PROVE InOrder(g)'
    <3>1. call'[g] = call[g] /\ (lock' = g <=> lock = g) /\ generation' \in Nat
          /\ generation' >= generation
      BY <1>0, <1>1, <1>2, <1>3, <1>6, <2>6, JournalAssumption, SMT DEF JournalTypeOK
    <3> QED
      BY <1>3, <2>3, <3>1, OthersInOrder
  <2> QED
    BY <1>1, <1>2, <1>3, <1>4, <1>6, <2>2, <2>3, <2>5, <2>6, WorkRecorded, Conclude
<1> QED
  BY <1>5, <1>6 DEF Evaluate

-----------------------------------------------------------------------------
(* Steps that write *)

\* The request of h is over and the lock is free, after a transaction.
LEMMA OverWritten ==
  ASSUME JournalInv, NEW h \in Handler, up, Durable', Grows(db, db'),
         call' = [call EXCEPT ![h] = NoCall], lock \in {h, None}, lock' = None,
         UNCHANGED <<up, life, peaks, ready, work, bound>>,
         generation' \in Nat, generation' >= generation, available' \in BOOLEAN,
         db'.configurations = db.configurations \/ generation' > generation,
         AnsweredIsRecorded'
  PROVE  JournalInv' /\ Grows(db, db')
<1>0. JournalTypeOK /\ None \notin Handler
  BY JournalAssumption DEF JournalInv
<1>1. call'[h] = NoCall /\ call' \in [Handler -> Call]
  BY <1>0, NoCallIsCall DEF JournalTypeOK
<1>2. InOrder(h)'
  BY <1>0, <1>1, IdleInOrder
<1>3. ASSUME NEW g \in Handler, g # h PROVE InOrder(g)'
  <2>1. call'[g] = call[g] /\ lock # g /\ lock' # g
    BY <1>0, <1>3 DEF JournalTypeOK
  <2> QED
    BY <2>1, OthersInOrder
<1>4. ready' \in BOOLEAN
  BY <1>0 DEF JournalTypeOK
<1> QED
  BY <1>1, <1>2, <1>3, <1>4, WorkRecorded, Conclude

\* The request of h goes on under the lock it holds, or leaves the lock, after a
\* transaction that changed no configuration or that published a generation.
LEMMA GoesOn ==
  ASSUME JournalInv, NEW h \in Handler, up, lock = h, lock' \in {h, None},
         Durable', Grows(db, db'), NEW c \in Call, call' = [call EXCEPT ![h] = c],
         UNCHANGED <<up, life, peaks, ready, work, bound, available>>,
         generation' \in Nat, generation' >= generation,
         db'.configurations = db.configurations \/ generation' > generation,
         answer' = NoAnswer, call'[h] = c => InOrder(h)'
  PROVE  JournalInv' /\ Grows(db, db')
<1>0. JournalTypeOK /\ None \notin Handler /\ available
  BY JournalAssumption DEF JournalInv
<1>1. call'[h] = c /\ call' \in [Handler -> Call]
  BY <1>0 DEF JournalTypeOK
<1>2. ASSUME NEW g \in Handler, g # h PROVE InOrder(g)'
  <2>1. call'[g] = call[g] /\ lock # g /\ lock' # g
    BY <1>0, <1>2, SMT DEF JournalTypeOK
  <2> QED
    BY <2>1, OthersInOrder
<1>3. ready' \in BOOLEAN /\ available' \in BOOLEAN /\ lock' \in Handler \cup {None} /\ available'
  BY <1>0 DEF JournalTypeOK
<1>4. AnsweredIsRecorded'
  BY DEF AnsweredIsRecorded
<1> QED
  BY <1>1, <1>2, <1>3, <1>4, WorkRecorded, Conclude

\* The admission transaction, committed, failed or in doubt, adds one operation
\* and its key together.
LEMMA RecordAdmissionStep ==
  ASSUME JournalInv, NEW h \in Handler, NEW outcome \in Outcome, RecordAdmission(h, outcome),
         UNCHANGED bound
  PROVE  JournalInv' /\ Grows(db, db')
<1> DEFINE r == call[h].request
<1>0. JournalTypeOK /\ Durable /\ InOrder(h) /\ call[h] \in Call /\ call[h].step = "queued"
      /\ generation \in Nat /\ available \in BOOLEAN
  BY DEF JournalInv, JournalTypeOK, RecordAdmission
<1>1. up /\ lock = h /\ r \in Request
  BY <1>0 DEF InOrder, Locked
<1>2. /\ Durable' /\ Grows(db, db')
      /\ outcome = "committed" => db' = WithAdmission(r) /\ KeyFree(r.key)
      /\ outcome # "committed" => db' = db
  <2>1. Transaction(outcome, WithAdmission(r)) /\ (KeyFree(r.key) \/ outcome \in {"not_begun", "not_written"})
    BY DEF RecordAdmission
  <2>2. KeyFree(r.key) => Kept(WithAdmission(r)) /\ Grows(db, WithAdmission(r))
    BY <1>0, <1>1, AdmissionKeeps DEF Durable
  <2> QED
    BY <1>0, <2>1, <2>2, TransactionEnds
<1>3. UNCHANGED <<up, life, peaks, ready, work>>
  BY DEF RecordAdmission
<1>4. CASE outcome # "committed"
  <2>1. /\ call' = [call EXCEPT ![h] = NoCall] /\ answer' = NoAnswer /\ lock' = None
        /\ Failed(outcome)
    BY <1>4 DEF RecordAdmission, Refuse, NoneAnswered
  <2>2. generation' \in Nat /\ generation' >= generation /\ available' \in BOOLEAN
    BY <1>0, <2>1, PublishedIs
  <2>3. AnsweredIsRecorded'
    BY <2>1 DEF AnsweredIsRecorded
  <2> QED
    BY <1>1, <1>2, <1>3, <1>4, <2>1, <2>2, <2>3, OverWritten
<1>5. CASE outcome = "committed"
  <2> DEFINE n == Len(db.operations) + 1
             c == [call[h] EXCEPT !.step = "accepted", !.operation = n]
  <2>1. /\ n \in Nat /\ n \in DOMAIN db'.operations /\ db'.operations[n].request = r
        /\ db'.configurations = db.configurations
    BY <1>0, <1>1, <1>2, <1>5, AdmissionKeeps DEF Durable
  <2>2. /\ call' = [call EXCEPT ![h] = c] /\ answer' = NoAnswer
        /\ UNCHANGED <<available, generation, lock>>
    BY <1>5 DEF RecordAdmission, NoneAnswered
  <2> HIDE DEF n
  <2>3. /\ c \in Call /\ c.step = "accepted" /\ c.operation = n /\ c.request = r
        /\ c.base = call[h].base /\ c.origin = call[h].origin
    BY <1>0, <2>1 DEF Call, Step
  <2> HIDE DEF c
  <2>4. Applied' = Applied
    BY <1>0, <2>1, AppliedIs DEF Durable
  <2>5. ASSUME call'[h] = c PROVE InOrder(h)'
    BY <1>0, <1>1, <1>3, <2>1, <2>2, <2>3, <2>4, <2>5 DEF InOrder, Locked, Recorded
  <2>6. generation' \in Nat /\ generation' >= generation
    BY <1>0, <2>2, SMT
  <2> QED
    BY <1>1, <1>2, <1>3, <2>1, <2>2, <2>3, <2>5, <2>6, GoesOn
<1> QED
  BY <1>4, <1>5

\* The next step of an admission, by the request's action.
LEMMA AfterIs ==
  ASSUME NEW action \in Action, NEW s \in {"accepted", "running"},
         s = "running" => action \in {"stop", "configure"}
  PROVE  /\ After(action, s) \in {"enqueue", "running", "snapshot"}
         /\ After(action, s) = "running" => action \in {"stop", "configure"}
         /\ After(action, s) = "snapshot" => action = "configure"
         /\ After(action, s) = "enqueue" => action # "configure"
<1>1. CASE s = "accepted" /\ action \in {"sort", "recover"}
  <2>1. After(action, s) = "enqueue"
    BY <1>1 DEF After
  <2> QED
    BY <1>1, <2>1
<1>2. CASE s = "accepted" /\ action \in {"stop", "configure"}
  <2>1. After(action, s) = "running"
    BY <1>2 DEF After
  <2> QED
    BY <1>2, <2>1
<1>3. CASE s = "running" /\ action = "stop"
  <2>1. After(action, s) = "enqueue"
    BY <1>3 DEF After
  <2> QED
    BY <1>3, <2>1
<1>4. CASE s = "running" /\ action = "configure"
  <2>1. After(action, s) = "snapshot"
    BY <1>4 DEF After
  <2> QED
    BY <1>4, <2>1
<1> QED
  BY <1>1, <1>2, <1>3, <1>4 DEF Action

\* A transition is added to a recorded operation, whatever becomes of the
\* transaction.
LEMMA RecordProgressStep ==
  ASSUME JournalInv, NEW h \in Handler, NEW outcome \in Outcome, RecordProgress(h, outcome),
         UNCHANGED bound
  PROVE  JournalInv' /\ Grows(db, db')
<1> DEFINE s == call[h].step
           o == call[h].operation
           r == call[h].request
           next == After(r.action, s)
<1>0. JournalTypeOK /\ Durable /\ InOrder(h) /\ call[h] \in Call /\ s \in {"accepted", "running"}
      /\ generation \in Nat /\ available \in BOOLEAN
  BY DEF JournalInv, JournalTypeOK, RecordProgress
<1>1. /\ up /\ lock = h /\ r \in Request
      /\ o \in DOMAIN db.operations /\ db.operations[o].request = r
      /\ s = "running" => r.action \in {"stop", "configure"}
  BY <1>0 DEF InOrder, Locked, Recorded
<1>2. /\ Durable' /\ Grows(db, db') /\ db'.configurations = db.configurations
  <2>1. Transaction(outcome, WithTransition(o, s))
    BY DEF RecordProgress
  <2>2. s \in OperationState /\ s # "succeeded"
    BY <1>0 DEF OperationState
  <2>3. /\ Kept(WithTransition(o, s)) /\ Grows(db, WithTransition(o, s))
        /\ WithTransition(o, s).configurations = db.configurations
    BY <1>0, <1>1, <2>2, TransitionKeeps DEF Durable
  <2>4. /\ Durable' /\ Grows(db, db') /\ (outcome = "committed" => db' = WithTransition(o, s))
        /\ (outcome # "committed" => db' = db)
    BY <1>0, <2>1, <2>3, TransactionEnds
  <2> QED
    BY <2>3, <2>4
<1>3. UNCHANGED <<up, life, peaks, ready, work>>
  BY DEF RecordProgress
<1>4. /\ generation' \in Nat /\ generation' >= generation /\ available' \in BOOLEAN
      /\ outcome = "committed" => available' = available
  BY <1>0, PublishedIs DEF RecordProgress
<1>5. CASE outcome # "committed"
  <2>1. call' = [call EXCEPT ![h] = NoCall] /\ answer' = NoAnswer /\ lock' = None
    BY <1>5 DEF RecordProgress, Refuse, NoneAnswered
  <2>2. AnsweredIsRecorded'
    BY <2>1 DEF AnsweredIsRecorded
  <2> QED
    BY <1>1, <1>2, <1>3, <1>4, <2>1, <2>2, OverWritten
<1>6. CASE outcome = "committed"
  <2> DEFINE c == [call[h] EXCEPT !.step = next]
  <2>1. /\ call' = [call EXCEPT ![h] = c] /\ answer' = NoAnswer
        /\ lock' = IF next = "enqueue" THEN None ELSE h
    BY <1>6 DEF RecordProgress, NoneAnswered
  <2>2. /\ next \in {"enqueue", "running", "snapshot"}
        /\ next = "running" => r.action \in {"stop", "configure"}
        /\ next = "snapshot" => r.action = "configure"
        /\ next = "enqueue" => r.action # "configure"
    <3>1. r.action \in Action
      BY <1>1, JournalAssumption
    <3> QED
      BY <1>0, <1>1, <3>1, AfterIs, SMT
  <2> HIDE DEF next
  <2>3. /\ c \in Call /\ c.step = next /\ c.operation = o /\ c.request = r
        /\ c.base = call[h].base /\ c.origin = call[h].origin
    BY <1>0, <2>2 DEF Call, Step
  <2> HIDE DEF c
  <2>4. /\ Applied' = Applied /\ h # None
        /\ o \in DOMAIN db'.operations /\ db'.operations[o].request = r
    BY <1>0, <1>1, <1>2, AppliedIs, JournalAssumption DEF Durable, Grows
  <2>5. r.action = "configure" /\ call[h].origin = life => call[h].base = Applied
    BY <1>0 DEF InOrder, Locked
  <2>6. ASSUME call'[h] = c PROVE InOrder(h)'
    BY <1>1, <1>3, <2>1, <2>2, <2>3, <2>4, <2>5, <2>6 DEF InOrder, Locked, Recorded
  <2> QED
    BY <1>1, <1>2, <1>3, <1>4, <1>6, <2>1, <2>3, <2>6, GoesOn
<1> QED
  BY <1>5, <1>6

\* The values a change writes are its base with the fields it names replaced.
LEMMA ChangesAreConfigured ==
  ASSUME NEW r \in Request, NEW base \in Configuration
  PROVE  WithChanges(base, r.changes) \in Configuration
BY JournalAssumption DEF WithChanges, Configuration

\* A snapshot is stored with values in force and before the success it belongs to.
LEMMA ApplyConfigurationStep ==
  ASSUME JournalInv, NEW h \in Handler, NEW outcome \in Outcome, ApplyConfiguration(h, outcome),
         UNCHANGED bound
  PROVE  JournalInv' /\ Grows(db, db')
<1> DEFINE s == call[h].step
           o == call[h].operation
           r == call[h].request
           values == WithChanges(call[h].base, r.changes)
<1>0. JournalTypeOK /\ Durable /\ InOrder(h) /\ call[h] \in Call /\ s \in {"snapshot", "succeeded"}
      /\ generation \in Nat /\ available \in BOOLEAN
  BY DEF JournalInv, JournalTypeOK, ApplyConfiguration
<1>1. /\ up /\ lock = h /\ r \in Request /\ o \in Nat
      /\ o \in DOMAIN db.operations /\ db.operations[o].request = r
      /\ s = "succeeded" => HasSnapshot(db, o)
  BY <1>0 DEF InOrder, Locked, Recorded, Call
<1>2. values \in Configuration
  BY <1>0, <1>1, ChangesAreConfigured DEF Call
<1> HIDE DEF values
<1>3. /\ Durable' /\ Grows(db, db')
      /\ s = "succeeded" \/ outcome # "committed" => db'.configurations = db.configurations
      /\ s = "snapshot" /\ outcome = "committed" => HasSnapshot(db', o)
  <2>1. CASE s = "snapshot"
    <3>1. Transaction(outcome, WithSnapshot(o, values, generation + 1))
      BY <2>1 DEF ApplyConfiguration, ConfigurationSteps, values
    <3>2. /\ Kept(WithSnapshot(o, values, generation + 1))
          /\ Grows(db, WithSnapshot(o, values, generation + 1))
          /\ HasSnapshot(WithSnapshot(o, values, generation + 1), o)
      BY <1>0, <1>1, <1>2, SnapshotKeeps, SMT DEF Durable
    <3>3. /\ Durable' /\ Grows(db, db')
          /\ (outcome = "committed" => db' = WithSnapshot(o, values, generation + 1))
          /\ (outcome # "committed" => db' = db)
      BY <1>0, <3>1, <3>2, TransactionEnds
    <3> QED
      BY <2>1, <3>2, <3>3
  <2>2. CASE s = "succeeded"
    <3>1. Transaction(outcome, WithTransition(o, "succeeded"))
      BY <2>2 DEF ApplyConfiguration, ConfigurationSteps
    <3>2. /\ Kept(WithTransition(o, "succeeded")) /\ Grows(db, WithTransition(o, "succeeded"))
          /\ WithTransition(o, "succeeded").configurations = db.configurations
      BY <1>0, <1>1, <2>2, TransitionKeeps DEF Durable, OperationState
    <3>3. /\ Durable' /\ Grows(db, db')
          /\ (outcome = "committed" => db' = WithTransition(o, "succeeded"))
          /\ (outcome # "committed" => db' = db)
      BY <1>0, <3>1, <3>2, TransactionEnds
    <3> QED
      BY <2>2, <3>2, <3>3
  <2> QED
    BY <1>0, <2>1, <2>2
<1>4. /\ generation' \in Nat /\ generation' >= generation /\ available' \in BOOLEAN
      /\ outcome = "committed" => available' = available /\ generation' > generation
  BY <1>0, PublishedIs, SMT DEF ApplyConfiguration
<1>5. UNCHANGED <<up, life, peaks, ready, work>>
  BY DEF ApplyConfiguration
<1>6. /\ o \in DOMAIN db'.operations /\ db'.operations[o].request = r
      /\ db'.configurations = db.configurations \/ generation' > generation
  BY <1>1, <1>3, <1>4 DEF Grows
<1>7. CASE outcome # "committed" \/ s = "succeeded"
  <2>1. /\ call' = [call EXCEPT ![h] = NoCall] /\ lock' = None
        /\ answer' \in {NoAnswer, [request |-> r, operation |-> o]}
    BY <1>0, <1>7 DEF ApplyConfiguration, Refuse, NoneAnswered, Answer
  <2>2. AnsweredIsRecorded'
    BY <1>6, <2>1, SMT DEF AnsweredIsRecorded, Fingerprint
  <2> QED
    BY <1>1, <1>3, <1>4, <1>5, <1>6, <2>1, <2>2, OverWritten
<1>8. CASE outcome = "committed" /\ s = "snapshot"
  <2> DEFINE c == [call[h] EXCEPT !.step = "succeeded"]
  <2>1. call' = [call EXCEPT ![h] = c] /\ answer' = NoAnswer /\ lock' = lock
    BY <1>8 DEF ApplyConfiguration, NoneAnswered
  <2>2. c \in Call /\ c.step = "succeeded" /\ c.operation = o /\ c.request = r
    BY <1>0 DEF Call, Step
  <2> HIDE DEF c
  <2>3. r.action = "configure"
    BY <1>0, <1>8 DEF InOrder
  <2>4. ASSUME call'[h] = c PROVE InOrder(h)'
    BY <1>1, <1>3, <1>5, <1>6, <1>8, <2>1, <2>2, <2>3, <2>4 DEF InOrder, Locked, Recorded
  <2> QED
    BY <1>1, <1>3, <1>4, <1>5, <1>6, <1>8, <2>1, <2>2, <2>4, GoesOn
<1> QED
  BY <1>0, <1>7, <1>8

\* Handing the operation to the worker answers with what is on record.
LEMMA EnqueueStep ==
  ASSUME JournalInv, NEW h \in Handler, Enqueue(h), UNCHANGED bound
  PROVE  JournalInv' /\ Grows(db, db')
<1> DEFINE o == call[h].operation
           r == call[h].request
<1>0. JournalTypeOK /\ InOrder(h) /\ call[h].step = "enqueue" /\ None \notin Handler
  BY JournalAssumption DEF JournalInv, Enqueue
<1>1. /\ up /\ lock # h /\ r.action # "configure"
      /\ o \in DOMAIN db.operations /\ db.operations[o].request = r
  BY <1>0 DEF InOrder, Locked, Recorded
<1>2. /\ call' = [call EXCEPT ![h] = NoCall] /\ answer' = [request |-> r, operation |-> o]
      /\ UNCHANGED <<db, doubt, up, life, peaks, generation, available, ready, lock>>
      /\ DOMAIN work' = DOMAIN work \cup {o}
      /\ \A i \in DOMAIN work' : IF i = o THEN work'[i] \in {"waiting", "sent"}
                                          ELSE work'[i] = work[i]
  BY DEF Enqueue, Answer
<1>3. call'[h] = NoCall /\ call' \in [Handler -> Call]
  BY <1>0, <1>2, NoCallIsCall DEF JournalTypeOK
<1>4. Durable' /\ Grows(db, db') /\ db'.configurations = db.configurations
  BY <1>2, NothingWritten
<1>5. InOrder(h)'
  BY <1>1, <1>2, <1>3, IdleInOrder
<1>6. ASSUME NEW g \in Handler, g # h PROVE InOrder(g)'
  <2>1. call'[g] = call[g] /\ generation' \in Nat /\ generation' >= generation
    BY <1>0, <1>2, <1>6, SMT DEF JournalTypeOK
  <2> QED
    BY <1>2, <1>4, <2>1, OthersInOrder
<1>7. /\ generation' \in Nat /\ available' \in BOOLEAN /\ ready' \in BOOLEAN
      /\ lock' \in Handler \cup {None}
      /\ lock' # None => available'
  BY <1>0, <1>2 DEF JournalTypeOK, JournalInv
<1>8. AnsweredIsRecorded'
  BY <1>1, <1>2 DEF AnsweredIsRecorded, Fingerprint
<1>9. ASSUME NEW i \in DOMAIN work'
      PROVE  /\ i \in DOMAIN db'.operations /\ work'[i] \in {"waiting", "sent"}
             /\ db'.operations[i].request.action # "configure"
  BY <1>1, <1>2, <1>4, WorkRecorded
<1> HIDE DEF o, r
<1>a. \A g \in Handler : InOrder(g)'
  BY <1>5, <1>6
<1> QED
  BY <1>1, <1>2, <1>3, <1>4, <1>7, <1>8, <1>9, <1>a, Conclude

\* A transition of a recorded operation, in a transaction of its own.
LEMMA TransitionWritten ==
  ASSUME JournalInv, NEW o \in DOMAIN db.operations, NEW to \in OperationState,
         to # "succeeded" \/ db.operations[o].request.action # "configure",
         NEW outcome \in Outcome, Transaction(outcome, WithTransition(o, to))
  PROVE  /\ Durable' /\ Grows(db, db') /\ db'.configurations = db.configurations
         /\ Len(db'.operations) = Len(db.operations)
<1>1. /\ Kept(WithTransition(o, to)) /\ Grows(db, WithTransition(o, to))
      /\ WithTransition(o, to).configurations = db.configurations
      /\ Len(WithTransition(o, to).operations) = Len(db.operations)
  BY TransitionKeeps DEF JournalInv, Durable
<1>2. /\ Durable' /\ Grows(db, db') /\ (outcome = "committed" => db' = WithTransition(o, to))
      /\ (outcome # "committed" => db' = db)
  BY <1>1, TransactionEnds DEF JournalInv
<1> QED
  BY <1>1, <1>2

\* A worker that refuses an operation leaves it on record.
LEMMA EnqueueRefusedStep ==
  ASSUME JournalInv, NEW h \in Handler, NEW outcome \in Outcome, EnqueueRefused(h, outcome),
         UNCHANGED bound
  PROVE  JournalInv' /\ Grows(db, db')
<1> DEFINE o == call[h].operation
<1>0. JournalTypeOK /\ InOrder(h) /\ call[h].step = "enqueue" /\ lock = None
  BY DEF JournalInv, EnqueueRefused
<1>1. up /\ o \in DOMAIN db.operations
  BY <1>0 DEF InOrder, Recorded
<1>2. /\ call' = [call EXCEPT ![h] = NoCall] /\ answer' = NoAnswer
      /\ UNCHANGED <<up, life, peaks, ready, work, lock>>
  BY DEF EnqueueRefused, Refuse, NoneAnswered
<1>3. Durable' /\ Grows(db, db') /\ db'.configurations = db.configurations
  BY <1>1, TransitionWritten DEF EnqueueRefused, OperationState
<1>4. generation' \in Nat /\ generation' >= generation /\ available' \in BOOLEAN
  BY <1>0, PublishedIs DEF EnqueueRefused, JournalTypeOK
<1>5. AnsweredIsRecorded'
  BY <1>2 DEF AnsweredIsRecorded
<1> QED
  BY <1>0, <1>1, <1>2, <1>3, <1>4, <1>5, OverWritten

\* A step that serves no request: the lock is free and the calls stay.
LEMMA BesideRequests ==
  ASSUME JournalInv, up, lock = None, UNCHANGED <<up, life, peaks, lock, call, bound>>,
         Durable', Grows(db, db'), db'.configurations = db.configurations,
         generation' \in Nat, generation' >= generation, available' \in BOOLEAN,
         ready' \in BOOLEAN, answer' = NoAnswer, DOMAIN work' \subseteq DOMAIN work,
         \A o \in DOMAIN work' : work'[o] \in {"waiting", "sent"}
  PROVE  JournalInv' /\ Grows(db, db')
<1>1. call' \in [Handler -> Call] /\ lock' \in Handler \cup {None}
  BY DEF JournalInv, JournalTypeOK
<1>2. ASSUME NEW g \in Handler PROVE InOrder(g)'
  BY OthersInOrder
<1>3. AnsweredIsRecorded'
  BY DEF AnsweredIsRecorded
<1>4. ASSUME NEW i \in DOMAIN work'
      PROVE  i \in DOMAIN db'.operations /\ db'.operations[i].request.action # "configure"
  BY WorkRecorded
<1> QED
  BY <1>1, <1>2, <1>3, <1>4, Conclude

\* The worker sends and settles only operations that are on record.
LEMMA WorkerStep ==
  ASSUME JournalInv, NEW o \in DOMAIN db.operations, NEW outcome \in Outcome,
         Dispatch(o, outcome) \/ Settle(o, outcome), UNCHANGED bound
  PROVE  JournalInv' /\ Grows(db, db')
<1>0. /\ JournalTypeOK /\ generation \in Nat /\ available \in BOOLEAN /\ ready \in BOOLEAN
      /\ \A i \in DOMAIN work : work[i] \in {"waiting", "sent"}
  BY DEF JournalInv, JournalTypeOK
<1>1. /\ o \in DOMAIN work /\ lock = None /\ answer' = NoAnswer
      /\ UNCHANGED <<up, life, peaks, ready, lock, call>>
  BY DEF Dispatch, Settle, NoneAnswered
<1>2. up /\ db.operations[o].request.action # "configure"
  <2>1. DOMAIN <<>> = {}
    BY SMT
  <2> QED
    BY <1>1, <2>1 DEF JournalInv
<1>3. Durable' /\ Grows(db, db') /\ db'.configurations = db.configurations
  <2>1. CASE Dispatch(o, outcome)
    BY <1>2, <2>1, TransitionWritten DEF Dispatch, OperationState
  <2>2. CASE Settle(o, outcome)
    <3>1. Settled(StateOf(o)) \in OperationState
      BY DEF Settled, OperationState
    <3> QED
      BY <1>2, <2>2, <3>1, TransitionWritten DEF Settle
  <2> QED
    BY <2>1, <2>2
<1>4. generation' \in Nat /\ generation' >= generation /\ available' \in BOOLEAN
  BY <1>0, PublishedIs DEF Dispatch, Settle
<1>5. /\ DOMAIN work' \subseteq DOMAIN work
      /\ \A i \in DOMAIN work' : work'[i] \in {"waiting", "sent"}
  BY <1>0 DEF Dispatch, Settle, WithoutWork
<1>6. ready' \in BOOLEAN
  BY <1>0, <1>1
<1> QED
  BY <1>1, <1>2, <1>3, <1>4, <1>5, <1>6, BesideRequests

\* The machine view changes by itself without touching the database.
LEMMA ViewStep ==
  ASSUME JournalInv, CheckReadiness \/ SessionChange, UNCHANGED bound
  PROVE  JournalInv' /\ Grows(db, db')
<1>0. /\ JournalTypeOK /\ generation \in Nat /\ available \in BOOLEAN /\ ready \in BOOLEAN
      /\ \A i \in DOMAIN work : work[i] \in {"waiting", "sent"}
  BY DEF JournalInv, JournalTypeOK
<1>1. /\ up /\ lock = None /\ answer' = NoAnswer
      /\ UNCHANGED <<db, doubt, up, life, peaks, work, lock, call>>
  BY DEF CheckReadiness, SessionChange, NoneAnswered
<1>2. generation' \in Nat /\ generation' >= generation
  BY <1>0, SMT DEF CheckReadiness, RefreshDurability, LatchFault, SessionChange
<1>3. available' \in BOOLEAN /\ ready' \in BOOLEAN
  BY <1>0 DEF CheckReadiness, RefreshDurability, LatchFault, SessionChange
<1>4. Durable' /\ Grows(db, db') /\ db'.configurations = db.configurations
  BY <1>1, NothingWritten
<1> QED
  BY <1>0, <1>1, <1>2, <1>3, <1>4, BesideRequests

\* A key whose window ends keeps its row.
LEMMA ExpireStep ==
  ASSUME JournalInv, NEW k \in Key, Expire(k), UNCHANGED bound
  PROVE  JournalInv' /\ Grows(db, db')
<1>1. /\ db' = WithExpired(db, k) /\ doubt' = WithExpired(doubt, k) /\ answer' = NoAnswer
      /\ UNCHANGED <<up, life, peaks, generation, available, ready, work, lock, call>>
  BY DEF Expire, memory, NoneAnswered
<1>2. /\ Kept(db') /\ db'.operations = db.operations /\ db'.configurations = db.configurations
      /\ Kept(doubt') /\ doubt'.operations = doubt.operations
      /\ doubt'.configurations = doubt.configurations
  BY <1>1, ExpiryKeeps DEF JournalInv, Durable
<1>3. Grows(db', doubt')
  BY <1>2, SMT DEF JournalInv, Durable, Grows
<1>4. Grows(db, db')
  <2>1. Grows(db, db)
    BY GrowsSelf DEF JournalInv, Durable, Kept
  <2> QED
    BY <1>2, <2>1 DEF Grows
<1>5. /\ generation' \in Nat /\ generation' >= generation /\ available' \in BOOLEAN
      /\ ready' \in BOOLEAN /\ lock' \in Handler \cup {None} /\ call' \in [Handler -> Call]
      /\ lock' # None => available'
      /\ ~up => lock' = None /\ work' = <<>>
  BY <1>1, SMT DEF JournalInv, JournalTypeOK
<1>6. ASSUME NEW g \in Handler PROVE InOrder(g)'
  BY <1>1, <1>2, <1>4, <1>5, OthersInOrder
<1>7. AnsweredIsRecorded'
  BY <1>1 DEF AnsweredIsRecorded
<1>8. Durable'
  BY <1>2, <1>3 DEF Durable
<1> QED
  BY <1>1, <1>4, <1>5, <1>6, <1>7, <1>8, WorkRecorded, Conclude

-----------------------------------------------------------------------------
(* Crash and recovery *)

\* A crash leaves the committed database or the one in doubt, and both are kept.
LEMMA CrashStep ==
  ASSUME JournalInv, Crash, UNCHANGED bound
  PROVE  JournalInv' /\ Grows(db, db')
<1>0. JournalTypeOK /\ None \notin Handler
  BY JournalAssumption DEF JournalInv
<1>1. /\ up' = FALSE /\ available' = TRUE /\ ready' = FALSE /\ work' = <<>> /\ lock' = None
      /\ call' = [h \in Handler |-> NoCall] /\ answer' = NoAnswer /\ life < bound.lives
      /\ UNCHANGED <<db, doubt, life, peaks, generation>>
  BY DEF Crash, NoneAnswered
<1>2. DOMAIN work' = {}
  BY <1>1, SMT
<1>3. up' \in BOOLEAN /\ available' \in BOOLEAN /\ ready' \in BOOLEAN
  BY <1>1
<1>4. call' \in [Handler -> Call] /\ \A h \in Handler : call'[h] = NoCall
  BY <1>1, NoCallIsCall
<1>5. JournalTypeOK'
  BY <1>0, <1>1, <1>2, <1>3, <1>4 DEF JournalTypeOK
<1>6. \A h \in Handler : InOrder(h)'
  BY <1>0, <1>1, <1>4, IdleInOrder
<1>7. AnsweredIsRecorded'
  BY <1>1 DEF AnsweredIsRecorded
<1>8. Durable' /\ Grows(db, db')
  BY <1>1, NothingWritten
<1> QED
  BY <1>1, <1>2, <1>5, <1>6, <1>7, <1>8 DEF JournalInv

\* Recovery finds the database or the one in doubt: both are well kept.
LEMMA RestartStep ==
  ASSUME JournalInv, Restart, UNCHANGED bound
  PROVE  JournalInv' /\ Grows(db, db')
<1>0. JournalTypeOK /\ Durable /\ None \notin Handler /\ ~up /\ lock = None /\ work = <<>>
      /\ life < bound.lives /\ peaks \in Seq(Nat)
  BY JournalAssumption DEF JournalInv, Restart
<1>1. /\ up' = TRUE /\ life' = life + 1 /\ peaks' = Append(peaks, generation)
      /\ db' \in {db, doubt} /\ doubt' = db' /\ generation' = 1 /\ answer' = NoAnswer
      /\ UNCHANGED <<available, ready, work, lock, call>>
  BY DEF Restart, NoneAnswered
<1>2. Kept(db') /\ Kept(doubt') /\ Grows(db', doubt') /\ Grows(db, db')
  BY <1>0, <1>1, GrowsSelf DEF Durable, Kept
<1>3. DOMAIN work' = {}
  BY <1>0, <1>1, SMT
<1>4. life' \in 1..bound.lives /\ peaks' \in Seq(Nat) /\ DOMAIN peaks' = 1..(life' - 1)
  <2>1. bound \in Bounds /\ bound.lives \in Nat /\ life \in 1..bound.lives /\ generation \in Nat
        /\ DOMAIN peaks = 1..(life - 1)
    BY <1>0, JournalAssumption DEF JournalTypeOK
  <2>2. life' \in 1..bound.lives
    BY <1>0, <1>1, <2>1, SMT
  <2>3. peaks' \in Seq(Nat) /\ DOMAIN peaks' = DOMAIN peaks \cup {Len(peaks) + 1}
    BY <1>0, <1>1, <2>1, Appended
  <2>4. Len(peaks) = life - 1
    BY <1>0, <2>1, SMT
  <2>5. 1..(life - 1) \cup {life} = 1..life
    BY <2>1, SMT
  <2> QED
    BY <1>1, <2>1, <2>2, <2>3, <2>4, <2>5, SMT
<1>5. up' \in BOOLEAN
  BY <1>1
<1>6. JournalTypeOK'
  BY <1>0, <1>1, <1>2, <1>3, <1>4, <1>5 DEF JournalTypeOK, Kept
<1>7. ASSUME NEW h \in Handler PROVE InOrder(h)'
  <2>1. call[h].step = "idle"
    BY <1>0 DEF JournalInv, InOrder
  <2> QED
    BY <1>0, <1>1, <2>1 DEF InOrder, Locked, Recorded
<1>8. AnsweredIsRecorded'
  BY <1>1 DEF AnsweredIsRecorded
<1> QED
  BY <1>0, <1>1, <1>2, <1>3, <1>4, <1>6, <1>7, <1>8 DEF JournalInv, Durable

\* An empty database satisfies the invariant.
LEMMA JournalStart == Init => JournalInv
<1> SUFFICES ASSUME Init PROVE JournalInv
  OBVIOUS
<1> USE DEF Init
<1>1. /\ EmptyDatabase.operations = <<>> /\ EmptyDatabase.configurations = <<>>
      /\ EmptyDatabase.keys = [k \in Key |-> None] /\ DOMAIN <<>> = {}
  BY SMT DEF EmptyDatabase
<1>2. EmptyDatabase \in Database
  <2>1. <<>> \in Seq(Row) /\ <<>> \in Seq(Snapshot)
    BY SMT
  <2> QED
    BY <2>1 DEF EmptyDatabase, Database
<1>3. Kept(EmptyDatabase)
  BY <1>1, <1>2 DEF Kept, KeysNameOne, SuccessIsStored
<1>4. Durable
  BY <1>2, <1>3, GrowsSelf DEF Durable
<1>5. up \in BOOLEAN /\ available \in BOOLEAN /\ ready \in BOOLEAN
  OBVIOUS
<1>6. JournalTypeOK
  <2>1. bound \in Bounds /\ bound.lives \in Nat \ {0}
    BY JournalAssumption
  <2> QED
    BY <1>1, <1>2, <1>5, <2>1, NoCallIsCall, SMT DEF JournalTypeOK
<1>7. peaks \in Seq(Nat)
  BY SMT
<1>8. \A h \in Handler : InOrder(h)
  BY NoCallIsCall, JournalAssumption DEF InOrder, Locked, Recorded
<1>9. AnsweredIsRecorded
  BY DEF AnsweredIsRecorded
<1> QED
  BY <1>1, <1>4, <1>6, <1>7, <1>8, <1>9 DEF JournalInv

\* Every step of handlers, worker, monitors and crashes keeps the invariant.
LEMMA JournalStep ==
  ASSUME JournalInv, [Next]_vars
  PROVE  JournalInv' /\ Grows(db, db')
<1>1. CASE UNCHANGED vars
  <2>1. UNCHANGED <<db, doubt, up, life, peaks, generation, available, ready, work, lock, call,
                    answer, bound>>
    BY <1>1 DEF vars, memory
  <2>2. Durable' /\ Grows(db, db') /\ db'.configurations = db.configurations
    BY <2>1, NothingWritten
  <2>3. /\ generation' \in Nat /\ generation' >= generation /\ available' \in BOOLEAN
        /\ ready' \in BOOLEAN /\ lock' \in Handler \cup {None} /\ call' \in [Handler -> Call]
        /\ lock' # None => available'
        /\ ~up => lock' = None /\ work' = <<>>
    BY <2>1, SMT DEF JournalInv, JournalTypeOK
  <2>4. ASSUME NEW g \in Handler PROVE InOrder(g)'
    BY <2>1, <2>2, <2>3, OthersInOrder
  <2>5. AnsweredIsRecorded'
    BY <2>1 DEF JournalInv, AnsweredIsRecorded, Fingerprint
  <2> QED
    BY <2>1, <2>2, <2>3, <2>4, <2>5, WorkRecorded, Conclude
<1> QED
  BY <1>1, ReadConfigurationStep, UnavailableStep, ReplayStep, EvaluateStep,
     RecordAdmissionStep, RecordProgressStep, ApplyConfigurationStep, EnqueueRefusedStep,
     EnqueueStep, WorkerStep, ViewStep, ExpireStep, CrashStep, RestartStep
     DEF Next, Steps

\* The invariant holds in every state of the daemon.
LEMMA JournalAlways == Spec => []JournalInv
<1>1. Init => JournalInv
  BY JournalStart
<1>2. JournalInv /\ [Next]_vars => JournalInv'
  BY JournalStep
<1> QED
  BY <1>1, <1>2, PTL DEF Spec

-----------------------------------------------------------------------------
(* The properties *)

\* The state of the daemon's command path is always well typed.
THEOREM JournalTypeCorrect == Spec => []JournalTypeOK
BY JournalAlways, PTL DEF JournalInv

\* Through resent requests, concurrent threads, failed commits and crashes a key
\* names one operation, which is in the journal with it.
THEOREM KeysAreUnique == Spec => []OneOperationPerKey
<1>1. JournalInv => OneOperationPerKey
  BY DEF JournalInv, Durable, Kept, KeysNameOne, OneOperationPerKey
<1> QED
  BY <1>1, JournalAlways, PTL

\* What a client is told is in the journal, and is its own request, whether it is
\* admitted or replayed from its key.
THEOREM AnswersAreRecorded == Spec => []AnsweredIsRecorded
BY JournalAlways, PTL DEF JournalInv

\* A configuration change on record as succeeded has its values stored.
THEOREM SuccessesAreStored == Spec => []StoredBeforeSuccess
<1>1. JournalInv => StoredBeforeSuccess
  BY DEF JournalInv, Durable, Kept, SuccessIsStored, HasSnapshot, StoredBeforeSuccess, StateOf
<1> QED
  BY <1>1, JournalAlways, PTL

\* A change made against this life's generation writes back no value that another
\* change has replaced.
THEOREM UpdatesAreNotLost == Spec => []NoLostUpdate
<1>1. JournalInv => NoLostUpdate
  BY DEF JournalInv, InOrder, Locked, NoLostUpdate
<1> QED
  BY <1>1, JournalAlways, PTL

\* Whatever a reader could see stays, through any failed commit, crash or recovery.
THEOREM RecordsAreKept == Spec => RecordsOnlyGrow
<1> DEFINE kept == \A o \in DOMAIN db.operations :
                     /\ o \in DOMAIN db'.operations
                     /\ db'.operations[o].request = db.operations[o].request
                     /\ \A i \in DOMAIN db.operations[o].trail :
                          /\ i \in DOMAIN db'.operations[o].trail
                          /\ db'.operations[o].trail[i] = db.operations[o].trail[i]
<1>1. JournalInv /\ [Next]_vars => [kept]_vars
  BY JournalStep DEF Grows
<1> QED
  BY <1>1, JournalAlways, PTL DEF Spec, RecordsOnlyGrow

\* Only record_admission adds an operation, and only while the journal is available;
\* recovery may find one more.
LEMMA AdmittedAvailable ==
  ASSUME JournalInv, [Next]_vars
  PROVE  Len(db'.operations) = Len(db.operations) \/ available \/ ~up
<1>1. ASSUME NEW h \in Handler, NEW outcome \in Outcome, RecordAdmission(h, outcome)
      PROVE  available
  <2>1. lock = h /\ h # None
    BY <1>1, JournalAssumption DEF RecordAdmission, JournalInv, InOrder, Locked
  <2> QED
    BY <2>1 DEF JournalInv
<1>2. ASSUME NEW h \in Handler, NEW outcome \in Outcome,
             RecordProgress(h, outcome) \/ ApplyConfiguration(h, outcome)
      PROVE  available
  <2>1. lock = h /\ h # None
    BY <1>2, JournalAssumption
       DEF RecordProgress, ApplyConfiguration, JournalInv, InOrder, Locked
  <2> QED
    BY <2>1 DEF JournalInv
<1>3. ASSUME NEW h \in Handler, NEW outcome \in Outcome, EnqueueRefused(h, outcome)
      PROVE  Len(db'.operations) = Len(db.operations)
  <2>1. call[h].operation \in DOMAIN db.operations
    BY <1>3 DEF EnqueueRefused, JournalInv, InOrder, Recorded
  <2> QED
    BY <1>3, <2>1, TransitionWritten DEF EnqueueRefused, OperationState
<1>4. ASSUME NEW o \in DOMAIN db.operations, NEW outcome \in Outcome,
             Dispatch(o, outcome) \/ Settle(o, outcome)
      PROVE  Len(db'.operations) = Len(db.operations)
  <2>1. o \in DOMAIN work
    BY <1>4 DEF Dispatch, Settle
  <2>2. db.operations[o].request.action # "configure"
    BY <2>1 DEF JournalInv
  <2>3. Settled(StateOf(o)) \in OperationState /\ "running" \in OperationState
    BY DEF Settled, OperationState
  <2> QED
    BY <1>4, <2>2, <2>3, TransitionWritten DEF Dispatch, Settle
<1>5. ASSUME NEW k \in Key, Expire(k) PROVE db'.operations = db.operations
  BY <1>5, ExpiryKeeps DEF Expire, JournalInv, Durable
<1>6. CASE \E h \in Handler : Enqueue(h) \/ \E c \in Waiting(h) : Unavailable(h, c) \/ Replay(h, c) \/ Evaluate(h, c)
  BY <1>6 DEF Enqueue, Unavailable, Replay, Evaluate
<1>7. CASE \E h \in Handler, r \in Request, o \in Observed : ReadConfiguration(h, r, o)
  BY <1>7 DEF ReadConfiguration
<1>8. CASE CheckReadiness \/ SessionChange \/ Crash \/ UNCHANGED vars
  BY <1>8 DEF CheckReadiness, SessionChange, Crash, vars
<1>9. CASE Restart
  BY <1>9 DEF Restart
<1> QED
  BY <1>1, <1>2, <1>3, <1>4, <1>5, <1>6, <1>7, <1>8, <1>9 DEF Next, Steps

\* While the journal is unavailable, by a latched fault or the storage monitor,
\* nothing is admitted.
THEOREM AdmissionsAreDurable == Spec => NothingAdmittedUndurably
<1>1. JournalInv /\ [Next]_vars =>
        [Len(db'.operations) > Len(db.operations) => available \/ ~up]_vars
  <2> SUFFICES ASSUME JournalInv, [Next]_vars, Len(db'.operations) > Len(db.operations)
               PROVE  available \/ ~up
    OBVIOUS
  <2>1. db.operations \in Seq(Row)
    BY DEF JournalInv, Durable, Kept, Database
  <2> QED
    BY <2>1, AdmittedAvailable, SMT
<1> QED
  BY <1>1, JournalAlways, PTL DEF Spec, NothingAdmittedUndurably

-----------------------------------------------------------------------------
(* The histories of operations *)

\* A history begins with the admission, and every transition in it is one that
\* operations.py allows.
Legal(trail) ==
    /\ trail # <<>> /\ trail[1] = "queued"
    /\ \A i \in DOMAIN trail : i + 1 \in DOMAIN trail => CanTransition(trail[i], trail[i + 1])
Histories(d) == \A o \in DOMAIN d.operations : Legal(d.operations[o].trail)

\* The state in which a handler's next write finds its operation.
Agrees(c, s) ==
    /\ c.step = "accepted" => s = "queued"
    /\ c.step = "running" => s = "accepted"
    /\ c.step \in {"snapshot", "succeeded"} => s = "running"
    /\ c.step = "enqueue" => s = IF c.request.action = "stop" THEN "running" ELSE "accepted"

\* An operation on record is moved on by one handler, or by the worker.
Owned(h) ==
    call[h].step \in Recorded =>
      /\ Agrees(call[h], StateOf(call[h].operation))
      /\ call[h].operation \notin DOMAIN work
      /\ \A g \in Handler : g # h /\ call[g].step \in Recorded
                              => call[g].operation # call[h].operation

\* The worker's operations: the write of RUNNING may have failed for one it took.
WorkInStep ==
    \A o \in DOMAIN work :
      /\ StateOf(o) \in {"accepted", "running"}
      /\ work[o] = "waiting" => StateOf(o) = "accepted"

HistoryInv ==
    Histories(db) /\ Histories(doubt) /\ WorkInStep /\ \A h \in Handler : Owned(h)

\* The transitions this path asks for.
LEMMA LifecycleIs ==
  /\ CanTransition("queued", "accepted") /\ CanTransition("accepted", "running")
  /\ CanTransition("accepted", "cancelled") /\ CanTransition("accepted", "failed")
  /\ CanTransition("running", "succeeded") /\ CanTransition("running", "cancelled")
  /\ \A s \in Terminal : \A t : ~CanTransition(s, t)
<1>1. AllowedTransitions("queued") = {"accepted"} \cup Unresolved
  BY DEF AllowedTransitions
<1>2. AllowedTransitions("accepted") = {"running"} \cup Unresolved
  BY DEF AllowedTransitions
<1>3. AllowedTransitions("running") = {"succeeded"} \cup Unresolved
  BY DEF AllowedTransitions
<1>4. \A s \in Terminal : AllowedTransitions(s) = {}
  BY DEF AllowedTransitions, Terminal
<1> QED
  BY <1>1, <1>2, <1>3, <1>4 DEF CanTransition, Unresolved

\* A legal history stays legal under an allowed transition.
LEMMA LegalAppended ==
  ASSUME NEW t \in Seq(OperationState), NEW to \in OperationState, Legal(t),
         CanTransition(Last(t), to)
  PROVE  Legal(Append(t, to)) /\ Last(Append(t, to)) = to
<1> DEFINE u == Append(t, to)
           n == Len(t)
<1>1. /\ DOMAIN u = DOMAIN t \cup {n + 1} /\ n + 1 \notin DOMAIN t /\ DOMAIN t \subseteq Nat
      /\ \A i \in DOMAIN t : u[i] = t[i] /\ i < n + 1
      /\ u[n + 1] = to /\ Last(u) = to /\ n \in Nat
  BY Appended, SMT
<1>2. 1 \in DOMAIN t /\ n \in DOMAIN t /\ n # 0
  BY SMT DEF Legal
<1>3. u # <<>>
  BY <1>1, <1>2, SMT
<1>4. Last(t) = t[n]
  BY DEF Last
<1> HIDE DEF u, n
<1>5. u[1] = "queued"
  BY <1>1, <1>2 DEF Legal
<1>6. ASSUME NEW i \in DOMAIN u, i + 1 \in DOMAIN u PROVE CanTransition(u[i], u[i + 1])
  <2>1. CASE i + 1 = n + 1
    <3>1. i = n
      BY <1>1, <1>2, <2>1, SMT
    <3> QED
      BY <1>1, <1>2, <1>4, <2>1, <3>1
  <2>2. CASE i + 1 # n + 1
    <3>1. i + 1 \in DOMAIN t
      BY <1>1, <1>6, <2>2, SMT
    <3>2. i \in DOMAIN t
      BY <1>1, <3>1, SMT
    <3> QED
      BY <1>1, <3>1, <3>2 DEF Legal
  <2> QED
    BY <2>1, <2>2
<1> QED
  BY <1>1, <1>3, <1>5, <1>6 DEF Legal, u

\* record_transition appends to one history.
LEMMA TransitionTrails ==
  ASSUME Kept(db), Histories(db), NEW o \in DOMAIN db.operations, NEW to \in OperationState,
         CanTransition(StateOf(o), to)
  PROVE  /\ Histories(WithTransition(o, to))
         /\ Last(WithTransition(o, to).operations[o].trail) = to
         /\ \A j \in DOMAIN db.operations :
              j # o => WithTransition(o, to).operations[j] = db.operations[j]
<1> DEFINE t == db.operations[o].trail
           d == WithTransition(o, to)
           row == [db.operations[o] EXCEPT !.trail = Append(t, to)]
<1>1. db.operations \in Seq(Row) /\ db = [operations |-> db.operations, keys |-> db.keys,
               configurations |-> db.configurations]
  BY DEF Kept, Database
<1>2. db.operations[o] \in Row
  BY <1>1, SMT
<1>3. t \in Seq(OperationState)
  BY <1>2 DEF Row
<1>4. Legal(Append(t, to)) /\ Last(Append(t, to)) = to /\ Append(t, to) \in Seq(OperationState)
  <2>1. Legal(t) /\ CanTransition(Last(t), to)
    BY DEF Histories, StateOf
  <2> QED
    BY <1>3, <2>1, LegalAppended, Appended
<1>5. row \in Row /\ row.trail = Append(t, to)
  BY <1>2, <1>4 DEF Row
<1>6. d.operations = [db.operations EXCEPT ![o] = row]
  BY <1>1 DEF WithTransition
<1> HIDE DEF d, row
<1>7. /\ DOMAIN d.operations = DOMAIN db.operations
      /\ \A j \in DOMAIN db.operations : d.operations[j] = IF j = o THEN row ELSE db.operations[j]
  BY <1>1, <1>5, <1>6, Replaced
<1>8. Histories(d)
  BY <1>4, <1>5, <1>7 DEF Histories
<1> QED
  BY <1>4, <1>5, <1>7, <1>8 DEF d

\* record_admission begins one history.
LEMMA AdmissionTrails ==
  ASSUME Kept(db), Histories(db), NEW r \in Request
  PROVE  /\ Histories(WithAdmission(r))
         /\ Last(WithAdmission(r).operations[Len(db.operations) + 1].trail) = "queued"
         /\ Len(db.operations) + 1 \notin DOMAIN db.operations
         /\ \A j \in DOMAIN db.operations : WithAdmission(r).operations[j] = db.operations[j]
<1> DEFINE row == [request |-> r, trail |-> <<"queued">>]
           n   == Len(db.operations) + 1
           d   == WithAdmission(r)
<1>1. db.operations \in Seq(Row) /\ db = [operations |-> db.operations, keys |-> db.keys,
               configurations |-> db.configurations]
  BY DEF Kept, Database
<1>2. <<"queued">> \in Seq(OperationState)
  BY SMT DEF OperationState
<1>3. row \in Row /\ row.trail = <<"queued">>
  BY <1>2 DEF Row
<1>4. Legal(<<"queued">>) /\ Last(<<"queued">>) = "queued"
  BY SMT DEF Legal, Last
<1>5. d.operations = Append(db.operations, row)
  BY <1>1 DEF WithAdmission
<1> HIDE DEF d, row, n
<1>6. /\ DOMAIN d.operations = DOMAIN db.operations \cup {n} /\ n \notin DOMAIN db.operations
      /\ \A j \in DOMAIN db.operations : d.operations[j] = db.operations[j]
      /\ d.operations[n] = row
  BY <1>1, <1>3, <1>5, Appended, SMT DEF n
<1>7. Histories(d)
  BY <1>3, <1>4, <1>6 DEF Histories
<1> QED
  BY <1>3, <1>4, <1>6, <1>7 DEF d, n

\* A transaction whose write keeps histories legal keeps them so in the database
\* and in what recovery may find instead.
LEMMA TransactionTrails ==
  ASSUME HistoryInv, NEW outcome \in Outcome, NEW STATE next, Transaction(outcome, next),
         Histories(next) \/ outcome \in {"not_begun", "not_written"}
  PROVE  Histories(db)' /\ Histories(doubt)'
<1>1. \/ db' = next /\ doubt' = next /\ Histories(next)
      \/ db' = db /\ doubt' = next /\ Histories(next)
      \/ db' = db /\ doubt' = doubt
  BY DEF Transaction, Outcome
<1>2. Histories(db) /\ Histories(doubt)
  BY DEF HistoryInv
<1> QED
  BY <1>1, <1>2 DEF Histories, Legal

\* A step that appends to no history and hands no operation on.
LEMMA NoHistoryMoves ==
  ASSUME HistoryInv, db'.operations = db.operations, doubt'.operations = doubt.operations,
         UNCHANGED work, \A g \in Handler : call'[g] = call[g] \/ call'[g].step \notin Recorded
  PROVE  HistoryInv'
<1>1. Histories(db)' /\ Histories(doubt)'
  BY DEF HistoryInv, Histories
<1>2. WorkInStep'
  BY DEF HistoryInv, WorkInStep, StateOf
<1>3. ASSUME NEW h \in Handler, call'[h].step \in Recorded
      PROVE  /\ Agrees(call'[h], Last(db'.operations[call'[h].operation].trail))
             /\ call'[h].operation \notin DOMAIN work'
             /\ \A g \in Handler : g # h /\ call'[g].step \in Recorded
                                     => call'[g].operation # call'[h].operation
  BY <1>3 DEF HistoryInv, Owned, StateOf
<1> QED
  BY <1>1, <1>2, <1>3 DEF HistoryInv, Owned, StateOf

\* The handler h writes about the operation o, which nobody else holds, and either
\* lets go of it or goes on from the state it wrote.
LEMMA HandlerMoves ==
  ASSUME JournalInv, HistoryInv, Histories(db)', Histories(doubt)', UNCHANGED work,
         NEW h \in Handler, NEW o, o \notin DOMAIN work,
         \A j \in DOMAIN db.operations : j # o => db'.operations[j] = db.operations[j],
         \A g \in Handler : g # h => /\ call'[g] = call[g]
                                     /\ call[g].step \in Recorded => call[g].operation # o,
         call'[h].step \in Recorded =>
           call'[h].operation = o /\ Agrees(call'[h], Last(db'.operations[o].trail))
  PROVE  HistoryInv'
<1>1. DOMAIN work \subseteq DOMAIN db.operations
  BY DEF JournalInv, JournalTypeOK
<1>2. WorkInStep'
  BY <1>1 DEF HistoryInv, WorkInStep, StateOf
<1>3. ASSUME NEW g \in Handler, call'[g].step \in Recorded
      PROVE  /\ Agrees(call'[g], Last(db'.operations[call'[g].operation].trail))
             /\ call'[g].operation \notin DOMAIN work'
             /\ \A k \in Handler : k # g /\ call'[k].step \in Recorded
                                     => call'[k].operation # call'[g].operation
  <2>1. CASE g = h
    BY <1>3, <2>1
  <2>2. CASE g # h
    <3>1. call'[g] = call[g] /\ call[g].operation # o
      BY <1>3, <2>2
    <3>2. call[g].operation \in DOMAIN db.operations
      BY <1>3, <3>1 DEF JournalInv, InOrder
    <3>3. db'.operations[call[g].operation] = db.operations[call[g].operation]
      BY <3>1, <3>2
    <3>4. Owned(g) /\ \A k \in Handler : k # h => call'[k] = call[k]
      BY DEF HistoryInv
    <3> QED
      BY <1>3, <2>2, <3>1, <3>3, <3>4 DEF Owned, StateOf
  <2> QED
    BY <2>1, <2>2
<1> QED
  BY <1>2, <1>3 DEF HistoryInv, Owned, StateOf

\* Who holds what, for a handler at a recorded step.
LEMMA Holds ==
  ASSUME JournalInv, HistoryInv, NEW h \in Handler, call[h].step \in Recorded
  PROVE  /\ call[h].operation \in DOMAIN db.operations /\ call[h].operation \notin DOMAIN work
         /\ Agrees(call[h], StateOf(call[h].operation))
         /\ \A g \in Handler : g # h /\ call[g].step \in Recorded
                                 => call[g].operation # call[h].operation
         /\ Kept(db) /\ Histories(db)
BY DEF JournalInv, InOrder, Durable, HistoryInv, Owned

\* A handler's transaction moves the operation it holds by an allowed transition,
\* and the handler ends or goes on.
LEMMA HandlerWrites ==
  ASSUME JournalInv, HistoryInv, NEW h \in Handler, call[h].step \in Recorded,
         NEW outcome \in Outcome, NEW to \in OperationState,
         Transaction(outcome, WithTransition(call[h].operation, to)),
         CanTransition(StateOf(call[h].operation), to), UNCHANGED work,
         \A g \in Handler : g # h => call'[g] = call[g],
         call'[h].step \in Recorded =>
           outcome = "committed" /\ call'[h].operation = call[h].operation /\ Agrees(call'[h], to)
  PROVE  HistoryInv'
<1> DEFINE o == call[h].operation
           d == WithTransition(o, to)
<1>1. /\ o \in DOMAIN db.operations /\ o \notin DOMAIN work /\ Kept(db) /\ Histories(db)
      /\ \A g \in Handler : g # h /\ call[g].step \in Recorded => call[g].operation # o
  BY Holds
<1>2. /\ Histories(d) /\ Last(d.operations[o].trail) = to
      /\ \A j \in DOMAIN db.operations : j # o => d.operations[j] = db.operations[j]
  BY <1>1, TransitionTrails
<1>3. Histories(db)' /\ Histories(doubt)'
  BY <1>2, TransactionTrails
<1>4. (outcome = "committed" => db' = d) /\ (outcome # "committed" => db' = db)
  BY DEF Transaction
<1> HIDE DEF o, d
<1>5. \A j \in DOMAIN db.operations : j # o => db'.operations[j] = db.operations[j]
  BY <1>2, <1>4
<1>6. call'[h].step \in Recorded =>
        call'[h].operation = o /\ Agrees(call'[h], Last(db'.operations[o].trail))
  BY <1>2, <1>4 DEF o
<1>7. \A g \in Handler : g # h => /\ call'[g] = call[g]
                                  /\ call[g].step \in Recorded => call[g].operation # o
  BY <1>1
<1> QED
  BY <1>1, <1>3, <1>5, <1>6, <1>7, HandlerMoves, SMT

\* record_admission gives the operation to the handler that recorded it.
LEMMA AdmissionHistory ==
  ASSUME JournalInv, HistoryInv, NEW h \in Handler, NEW outcome \in Outcome,
         RecordAdmission(h, outcome)
  PROVE  HistoryInv'
<1> DEFINE r == call[h].request
           n == Len(db.operations) + 1
           d == WithAdmission(r)
<1>0. /\ call \in [Handler -> Call] /\ call[h].step = "queued" /\ Kept(db) /\ Histories(db)
      /\ DOMAIN work \subseteq DOMAIN db.operations
  BY DEF JournalInv, JournalTypeOK, Durable, HistoryInv, RecordAdmission
<1>1. r \in Request
  BY <1>0 DEF JournalInv, InOrder
<1>2. /\ Histories(d) /\ Last(d.operations[n].trail) = "queued" /\ n \notin DOMAIN db.operations
      /\ \A j \in DOMAIN db.operations : d.operations[j] = db.operations[j]
  BY <1>0, <1>1, AdmissionTrails
<1>3. Transaction(outcome, d) /\ UNCHANGED work
  BY DEF RecordAdmission
<1>4. Histories(db)' /\ Histories(doubt)'
  BY <1>2, <1>3, TransactionTrails
<1>5. (outcome = "committed" => db' = d) /\ (outcome # "committed" => db' = db)
  BY <1>3 DEF Transaction
<1>6. /\ \A g \in Handler : g # h => call'[g] = call[g]
      /\ outcome = "committed" => call'[h].step = "accepted" /\ call'[h].operation = n
      /\ outcome # "committed" => call'[h] = NoCall
  BY <1>0 DEF RecordAdmission, Refuse, Call
<1> HIDE DEF d, n, r
<1>7. \A g \in Handler : g # h => /\ call'[g] = call[g]
                                  /\ call[g].step \in Recorded => call[g].operation # n
  BY <1>2, <1>6, Holds
<1>8. \A j \in DOMAIN db.operations : j # n => db'.operations[j] = db.operations[j]
  BY <1>2, <1>5
<1>9. call'[h].step \in Recorded =>
        call'[h].operation = n /\ Agrees(call'[h], Last(db'.operations[n].trail))
  BY <1>2, <1>5, <1>6, NoCallIsCall DEF Recorded, Agrees
<1> QED
  BY <1>0, <1>2, <1>3, <1>4, <1>7, <1>8, <1>9, HandlerMoves, SMTT(30)

\* What a handler does next agrees with what it has just written.
LEMMA AfterAgrees ==
  ASSUME NEW c, c.request.action \in Action, NEW s \in {"accepted", "running"},
         s = "running" => c.request.action \in {"stop", "configure"},
         c.step = After(c.request.action, s)
  PROVE  Agrees(c, s)
<1> DEFINE action == c.request.action
<1>1. CASE s = "accepted" /\ action \in {"sort", "recover"}
  <2>1. After(action, s) = "enqueue"
    BY <1>1 DEF After
  <2> QED
    BY <1>1, <2>1 DEF Agrees
<1>2. CASE s = "accepted" /\ action \in {"stop", "configure"}
  <2>1. After(action, s) = "running"
    BY <1>2 DEF After
  <2> QED
    BY <1>2, <2>1 DEF Agrees
<1>3. CASE s = "running" /\ action = "stop"
  <2>1. After(action, s) = "enqueue"
    BY <1>3 DEF After
  <2> QED
    BY <1>3, <2>1 DEF Agrees
<1>4. CASE s = "running" /\ action = "configure"
  <2>1. After(action, s) = "snapshot"
    BY <1>4 DEF After
  <2> QED
    BY <1>4, <2>1 DEF Agrees
<1> QED
  BY <1>1, <1>2, <1>3, <1>4 DEF Action

\* ACCEPTED and RUNNING follow the state the handler left its operation in.
LEMMA ProgressHistory ==
  ASSUME JournalInv, HistoryInv, NEW h \in Handler, NEW outcome \in Outcome,
         RecordProgress(h, outcome)
  PROVE  HistoryInv'
<1> DEFINE s == call[h].step
           o == call[h].operation
           r == call[h].request
<1>0. /\ call \in [Handler -> Call] /\ s \in {"accepted", "running"} /\ UNCHANGED work
      /\ Transaction(outcome, WithTransition(o, s))
  BY DEF JournalInv, JournalTypeOK, RecordProgress
<1>1. /\ s \in Recorded /\ s \in OperationState /\ r.action \in Action
      /\ s = "running" => r.action \in {"stop", "configure"}
  BY <1>0, JournalAssumption DEF Recorded, OperationState, JournalInv, InOrder
<1>2. CanTransition(StateOf(o), s)
  BY <1>0, <1>1, Holds, LifecycleIs DEF Agrees
<1>3. \A g \in Handler : g # h => call'[g] = call[g]
  BY <1>0 DEF RecordProgress, Refuse
<1>4. call'[h].step \in Recorded => outcome = "committed" /\ call'[h].operation = o /\ Agrees(call'[h], s)
  <2>1. CASE outcome # "committed"
    BY <1>0, <2>1, NoCallIsCall DEF RecordProgress, Refuse, Recorded
  <2>2. CASE outcome = "committed"
    <3>1. call'[h] = [call[h] EXCEPT !.step = After(r.action, s)]
      BY <1>0, <2>2 DEF RecordProgress
    <3>2. call'[h].step = After(r.action, s) /\ call'[h].operation = o /\ call'[h].request = r
      BY <1>0, <3>1 DEF Call
    <3> QED
      BY <1>0, <1>1, <2>2, <3>2, AfterAgrees
  <2> QED
    BY <2>1, <2>2
<1> QED
  BY <1>0, <1>1, <1>2, <1>3, <1>4, HandlerWrites

\* The success of a configuration change follows RUNNING; its snapshot is no
\* transition.
LEMMA ConfigurationHistory ==
  ASSUME JournalInv, HistoryInv, NEW h \in Handler, NEW outcome \in Outcome,
         ApplyConfiguration(h, outcome)
  PROVE  HistoryInv'
<1> DEFINE s == call[h].step
           o == call[h].operation
           values == WithChanges(call[h].base, call[h].request.changes)
           d == WithSnapshot(o, values, generation + 1)
<1>0. /\ call \in [Handler -> Call] /\ s \in {"snapshot", "succeeded"} /\ UNCHANGED work
      /\ s \in Recorded
  BY DEF JournalInv, JournalTypeOK, ApplyConfiguration, Recorded
<1>1. /\ o \in DOMAIN db.operations /\ o \notin DOMAIN work /\ StateOf(o) = "running"
      /\ \A g \in Handler : g # h /\ call[g].step \in Recorded => call[g].operation # o
      /\ Kept(db) /\ Histories(db)
  BY <1>0, Holds DEF Agrees
<1>2. \A g \in Handler : g # h => call'[g] = call[g]
  BY <1>0 DEF ApplyConfiguration, Refuse, Answer
<1>3. CASE s = "succeeded"
  <2>1. Transaction(outcome, WithTransition(o, "succeeded")) /\ call'[h] = NoCall
    BY <1>0, <1>3 DEF ApplyConfiguration, ConfigurationSteps, Refuse, Answer
  <2>2. "succeeded" \in OperationState /\ call'[h].step \notin Recorded
    BY <2>1, NoCallIsCall DEF OperationState, Recorded
  <2> QED
    BY <1>0, <1>1, <1>2, <2>1, <2>2, LifecycleIs, HandlerWrites
<1>4. CASE s = "snapshot"
  <2>1. Transaction(outcome, d)
    BY <1>4 DEF ApplyConfiguration, ConfigurationSteps
  <2>2. d.operations = db.operations
    <3>1. db = [operations |-> db.operations, keys |-> db.keys,
                configurations |-> db.configurations]
      BY <1>1 DEF Kept, Database
    <3> QED
      BY <3>1 DEF WithSnapshot
  <2>3. \/ call'[h] = NoCall
        \/ call'[h] = [call[h] EXCEPT !.step = "succeeded"]
    BY <1>0, <1>4 DEF ApplyConfiguration, Refuse
  <2>4. (db' = d \/ db' = db)
    BY <2>1 DEF Transaction
  <2> HIDE DEF d
  <2>5. Histories(db)' /\ Histories(doubt)'
    <3>1. Histories(d)
      BY <1>1, <2>2 DEF Histories
    <3> QED
      BY <2>1, <3>1, TransactionTrails
  <2>6. db'.operations = db.operations
    BY <2>2, <2>4
  <2>7. call'[h].step \in Recorded =>
          call'[h].operation = o /\ Agrees(call'[h], Last(db'.operations[o].trail))
    <3>1. CASE call'[h] = NoCall
      BY <3>1, NoCallIsCall DEF Recorded
    <3>2. CASE call'[h] = [call[h] EXCEPT !.step = "succeeded"]
      <4>1. call'[h].step = "succeeded" /\ call'[h].operation = o
        BY <1>0, <3>2 DEF Call
      <4> QED
        BY <1>1, <2>6, <4>1 DEF Agrees, StateOf
    <3> QED
      BY <2>3, <3>1, <3>2
  <2>8. \A j \in DOMAIN db.operations : j # o => db'.operations[j] = db.operations[j]
    BY <2>6
  <2>9. \A g \in Handler : g # h => /\ call'[g] = call[g]
                                    /\ call[g].step \in Recorded => call[g].operation # o
    BY <1>1, <1>2
  <2> QED
    BY <1>0, <1>1, <2>5, <2>7, <2>8, <2>9, HandlerMoves, SMT
<1> QED
  BY <1>0, <1>3, <1>4

\* Handing an operation to the worker, which takes it in the state the handler
\* left it in or has its refusal recorded.
LEMMA EnqueueHistory ==
  ASSUME JournalInv, HistoryInv, NEW h \in Handler,
         Enqueue(h) \/ \E outcome \in Outcome : EnqueueRefused(h, outcome)
  PROVE  HistoryInv'
<1> DEFINE o == call[h].operation
<1>0. /\ call \in [Handler -> Call] /\ call[h].step = "enqueue" /\ call[h].step \in Recorded
      /\ call' = [call EXCEPT ![h] = NoCall]
  BY DEF JournalInv, JournalTypeOK, Enqueue, EnqueueRefused, Recorded, Answer, Refuse
<1>1. /\ o \in DOMAIN db.operations /\ o \notin DOMAIN work
      /\ StateOf(o) = IF call[h].request.action = "stop" THEN "running" ELSE "accepted"
      /\ \A g \in Handler : g # h /\ call[g].step \in Recorded => call[g].operation # o
  BY <1>0, Holds DEF Agrees
<1>2. /\ \A g \in Handler : g # h => call'[g] = call[g]
      /\ call'[h].step \notin Recorded
  BY <1>0, NoCallIsCall DEF Recorded
<1>3. CASE Enqueue(h)
  <2>1. /\ db' = db /\ doubt' = doubt /\ DOMAIN work' = DOMAIN work \cup {o}
        /\ \A i \in DOMAIN work : i # o => work'[i] = work[i]
        /\ work'[o] = IF call[h].request.action = "stop" THEN "sent" ELSE "waiting"
    BY <1>3 DEF Enqueue
  <2> HIDE DEF o
  <2>2. WorkInStep'
    BY <1>1, <2>1 DEF HistoryInv, WorkInStep, StateOf
  <2>3. ASSUME NEW g \in Handler, call'[g].step \in Recorded
        PROVE  /\ Agrees(call'[g], Last(db'.operations[call'[g].operation].trail))
               /\ call'[g].operation \notin DOMAIN work'
               /\ \A k \in Handler : k # g /\ call'[k].step \in Recorded
                                       => call'[k].operation # call'[g].operation
    <3>1. g # h /\ call'[g] = call[g] /\ Owned(g) /\ call[g].operation # o
      BY <1>1, <1>2, <2>3 DEF HistoryInv
    <3> QED
      BY <1>2, <2>1, <2>3, <3>1 DEF Owned, StateOf
  <2>4. Histories(db)' /\ Histories(doubt)'
    BY <2>1 DEF HistoryInv, Histories
  <2> QED
    BY <2>2, <2>3, <2>4 DEF HistoryInv, Owned, StateOf
<1>4. ASSUME NEW outcome \in Outcome, EnqueueRefused(h, outcome) PROVE HistoryInv'
  <2>1. Transaction(outcome, WithTransition(o, "cancelled")) /\ UNCHANGED work
    BY <1>4 DEF EnqueueRefused
  <2>2. "cancelled" \in OperationState /\ CanTransition(StateOf(o), "cancelled")
    BY <1>1, LifecycleIs DEF OperationState
  <2> QED
    BY <1>0, <1>2, <2>1, <2>2, HandlerWrites
<1> QED
  BY <1>3, <1>4

\* The worker's writes follow the state its operation is in.
LEMMA WorkerHistory ==
  ASSUME JournalInv, HistoryInv, NEW o \in DOMAIN db.operations, NEW outcome \in Outcome,
         Dispatch(o, outcome) \/ Settle(o, outcome)
  PROVE  HistoryInv'
<1> DEFINE to == IF Dispatch(o, outcome) THEN "running" ELSE Settled(StateOf(o))
           d == WithTransition(o, to)
<1>0. /\ Kept(db) /\ Histories(db) /\ o \in DOMAIN work /\ call' = call
      /\ DOMAIN work \subseteq DOMAIN db.operations
  BY DEF JournalInv, JournalTypeOK, Durable, HistoryInv, Dispatch, Settle
<1>1. Transaction(outcome, d) /\ to \in OperationState
  BY DEF Dispatch, Settle, Settled, OperationState
<1>2. CanTransition(StateOf(o), to)
  <2>1. StateOf(o) \in {"accepted", "running"} /\ (work[o] = "waiting" => StateOf(o) = "accepted")
    BY <1>0 DEF HistoryInv, WorkInStep
  <2>2. CASE Dispatch(o, outcome)
    BY <2>1, <2>2, LifecycleIs DEF Dispatch
  <2>3. CASE ~Dispatch(o, outcome)
    BY <2>1, <2>3, LifecycleIs DEF Settled
  <2> QED
    BY <2>2, <2>3
<1>3. /\ Histories(d) /\ Last(d.operations[o].trail) = to
      /\ \A j \in DOMAIN db.operations : j # o => d.operations[j] = db.operations[j]
  BY <1>0, <1>1, <1>2, TransitionTrails
<1>4. db' = d \/ db' = db
  BY <1>1 DEF Transaction
<1>5. /\ DOMAIN work' \subseteq DOMAIN work
      /\ \A i \in DOMAIN work' : i # o => work'[i] = work[i]
      /\ o \in DOMAIN work' => Dispatch(o, outcome) /\ work'[o] = "sent"
  BY <1>0 DEF Dispatch, Settle, WithoutWork
<1>6. Histories(db)' /\ Histories(doubt)'
  BY <1>1, <1>3, TransactionTrails
<1>7. Dispatch(o, outcome) => to = "running"
  OBVIOUS
<1> HIDE DEF to, d
<1>8. \A j \in DOMAIN db.operations : j # o => db'.operations[j] = db.operations[j]
  BY <1>3, <1>4
<1>9. WorkInStep'
  <2>1. o \in DOMAIN work' => Last(db'.operations[o].trail) \in {"accepted", "running"}
    BY <1>0, <1>3, <1>4, <1>5, <1>7 DEF HistoryInv, WorkInStep, StateOf
  <2>2. ASSUME NEW i \in DOMAIN work', i # o
        PROVE  /\ Last(db'.operations[i].trail) \in {"accepted", "running"}
               /\ work'[i] = "waiting" => Last(db'.operations[i].trail) = "accepted"
    BY <1>0, <1>5, <1>8, <2>2 DEF HistoryInv, WorkInStep, StateOf
  <2> QED
    BY <1>5, <2>1, <2>2 DEF WorkInStep, StateOf
<1>10. ASSUME NEW g \in Handler PROVE Owned(g)'
  <2>1. CASE call[g].step \in Recorded
    <3>1. call[g].operation \in DOMAIN db.operations /\ call[g].operation # o
      BY <1>0, <2>1, Holds
    <3>2. db'.operations[call[g].operation] = db.operations[call[g].operation]
      BY <1>8, <3>1
    <3> QED
      BY <1>0, <1>5, <2>1, <3>2 DEF HistoryInv, Owned, StateOf
  <2>2. CASE call[g].step \notin Recorded
    BY <1>0, <2>2 DEF Owned
  <2> QED
    BY <2>1, <2>2
<1> QED
  BY <1>6, <1>9, <1>10 DEF HistoryInv

\* No step of a request, of the worker, of a crash or of a recovery breaks a history.
LEMMA HistoryStep ==
  ASSUME JournalInv, HistoryInv, [Next]_vars
  PROVE  HistoryInv'
<1>0. call \in [Handler -> Call]
  BY DEF JournalInv, JournalTypeOK
<1>1. ASSUME NEW h \in Handler, NEW r \in Request, NEW o \in Observed, ReadConfiguration(h, r, o)
      PROVE  HistoryInv'
  <2>1. UNCHANGED <<db, doubt, work>> /\ \A g \in Handler : g # h => call'[g] = call[g]
    BY <1>0, <1>1 DEF ReadConfiguration
  <2>2. call'[h].step = "read"
    BY <1>0, <1>1 DEF ReadConfiguration, Received, NoCall
  <2> QED
    BY <2>1, <2>2, NoHistoryMoves DEF Recorded
<1>2. ASSUME NEW h \in Handler, NEW c \in Waiting(h), Unavailable(h, c) \/ Replay(h, c)
      PROVE  HistoryInv'
  <2>1. UNCHANGED <<db, doubt, work>> /\ \A g \in Handler : g # h => call'[g] = call[g]
    BY <1>0, <1>2 DEF Unavailable, Replay, Refuse, Answer
  <2>2. call'[h] = NoCall
    BY <1>0, <1>2 DEF Unavailable, Replay, Refuse, Answer
  <2> QED
    BY <2>1, <2>2, NoCallIsCall, NoHistoryMoves DEF Recorded
<1>3. ASSUME NEW h \in Handler, NEW c \in Waiting(h), Evaluate(h, c)
      PROVE  HistoryInv'
  <2>1. UNCHANGED <<db, doubt, work>> /\ \A g \in Handler : g # h => call'[g] = call[g]
    BY <1>0, <1>3 DEF Evaluate, Refuse
  <2>2. call'[h] = NoCall \/ call'[h] = [c EXCEPT !.step = "queued"]
    BY <1>0, <1>3 DEF Evaluate, Refuse
  <2>3. c \in Call
    BY WaitingIs
  <2>4. call'[h].step \in {"idle", "queued"}
    BY <2>2, <2>3, NoCallIsCall DEF Call
  <2> QED
    BY <2>1, <2>4, NoHistoryMoves DEF Recorded
<1>4. CASE CheckReadiness \/ SessionChange \/ UNCHANGED vars
  <2>1. UNCHANGED <<db, doubt, work, call>>
    BY <1>4 DEF CheckReadiness, SessionChange, vars, memory
  <2> QED
    BY <2>1, NoHistoryMoves
<1>5. ASSUME NEW k \in Key, Expire(k) PROVE HistoryInv'
  <2>1. db'.operations = db.operations /\ doubt'.operations = doubt.operations
    BY <1>5, ExpiryKeeps DEF Expire, JournalInv, Durable
  <2>2. UNCHANGED <<work, call>>
    BY <1>5 DEF Expire, memory
  <2> QED
    BY <2>1, <2>2, NoHistoryMoves
<1>6. CASE Crash \/ Restart
  <2>1. /\ \A h \in Handler : call'[h].step \notin Recorded
        /\ work' = <<>> /\ db' \in {db, doubt} /\ doubt' \in {db, doubt}
    <3>1. CASE Crash
      BY <3>1, NoCallIsCall DEF Crash, Recorded
    <3>2. CASE Restart
      BY <3>2 DEF Restart, JournalInv, InOrder, Recorded
    <3> QED
      BY <1>6, <3>1, <3>2
  <2>2. DOMAIN work' = {}
    BY <2>1, SMT
  <2> QED
    BY <2>1, <2>2 DEF HistoryInv, Histories, WorkInStep, Owned
<1> QED
  BY <1>1, <1>2, <1>3, <1>4, <1>5, <1>6, AdmissionHistory, ProgressHistory,
     ConfigurationHistory, EnqueueHistory, WorkerHistory DEF Next, Steps

\* The histories are legal in every state.
LEMMA HistoryAlways == Spec => []HistoryInv
<1>1. Init => HistoryInv
  <2> SUFFICES ASSUME Init PROVE HistoryInv
    OBVIOUS
  <2>1. DOMAIN EmptyDatabase.operations = {} /\ DOMAIN work = {}
    BY SMT DEF EmptyDatabase, Init
  <2>2. \A h \in Handler : call[h].step \notin Recorded
    BY NoCallIsCall DEF Init, Recorded
  <2> QED
    BY <2>1, <2>2 DEF Init, HistoryInv, Histories, WorkInStep, Owned
<1>2. JournalInv /\ HistoryInv /\ [Next]_vars => HistoryInv'
  BY HistoryStep
<1> QED
  BY <1>1, <1>2, JournalAlways, PTL DEF Spec

\* Every history begins with "queued" and makes allowed transitions only, in the
\* database and in what recovery may find instead: no handler, callback or retry
\* ever asks record_transition for one it must refuse as illegal.
THEOREM HistoriesAreLegal == Spec => [](Histories(db) /\ Histories(doubt))
BY HistoryAlways, PTL DEF HistoryInv

\* A terminal state on record is final, through concurrent handlers, failed commits,
\* crashes and whatever recovery finds.
THEOREM SettledIsFinal ==
  Spec => [][\A o \in DOMAIN db.operations : StateOf(o) \in Terminal =>
               db'.operations[o].trail = db.operations[o].trail]_vars
<1> DEFINE final == \A o \in DOMAIN db.operations : StateOf(o) \in Terminal =>
                      db'.operations[o].trail = db.operations[o].trail
<1>1. ASSUME JournalInv, HistoryInv, [Next]_vars, NEW o \in DOMAIN db.operations,
             StateOf(o) \in Terminal
      PROVE  db'.operations[o].trail = db.operations[o].trail
  <2> DEFINE t == db.operations[o].trail
             u == db'.operations[o].trail
  <2>1. Grows(db, db') /\ JournalInv' /\ HistoryInv'
    BY <1>1, JournalStep, HistoryStep
  <2>2. o \in DOMAIN db'.operations /\ \A i \in DOMAIN t : i \in DOMAIN u /\ u[i] = t[i]
    BY <2>1 DEF Grows
  <2>3. Legal(t) /\ Legal(u)
    BY <1>1, <2>1, <2>2 DEF HistoryInv, Histories
  <2>4. t \in Seq(OperationState) /\ u \in Seq(OperationState)
    <3>1. db.operations \in Seq(Row) /\ db'.operations \in Seq(Row)
      BY <1>1, <2>1 DEF JournalInv, Durable, Kept, Database
    <3>2. db.operations[o] \in Row /\ db'.operations[o] \in Row
      BY <2>2, <3>1, SMT
    <3> QED
      BY <3>2 DEF Row
  <2>5. t[Len(t)] \in Terminal
    BY <1>1 DEF StateOf, Last
  <2> HIDE DEF t, u
  <2>6. /\ Len(t) \in Nat /\ Len(u) \in Nat /\ DOMAIN t = 1..Len(t) /\ DOMAIN u = 1..Len(u)
        /\ Len(t) \in DOMAIN t
    BY <2>3, <2>4, SMT DEF Legal
  <2>7. Len(t) + 1 \notin DOMAIN u
    BY <2>2, <2>3, <2>5, <2>6, LifecycleIs DEF Legal
  <2>8. Len(u) = Len(t)
    <3>1. Len(t) \in 1..Len(u) /\ Len(t) + 1 \notin 1..Len(u)
      BY <2>2, <2>6, <2>7
    <3>2. Len(t) \in Nat /\ Len(u) \in Nat
      BY <2>6
    <3> QED
      BY <3>1, <3>2, SMT
  <2>9. u = t
    BY <2>2, <2>4, <2>6, <2>8, SMT
  <2> QED
    BY <2>9 DEF t, u
<1>2. JournalInv /\ HistoryInv /\ [Next]_vars => [final]_vars
  BY <1>1
<1> QED
  BY <1>2, JournalAlways, HistoryAlways, PTL DEF Spec
=============================================================================
