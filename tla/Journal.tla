------------------------------- MODULE Journal -------------------------------
(***************************************************************************)
(* The daemon's command path over its SQLite journal: cs71d/api.py hands a *)
(* request to cs71d/domain.py, which writes cs71d/journal.py one           *)
(* transaction at a time under the machine lock.                           *)
(*                                                                         *)
(* A step is one journal transaction or one read, so that the daemon may   *)
(* crash, and a concurrent reader may look, between any two transactions   *)
(* of one request.  A transaction can fail when it begins, while it writes *)
(* or when it commits.  OperationDomain models what the serial worker does *)
(* with an admitted operation; here the worker only settles it.            *)
(***************************************************************************)
EXTENDS Naturals, Sequences, FiniteSets, Operations

CONSTANTS
    Handler,        \* the API threads
    Request,        \* the requests clients send and resend
    Field, Value,   \* configuration fields and what they can be set to
    Default,        \* the value every field starts with
    None,
    Bounds,         \* the bounds a behaviour may be explored under: daemon
                    \* starts, and requests in progress at once
    MaxGeneration   \* bound on the generation session changes may reach

Action == {"sort", "stop", "recover", "configure"}
Role == {"viewer", "operator", "administrator", "machine"}
Identity == {"bff", "machine"}

\* A request: its Idempotency-Key, the actor its body claims, the credential
\* that authenticated it, and for a configuration change the fields it sets.
ASSUME JournalAssumption ==
    /\ \A r \in Request :
          /\ r.action \in Action /\ r.role \in Role /\ r.identity \in Identity
          /\ DOMAIN r.changes \subseteq Field
          /\ \A f \in DOMAIN r.changes : r.changes[f] \in Value
    /\ Default \in Value
    /\ None \notin Handler
    /\ None \notin [operation : Nat, live : BOOLEAN]
    /\ Bounds \subseteq [lives : Nat \ {0}, requests : Nat \ {0}]
    /\ MaxGeneration \in Nat \ {0}

Key == {r.key : r \in Request}

VARIABLES
    db,          \* the committed database
    doubt,       \* what recovery may find instead: db and a commit that failed
    up,          \* the daemon runs
    life,        \* how many times it has started
    peaks,       \* the generation each earlier life reached
    generation,  \* MachineSnapshot.generation
    available,   \* MachineSnapshot.journal_available
    ready,       \* MachineSnapshot.connection is READY
    work,        \* the worker's operations: waiting or sent
    lock,        \* the handler holding the machine lock
    call,        \* each handler's request in progress
    answer,      \* the request the last step answered, and the operation it named
    bound        \* the bounds of this behaviour

memory == <<generation, available, ready, work, lock, call>>
vars == <<db, doubt, up, life, peaks, memory, answer, bound>>

Configuration == [Field -> Value]

\* An operations row with its operation_transitions; its state is the last.
\* A key row is live until its window ends; the moment it does is not modelled.
Row == [request : Request, trail : Seq(OperationState)]
KeyRow == [operation : Nat, live : BOOLEAN]
Snapshot == [generation : Nat, values : Configuration, operation : Nat]
Database == [operations : Seq(Row), keys : [Key -> KeyRow \cup {None}],
             configurations : Seq(Snapshot)]

Step == {"idle", "read", "queued", "accepted", "running",
         "snapshot", "succeeded", "enqueue"}
Call == [step : Step, request : Request \cup {None}, generation : Nat, origin : Nat,
         base : Configuration, operation : Nat]

NoCall == [step |-> "idle", request |-> None, generation |-> 0, origin |-> 0,
           base |-> [f \in Field |-> Default], operation |-> 0]

NoAnswer == [request |-> None, operation |-> 0]

\* The state spaces of the database and the handlers.
JournalTypeOK ==
    /\ db \in Database /\ doubt \in Database
    /\ up \in BOOLEAN /\ available \in BOOLEAN /\ ready \in BOOLEAN
    /\ bound \in Bounds /\ life \in 1..bound.lives /\ generation \in Nat
    /\ DOMAIN peaks = 1..(life - 1)
    /\ DOMAIN work \subseteq DOMAIN db.operations
    /\ \A o \in DOMAIN work : work[o] \in {"waiting", "sent"}
    /\ lock \in Handler \cup {None}
    /\ call \in [Handler -> Call]

EmptyDatabase ==
    [operations |-> <<>>, keys |-> [k \in Key |-> None], configurations |-> <<>>]

Init ==
    /\ db = EmptyDatabase /\ doubt = EmptyDatabase
    /\ up = TRUE /\ life = 1 /\ peaks = <<>>
    /\ generation = 1 /\ available = TRUE /\ ready = FALSE
    /\ work = <<>> /\ lock = None /\ call = [h \in Handler |-> NoCall]
    /\ answer = NoAnswer /\ bound \in Bounds

-----------------------------------------------------------------------------
(* Database content *)

Last(s) == s[Len(s)]
StateOf(o) == Last(db.operations[o].trail)
Fingerprint(r) == [action |-> r.action, changes |-> r.changes, role |-> r.role]

\* idempotency_record: an expired record is not returned.
LiveKey(k) == db.keys[k] # None /\ db.keys[k].live

\* Mutant: the expired row is not returned, and is free to be replaced.
KeyFreeOnceExpired(k) == ~LiveKey(k)

\* INSERT INTO idempotency_records: the key is the primary key, and nothing
\* prunes the expired rows.
KeyFree(k) == db.keys[k] = None

\* record_admission: the operation, its first transition and its key.
WithAdmission(r) ==
    [db EXCEPT !.operations =
        Append(@, [request |-> r, trail |-> <<"queued">>]),
     !.keys[r.key] = [operation |-> Len(db.operations) + 1, live |-> TRUE]]

\* record_transition and _append_transition.  A transition that can_transition refuses
\* is never asked for (HistoriesAreLegal).
WithTransition(o, to) == [db EXCEPT !.operations[o].trail = Append(@, to)]

\* record_configuration.
WithSnapshot(o, values, g) ==
    [db EXCEPT !.configurations =
        Append(@, [generation |-> g, values |-> values, operation |-> o])]

\* ORDER BY generation DESC, rowid DESC LIMIT 1
NewestSnapshot ==
    CHOOSE i \in DOMAIN db.configurations :
        \A j \in DOMAIN db.configurations :
            LET gi == db.configurations[i].generation
                gj == db.configurations[j].generation
            IN gj < gi \/ (gj = gi /\ j <= i)

\* Mutant: nothing stands in for a policy that was never recorded.
AppliedUnset ==
    IF db.configurations = <<>> THEN None
    ELSE db.configurations[NewestSnapshot].values

\* OperationDomain.configuration over applied_configuration.
Applied ==
    IF db.configurations = <<>> THEN [f \in Field |-> Default]
    ELSE db.configurations[NewestSnapshot].values

WithChanges(values, changes) ==
    [f \in Field |-> IF f \in DOMAIN changes THEN changes[f] ELSE values[f]]

-----------------------------------------------------------------------------
(* Transactions *)

\* How a transaction can end.  After a BEGIN that fails there is no transaction
\* for the ROLLBACK that follows, which raises in its turn; a commit that fails
\* has been rolled back, but its pages may already be in the write-ahead log.
Outcome == {"committed", "not_begun", "not_written", "not_committed"}

\* Mutant: a commit that fails is not rolled back, and readers see it.
TransactionVisible(outcome, next) ==
    /\ db' = IF outcome \in {"committed", "not_committed"} THEN next ELSE db
    /\ doubt' = IF outcome = "committed" THEN next ELSE doubt

\* _transaction.
Transaction(outcome, next) ==
    /\ db' = IF outcome = "committed" THEN next ELSE db
    /\ doubt' = CASE outcome = "committed"     -> next
                  [] outcome = "not_committed" -> next
                  [] OTHER                     -> doubt

\* Mutant: the fault is latched but the latch does not block admission.
RequireDurableAlways == TRUE

\* _require_durable.
RequireDurable == available

\* record_journal_fault: a generation of its own, once.
LatchFault ==
    /\ available' = FALSE
    /\ generation' = IF available THEN generation + 1 ELSE generation

\* _durable and _transition after a failed write: a JournalError latches; the
\* error ROLLBACK raises is not one, and passes through.
Failed(outcome) ==
    IF outcome = "not_begun" THEN UNCHANGED <<available, generation>> ELSE LatchFault

\* MachineState.transition around a write.
Published(outcome) ==
    IF outcome = "committed"
    THEN generation' = generation + 1 /\ UNCHANGED available
    ELSE Failed(outcome)

-----------------------------------------------------------------------------
(* Receiving a request *)

\* No request is answered by this step.
NoneAnswered == answer' = NoAnswer

\* _commanding_actor.
MayCommand(r) ==
    /\ (r.role = "machine") = (r.identity = "machine")
    /\ r.role = "machine" => r.action = "sort"
    /\ r.role # "viewer"

\* If-Match-Generation: what a client read from this life's latest snapshot, or
\* from a snapshot of an earlier life.  One that is behind the present generation
\* is refused like one that grows stale while the request waits.
Observed ==
    {<<life, generation>>}
        \cup UNION {{<<l, g>> : g \in generation..peaks[l]} : l \in DOMAIN peaks}

Received(r, observed) ==
    [NoCall EXCEPT !.step = "read", !.request = r,
                   !.origin = observed[1], !.generation = observed[2]]

\* A handler thread with no request in progress takes one up.
MayReceive(h) ==
    /\ up /\ call[h].step = "idle"
    /\ Cardinality({g \in Handler : call[g].step # "idle"}) < bound.requests

\* configure reads the values it will change before it takes the machine lock.
ReadConfiguration(h, r, observed) ==
    /\ MayReceive(h) /\ MayCommand(r) /\ r.action = "configure"
    /\ call' = [call EXCEPT ![h] = [Received(r, observed) EXCEPT !.base = Applied]]
    /\ UNCHANGED <<db, doubt, up, life, peaks, generation, available, ready, work,
                   lock>>
    /\ NoneAnswered

\* The calls that may take the lock: a configuration change that has read its
\* base, or any other command, which reads nothing it uses later.
Waiting(h) ==
    IF call[h].step = "read" THEN {call[h]}
    ELSE {Received(r, observed) :
            r \in {q \in Request : MayReceive(h) /\ MayCommand(q)
                                  /\ q.action # "configure"},
            observed \in Observed}

\* The request r is over; its client is told of operation o.
Answer(h, r, o) ==
    /\ call' = [call EXCEPT ![h] = NoCall]
    /\ answer' = [request |-> r, operation |-> o]

\* The request is over with an error and no operation.
Refuse(h) == call' = [call EXCEPT ![h] = NoCall] /\ NoneAnswered

-----------------------------------------------------------------------------
(* Admission, under the machine lock *)

\* Mutant: a key is enough to find the operation.
SameRequestByKey(r, o) == TRUE

\* _replay: the record's fingerprint is the request's.
SameRequest(r, o) == Fingerprint(db.operations[o].request) = Fingerprint(r)

\* Mutant: the generation is not compared.
FreshUnchecked(c) == TRUE

\* If-Match-Generation is the current one; a stop may say "*".
Fresh(c) == c.generation = generation \/ c.request.action = "stop"

\* refresh_durability, with what the monitors may find: free space below the
\* floor or unreadable, a backup marker missing, malformed, failed or stale.
RefreshDurability ==
    \/ UNCHANGED <<available, generation>>
    \/ available /\ LatchFault

\* A request that waits for the lock may find the journal unavailable, or the read
\* of its key fails, which latches the fault as well.
Unavailable(h, c) ==
    /\ lock = None
    /\ RefreshDurability
    /\ ~available'
    /\ Refuse(h)
    /\ UNCHANGED <<db, doubt, up, life, peaks, ready, work, lock>>

\* GET /v1/health/ready makes the same check.
CheckReadiness ==
    /\ up /\ lock = None
    /\ RefreshDurability
    /\ ~available' /\ available
    /\ NoneAnswered
    /\ UNCHANGED <<db, doubt, up, life, peaks, ready, work, lock, call>>

\* The key is bound: the original operation, or IDEMPOTENCY_CONFLICT.
Replay(h, c) ==
    /\ lock = None /\ RequireDurable
    /\ LiveKey(c.request.key)
    /\ LET o == db.keys[c.request.key].operation IN
       IF SameRequest(c.request, o) THEN Answer(h, c.request, o) ELSE Refuse(h)
    /\ UNCHANGED <<db, doubt, up, life, peaks, generation, available, ready, work, lock>>

\* The checks against the frozen view: STALE_GENERATION, NOT_READY, UNSUPPORTED,
\* or the lock is held until the operation is durable.
Evaluate(h, c) ==
    /\ lock = None /\ RequireDurable
    /\ ~LiveKey(c.request.key)
    /\ IF Fresh(c) /\ (c.request.action = "sort" => ready)
       THEN /\ call' = [call EXCEPT ![h] = [c EXCEPT !.step = "queued"]]
            /\ lock' = h
            /\ NoneAnswered
       ELSE Refuse(h) /\ UNCHANGED lock
    /\ UNCHANGED <<db, doubt, up, life, peaks, generation, available, ready, work>>

\* _admit's record_admission.  It publishes nothing.
RecordAdmission(h, outcome) ==
    LET r == call[h].request IN
    /\ call[h].step = "queued"
    /\ KeyFree(r.key) \/ outcome \in {"not_begun", "not_written"}
    /\ Transaction(outcome, WithAdmission(r))
    /\ IF outcome = "committed"
       THEN /\ call' = [call EXCEPT ![h].step = "accepted",
                                    ![h].operation = Len(db.operations) + 1]
            /\ NoneAnswered
            /\ UNCHANGED <<available, generation, lock>>
       ELSE Failed(outcome) /\ Refuse(h) /\ lock' = None
    /\ UNCHANGED <<up, life, peaks, ready, work>>

\* The step after the one that wrote `s`, by the request's action.
After(action, s) ==
    CASE s = "accepted" /\ action \in {"sort", "recover"} -> "enqueue"
      [] s = "accepted" /\ action \in {"stop", "configure"} -> "running"
      [] s = "running" /\ action = "stop" -> "enqueue"
      [] s = "running" /\ action = "configure" -> "snapshot"
      [] s = "snapshot" -> "succeeded"

\* _transition to ACCEPTED, and for a stop or a configuration change to RUNNING.
RecordProgress(h, outcome) ==
    LET s == call[h].step
        next == After(call[h].request.action, s)
    IN
    /\ s \in {"accepted", "running"}
    /\ Transaction(outcome, WithTransition(call[h].operation, s))
    /\ Published(outcome)
    /\ IF outcome = "committed"
       THEN /\ call' = [call EXCEPT ![h].step = next]
            /\ lock' = IF next = "enqueue" THEN None ELSE h
            /\ NoneAnswered
       ELSE Refuse(h) /\ lock' = None
    /\ UNCHANGED <<up, life, peaks, ready, work>>

\* Mutant: the operation succeeds, and then the values are stored.
ConfigurationStepsSwapped ==
    [first |-> "succeeded", second |-> "snapshot"]

\* _apply_configuration's order.
ConfigurationSteps == [first |-> "snapshot", second |-> "succeeded"]

\* _apply_configuration: the snapshot and the success are two transactions.
\* "snapshot" is the first of the two steps and "succeeded" the second.
ApplyConfiguration(h, outcome) ==
    LET s == call[h].step
        writes == IF s = "snapshot" THEN ConfigurationSteps.first
                                    ELSE ConfigurationSteps.second
        o == call[h].operation
        values == WithChanges(call[h].base, call[h].request.changes)
    IN
    /\ s \in {"snapshot", "succeeded"}
    /\ Transaction(outcome,
          IF writes = "snapshot" THEN WithSnapshot(o, values, generation + 1)
                                 ELSE WithTransition(o, "succeeded"))
    /\ Published(outcome)
    /\ IF outcome # "committed" THEN Refuse(h) /\ lock' = None
       ELSE IF s = "snapshot"
       THEN call' = [call EXCEPT ![h].step = "succeeded"] /\ NoneAnswered /\ UNCHANGED lock
       ELSE Answer(h, call[h].request, o) /\ lock' = None
    /\ UNCHANGED <<up, life, peaks, ready, work>>

-----------------------------------------------------------------------------
(* The worker, as far as the journal sees it *)

WithoutWork(o) == [i \in DOMAIN work \ {o} |-> work[i]]

\* Outside the lock: the worker takes the operation, and its client is answered
\* with the record as admitted.
Enqueue(h) ==
    LET o == call[h].operation IN
    /\ call[h].step = "enqueue"
    /\ work' = [i \in DOMAIN work \cup {o} |->
                   IF i # o THEN work[i]
                   ELSE IF call[h].request.action = "stop" THEN "sent" ELSE "waiting"]
    /\ Answer(h, call[h].request, o)
    /\ UNCHANGED <<db, doubt, up, life, peaks, generation, available, ready, lock>>

\* The worker refuses (queue full, stop in progress, session not ready, not
\* running): _resolve records the refusal, and the error names the operation.
EnqueueRefused(h, outcome) ==
    LET o == call[h].operation IN
    /\ call[h].step = "enqueue" /\ lock = None
    /\ Transaction(outcome, WithTransition(o, "cancelled"))
    /\ Published(outcome)
    /\ Refuse(h)
    /\ UNCHANGED <<up, life, peaks, ready, work, lock>>

\* _dispatch: RUNNING is durable before the command is sent.  If the write fails
\* the command is not sent, and the operation is resolved without it.
Dispatch(o, outcome) ==
    /\ o \in DOMAIN work /\ work[o] = "waiting" /\ lock = None
    /\ Transaction(outcome, WithTransition(o, "running"))
    /\ Published(outcome)
    /\ work' = [work EXCEPT ![o] = "sent"]
    /\ NoneAnswered
    /\ UNCHANGED <<up, life, peaks, ready, lock, call>>

\* The terminal a future settles an operation with, as far as this module tells them
\* apart: one that was sent has ended, and one that never was has failed.
\* OperationDomain distinguishes the rest.
Settled(state) == IF state = "running" THEN "succeeded" ELSE "failed"

\* _settle, _settle_stop, _complete and _resolve: one terminal transition.  A
\* write that fails has nowhere else to go, and the worker is done with it.
Settle(o, outcome) ==
    /\ o \in DOMAIN work /\ lock = None
    /\ Transaction(outcome, WithTransition(o, Settled(StateOf(o))))
    /\ Published(outcome)
    /\ work' = WithoutWork(o)
    /\ NoneAnswered
    /\ UNCHANGED <<up, life, peaks, ready, lock, call>>

\* A connection transition: observe_connection publishes a generation.
SessionChange ==
    /\ up /\ lock = None /\ generation < MaxGeneration
    /\ ready' = ~ready /\ generation' = generation + 1
    /\ NoneAnswered
    /\ UNCHANGED <<db, doubt, up, life, peaks, available, work, lock, call>>

-----------------------------------------------------------------------------
(* Expiry, crash and restart *)

\* The deduplication window of a key ends.
WithExpired(d, k) == [d EXCEPT !.keys[k] = IF @ = None THEN @ ELSE [@ EXCEPT !.live = FALSE]]

Expire(k) ==
    /\ LiveKey(k)
    /\ db' = WithExpired(db, k) /\ doubt' = WithExpired(doubt, k)
    /\ NoneAnswered
    /\ UNCHANGED <<up, life, peaks, memory>>

\* The process dies: whatever it held in memory is gone, and so are the answers
\* it had not given.
Crash ==
    /\ up /\ life < bound.lives
    /\ up' = FALSE
    /\ available' = TRUE /\ ready' = FALSE
    /\ work' = <<>> /\ lock' = None /\ call' = [h \in Handler |-> NoCall]
    /\ NoneAnswered
    /\ UNCHANGED <<db, doubt, life, peaks, generation>>

\* Journal.open and a new OperationDomain: the database as recovery finds it, and
\* a machine view that starts again.
Restart ==
    /\ ~up
    /\ up' = TRUE /\ life' = life + 1
    /\ peaks' = Append(peaks, generation)
    /\ db' \in {db, doubt} /\ doubt' = db'
    /\ generation' = 1
    /\ NoneAnswered
    /\ UNCHANGED <<available, ready, work, lock, call>>

Steps ==
    \/ \E h \in Handler :
          \/ \E r \in Request, observed \in Observed : ReadConfiguration(h, r, observed)
          \/ \E c \in Waiting(h) : Unavailable(h, c) \/ Replay(h, c) \/ Evaluate(h, c)
          \/ \E outcome \in Outcome :
                \/ RecordAdmission(h, outcome)
                \/ RecordProgress(h, outcome)
                \/ ApplyConfiguration(h, outcome)
                \/ EnqueueRefused(h, outcome)
          \/ Enqueue(h)
    \/ \E o \in DOMAIN db.operations, outcome \in Outcome :
          Dispatch(o, outcome) \/ Settle(o, outcome)
    \/ CheckReadiness
    \/ SessionChange
    \/ \E k \in Key : Expire(k)
    \/ Crash
    \/ Restart

Next == Steps /\ UNCHANGED bound

Spec == Init /\ [][Next]_vars

-----------------------------------------------------------------------------
(* Properties *)

\* However often a request is resent, to whichever thread and across crashes, its
\* key names one operation, and that operation is in the journal with it: "a key
\* can never outlive the operation it deduplicates to" (record_admission).
OneOperationPerKey ==
    \A k \in Key :
        LET named == {o \in DOMAIN db.operations : db.operations[o].request.key = k}
        IN IF db.keys[k] = None THEN named = {} ELSE named = {db.keys[k].operation}

\* What a client is told is true: the operation it is given is its own request, and
\* it is in the journal, where RecordsOnlyGrow keeps it through any crash.
AnsweredIsRecorded ==
    answer # NoAnswer =>
        /\ answer.operation \in DOMAIN db.operations
        /\ Fingerprint(db.operations[answer.operation].request) = Fingerprint(answer.request)

\* Whatever a reader could see stays: operations do not disappear and their
\* transitions are only added to, by any failed commit, crash or recovery.
RecordsOnlyGrow ==
    [][\A o \in DOMAIN db.operations :
          /\ o \in DOMAIN db'.operations
          /\ db'.operations[o].request = db.operations[o].request
          /\ \A i \in DOMAIN db.operations[o].trail :
                /\ i \in DOMAIN db'.operations[o].trail
                /\ db'.operations[o].trail[i] = db.operations[o].trail[i]]_vars

\* "A success can never be recorded for values that were not stored"
\* (_apply_configuration): whatever crash or failed commit comes between.
StoredBeforeSuccess ==
    \A o \in DOMAIN db.operations :
        db.operations[o].request.action = "configure" /\ StateOf(o) = "succeeded" =>
            \E i \in DOMAIN db.configurations : db.configurations[i].operation = o

\* configure reads the values it changes before it takes the lock.  A request that
\* observed this life's generation never writes back values another change has
\* replaced since.
NoLostUpdate ==
    \A h \in Handler :
        call[h].step = "snapshot" /\ call[h].origin = life => call[h].base = Applied

\* While the journal is unavailable nothing is admitted, whoever latched it and
\* however many requests were already waiting for the lock.
NothingAdmittedUndurably ==
    [][Len(db'.operations) > Len(db.operations) => available \/ ~up]_vars

\* "Return the most recently applied values" (applied_configuration): what is
\* reported as the policy is the last one recorded.
AppliedIsLatest ==
    db.configurations # <<>> => Applied = Last(db.configurations).values
=============================================================================
