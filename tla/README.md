# A TLA+ model of the CS7.1 case sorter's control software

The CS7.1 sorts brass cases. An Arduino moves a feed wheel and a sorter arm; a
daemon on a small computer is the only process that talks to it; a vision
service suggests and, within limits, orders sorts; a web service is what people
use. This directory holds TLA+ modules for that software, TLC configurations
that check them on small instances, and proofs that TLAPS checks for all
instances. Paths below are relative to the repository's root (`src/`), daemon
files to `appliance/daemon/src/cs71d/`, client files to
`host/src/cs71_protocol/`, vision files to `appliance/vision/src/cs71vision/`.

## The system and what is modelled

| Part | Source | Module | Status |
| --- | --- | --- | --- |
| Serial worker | `serial_worker.py`, `session.py` | `SerialWorker` | modelled, proved |
| Operation lifecycle | `operations.py`, `domain.py` (classification) | `Operations`, `Journal` | modelled, proved |
| Operation domain and machine view | `domain.py`, `machine.py` | `OperationDomain`, `Journal` | modelled, without durations; proved |
| What operations promise | the same | `OperationLedger` | abstract specification; implementation proved |
| Journal, command handlers, configuration | `journal.py`, `storage_health.py`, `configuration.py`, `api.py` | `Journal` | modelled, without migrations and listings; proved |
| Event ring and event stream | `events.py`, `api.py` (`_stream`) | `EventRing` | modelled, proved |
| Protocol client | `client.py`, `tracking.py`, `parsing.py`, `framing.py`, `models.py` | `ProtocolSession` | modelled, proved |
| Controller | `simulator/transport.py` | `Controller` | modelled, as the simulator has it; proved with the client |
| Vision service | `runtime.py`, `correlator.py`, `autonomy.py`, `routing.py`, `dataset.py`, ... | `Vision` | modelled, without images and learning; proved |
| Firmware, web service, installation scripts, pages | `ArduinoCode`, `appliance/web`, `appliance/ops` | | not modelled, see below |

How the parts interact: an API thread admits an operation under the machine
lock, releases the lock, and hands the operation to the worker's lane. The
worker thread takes it, has the domain record the dispatch, exchanges frames
with the controller through the protocol client, and resolves a future whose
callback settles the operation in the journal. Every published change is an
event of the ring, which the stream handlers pass on. The vision service polls
the operations for labels and submits sorts as one more client of the API.

No module composes all of this. `OperationDomain` is the domain over the worker;
`ProtocolSession` is the worker's use of the client over the `Controller`;
`Journal` is the command path over the database, with the worker reduced to
"sends and settles"; `Vision` has a daemon that admits, replays and ends sorts.

## Modules

### SerialWorker

State: the fields of `SerialWorker` under its condition (`state`, `normal`,
`stopRequested`, `stopWaiters`), the session (`session`), each caller's future
(`future`), the transport, and the owning thread's position (`pc`) with the
parameters of the calls it is in (`current`, `context`, `fault`, `attempts`).
`fate` records what the controller really did with each command, which the
worker learns only from what it reads: `sent` means "executing or unknown".
`leaked` says that a transport the worker no longer holds may still be open:
`_close_transport` gives the handle up also when `close()` raises, and only marks
the worker failed, after which `_reconnect` still opens a replacement.

Actions: one for each critical section, protocol exchange and session
transition of the thread, and one for each public method, which runs under the
condition. `_connect` is `Connecting`, `OpenTransport`, `VerifyV1`,
`ActivateV2`, with `ConnectFails` standing for the `except` clause of whichever
caller is named by `context`. `_execute_item` is the gate (`GatePasses`,
`GateWithdraws`), `Transmit`, and the ways an exchange ends: `ReadTerminal`,
`Interrupted`, `RequestFails`. `_recover` and `_reconnect` are `EnterRecovery`
to `Attempt`; `_execute_session_intent` is `Repair`, `StatusRead`,
`StatusFails`; the end of `_run` is `ReleaseTransport` to `FailPending`.

Abstracted: which slot or axis an intent names, and the contents of results.
The controller is external: it answers or refuses a command at any moment, or
never. Two facts are taken from how the library is used: a verified connection
means that nothing is executing, and so does a trusted `stopped`.
`ProtocolSession` checks both against the simulated controller (`VerifiedIsV1`,
`StopIsTrusted`).

### Operations, OperationDomain, OperationLedger

`Operations` is the table of allowed transitions and the fail-closed
classification of errors (`Classify`). `OperationDomain` extends the worker with
the durable state of each operation (`journal`), the machine view
(`connection`, `active`, `journalAvailable`) and how far each request is
(`phase`). An admission is one step because it holds the machine lock
throughout; its writes are `AdmissionPath`, and `AdmitFails` lets any of them
fail with the earlier ones committed. A write fails in two ways (`WriteError`):
with a `JournalError`, which latches the fault, or, when `BEGIN` itself failed,
with the `OperationalError` of the `ROLLBACK` after it, which nothing in the
domain catches; the thread or callback then ends in the phase `escaped`. `Enqueue` is a step of its own because
the lock has been released. `Dispatch` is the gate's callback on the worker
thread, `Settle` the future's callback.

A generation number is represented by `fresh`, the requests whose observed
generation is the current one. That is all admission compares, and it removes
an unbounded counter. Keys and configuration values are left to `Journal`.

The worker's session and the view's `connection` are separate. The thread is
held inside its observer until the view has caught up (`Observed`).

`OperationLedger` is the abstract specification. It has only the durable ledger
and the effect of each command: a command begins at most once, only while it is
durably running, and only when nothing else executes; terminal states are final
and rest on evidence (`Justified`). `ImplementsLedger` maps `journal` to the
ledger and `fate` to the effect.

### Journal

`db` is the committed database: operations with their transitions, idempotency
keys, configuration snapshots. `doubt` is what recovery may find instead: a
commit that failed may already be in the write-ahead log. A step is one
transaction or one read, so a crash, another reader and another request come
between any two. `Outcome` lists how a transaction ends: after a `BEGIN` that
fails, the `ROLLBACK` raises in its turn with an error that is not a
`JournalError`, and the fault is not latched (`Failed`).

A handler thread (`call`) checks the role (`MayCommand`), reads the values it
will change if it is a configuration change (`ReadConfiguration`, before the
lock), waits for the lock, and then finds the journal unavailable
(`Unavailable`), the key known (`Replay`) or goes on (`Evaluate`,
`RecordAdmission`, `RecordProgress`, `ApplyConfiguration`, `Enqueue`). Clients
send any request at any time, with the generation they last saw, of this life
or of an earlier one (`Observed`). `Expire` ends a key's window; no code prunes
the rows (`prune_idempotency` is only called by tests). `Crash` and `Restart`
lose the memory: the machine view starts again with generation 1.

### Controller and ProtocolSession

`Controller` is the simulator the daemon is developed against: the v1 and v2
command handlers, checksums, one movement at a time, stop, boot, and the adverse
scenarios it can inject (lost link, event gap, motion fault, malformed line,
wrong identifier, silence, busy). Lines are records; of a text only what some
handler tells apart is kept, and of a checksum whether it is present and right.

`ProtocolSession` extends it with `ProtocolClient` as the worker thread drives
it. Each client call is a write followed by reads, and `step` is what it is
reading for: `WaitReady`, `PingBarrier`, `Discover`, `Activate`, then
`ReadPart`, `ReadTerminal` and `RequestUnsafe` for a request, `AwaitStopped` for
a stop, `AwaitRecoveryStop`, `Reset`, `VerifyReady`, `VerifyPing` for a recovery.
A read takes one line, or expires; a deadline may expire at any moment, which
covers every duration. A recovery's stop may not even be written
(`BeginRecovery`; the client swallows the error), and the reset hook may fail as
well (`Reset`); neither counts as a fault of the line, so one broken port may
refuse both. A reset may lose or keep the lines on their way, since the transport
does not flush. `own` marks the lines that belong to the request being
waited for; no handler reads it.

### Vision

The loops of the service are threads, split where they call the store, the
routing session or the daemon: `Capture`; `Classify` and `RecordSuggestion`;
`Poll`, `Label` and `MatchSuggestion`; `Decide`, `ReadGeneration`, `SubmitSort`
and `RecordAttempt`; `Trigger` and `TrainingEnds`. The API's requests are
`Activate`, `RollBackFrom`/`RollBack`, `StartRouting`, `StopRouting`, `Review`.
`TickRaises` abandons a tick anywhere, as a failing store does, or a frame added
while the buffer is searched. `Restart` keeps only the store.

A frame is its capture time; a model is its version; a classifier's answer is
any member of `Reading`. Times come from one clock and differ. Stamping a frame
and adding it to the buffer is one step. Today `classify_frame` always reports
`primer_present=None` (`classifier.py:77`), so the code submits no autonomous
sort at all; `Reading` includes the other readings so that the gate behind it,
which is written and tested for them, is exercised. The safety properties hold
with more readings than the code can produce, and so without them. `Past` is what
the store holds at the start.

Training, activation, rollback and review are actions because the loops run among
them, but no property is about them alone: the store only appends to those
tables, and a rollback is one more activation, of whatever was last but one when
its history was read. `trigger`'s remark that during a run "the dataset has not
changed since that run started reading it" (`runtime.py:447-448`) does not hold:
`Label` adds examples while `trainer` still holds the ones it read.

### EventRing

Publishers number and retain an event under the ring's lock (`Publish`) and
offer it to each subscriber afterwards (`Offer`). A handler thread drains, by a
timeout if nothing comes, and writes (`Drain`, `StartEmitting`, `Emit`,
`Heartbeat`) or reports a loss (`StartTelling`, `Tell`). Consumers disconnect and
resume from the last frame they were given; `Restart` is a new life of the
daemon, with a new ring and consumers that keep their cursors.

A heartbeat's frame has the id 0, but its body says `event_id` 1 (`api.py:766`),
which the web service takes for its cursor
(`appliance/web/src/lib/server/daemon/events.ts:131`). So a heartbeat sends a
consumer back to 1: it is given events again when it resumes, or has to start
over. A consumer without a cursor asks for the live position; the snapshot it
reads is a separate request, before or after, and the module says nothing about
how the two fit together.

## Runs

| Run | Instance | Result |
| --- | --- | --- |
| `worker_lanes` | a command with two of connect, recover and a stop; with a query and a stop; with two stops. Capacity 1, 1 reconnect | one command at a time, over the only open transport; stops empty the lane and are quiet; recovery discards the queue; executing commands are watched; futures resolve; close ends the thread |
| `worker_break` | 1 command, recover | violated: finding 1 |
| `domain_commands` | 2 commands with a stop, a shutdown or escaping errors; 1 command with escaping errors, a shutdown and a stop or a configuration change. No reconnect | outcomes honest, recorded before sent, not lost; generations, active operation, latched fault |
| `domain_repair` | a command with a recover or with escaping errors; a recover with a shutdown and escaping errors; a command with a stop and a shutdown. 1 reconnect | operations settle; implements the ledger |
| `domain_unlatched` | 1 command, escaping errors | violated: finding 2 |
| `ring_stream` | 2 publishers, 1 consumer, retention 3, capacity 2, 5 events, 2 lives | a stream drops nothing silently, gives nothing twice, events arrive |
| `ring_concurrent` | 2 publishers, 1 consumer, retention 2, 3 events | violated: finding 3 |
| `journal_requests` | 2 keys, each with two requests, 2 handlers; two requests at once in one life, or one at a time over two | a key names one operation; answers stay true; stored before success; no lost update; records only grow; nothing admitted undurably |
| `journal_policy` | 1 handler, 2 lives | violated: finding 4 |
| `protocol_line` | 9 commands, 2 requests, 2 connections, 3 identifiers, 1 fault of any kind | completions are own; stops and recoveries are trusted; sessions fail closed; both ends parse alike |
| `protocol_readiness` | the same without faults, 1 connection | violated: finding 5 |
| `vision_loops` | 2 chutes, 3 readings, 3 profiles, buffer 2, page 2; five sets of bounds | labels, autonomous sorts, attempts, chutes and outcomes |

Sums of instances. The full product of everything that may happen is out of
reach, and mostly not interesting. In the worker's and the domain's instances a
variable `offered`, and in `Journal` and `Vision` a variable `bound`, is chosen
in the initial state and never changes: each behaviour has the submissions, or
the amounts of each kind of event, of one of several instances. A run is then
the sum of these instances, each explored completely. In the domain's instances a
shutdown is one of the things offered, and a stop's client reads no snapshot,
since a stop is admitted whatever it observed.

Bounds. Two commands are what "a second one while the first executes" and "one
executing, one queued" need; a third only repeats the second. Two stops are a
stop and one that joins it. Capacity 1 makes the lane full with one item. One
reconnect attempt gives both a failure that is retried and one that is not;
`domain_commands` has none, because all the domain sees of a reconnect is
session states, which `domain_repair` goes through. Five events with retention 3
and capacity 2 overflow a subscriber, leave the window, and make a backlog that
is retained but does not fit. Two keys, each shared by two different requests,
give a retry, a conflict and an independent request; two requests at once in one
life, or one at a time in two, separate races from crashes, whose product is not
explored. Generations count up to 2 by themselves and further by what is
admitted. Three request identifiers and five event sequence numbers wrap within
a behaviour. Two requests after an activation of five queries give a request and
one that could meet its late answer. One fault of the line or the controller is
allowed, besides any number of stops and resets that the port refuses. Of the
ring's consumers one is enough, since subscribers share nothing but the ring,
which no consumer changes. In `Vision` a buffer of two evicts, a page of two
leaves a third success out, three suggestions share a run of two chutes or of
one, and four activations include a rollback of a rollback. The theorems below have no bounds.

Symmetry is used for commands, stops, handlers and publishers, in safety runs
only. `JournalView` leaves out observed generations that no later step reads:
those of a request that has compared its own or is outdated, and those of an
earlier life that the last life has passed. Deadlock is not
checked: a worker that has been closed, or a system whose bounds are used up,
has no step.

Fairness. The worker's thread is weakly fair: it is a running thread, and each
exchange it waits for has a finite timeout, which in the model is an
alternative outcome. Callers and the controller owe nothing. In the domain an
API thread that has admitted an operation continues to `Enqueue`, and a
registered callback runs. In the ring a publisher that numbered an event offers
it, and a handler thread keeps running up to its next write (`StreamHandler`).
The writes themselves (`StreamWrite`) are not fair, because the socket has no
timeout and a consumer that stays connected without reading blocks them;
`EventsArrive` is therefore about consumers that keep reading. The other modules state no
liveness: every read of the client has a deadline, every vision tick is retried
by its timer, and what a client of the API must wait for is in the domain.

## Findings

Five runs show the code doing something other than a comment or document of the
repository says. `PROJECT.json` quotes each line.

1. A command queued behind an operator `recover` survives the session break
   (`serial_worker.py:500` drains nothing).
2. When the transaction that should settle a command cannot begin, the outcome is
   lost and no fault is latched: the `ROLLBACK` in the exception handler raises
   an error that no handler expects (`journal.py:616`).
3. Two publishers may offer events in the wrong order, and a consumer that
   disconnects between them resumes past one (`events.py:91`).
4. After a restart, an older configuration with a higher generation is reported
   as the most recently applied one (`journal.py:462`).
5. After a stop nobody reads the controller's status again, so a sort is
   admitted and sent although the sorter's position is unknown
   (`serial_worker.py:596`). The simulated controller refuses it.

The models also reach the following, for which no run is kept; the hazards of
`PROJECT.json` note them.

- If the status read after a session repair fails, the new transport is never
  released (`serial_worker.py:506`).
- An operation admitted before a stop but enqueued after it is transmitted
  although the stop succeeded (`domain.py:285`).
- An uncertain session always comes with a failed worker, which refuses the
  `recover` that the domain admits to repair it (`serial_worker.py:459`).
- A cursor of a previous life is accepted once the new life has published that
  many events (`events.py:110`).
- An admission whose second transaction cannot begin leaves a queued row that
  nothing settles, with no new generation and no fault (`domain.py:553`).
- If the port refuses a recovery's stop and its reset, a movement goes on after
  the session was given up, as uncertain (`client.py:143`).
- A heartbeat moves a consumer's cursor back to 1 (`api.py:766`), although
  `api.py:364` says that it "moves nothing".
- During a routing run the autonomy gate looks up the threshold of the chute, not
  of the class (`autonomy.py:49`); latent until a primer detector exists.
- An expired key that is sent again meets its old row, and the failed insert
  latches the fault until a restart (`journal.py:306`).
- An outcome whose record fails after its example was stored is never recorded
  (`correlator.py:112`).

## Proofs

Every safety property of every passing run is also a theorem, for all sets of
operations, keys, handlers, consumers and commands and all values of the bounds,
from the named assumptions of the modules. The theorems with their properties
are listed in `PROJECT.json`; here is the argument of each module.

**`SerialWorkerProofs`**, from `WorkerAssumption` only (a positive capacity, a
natural number of reconnect attempts, disjoint kinds of items). The inductive
invariant is `WorkerInv`. That two commands never execute together is not
inductive: what rules out a second `Transmit` is where the thread can be while
something is still executing. `ExecutingIsWatched` says so, label by label: from
each of those labels the thread reaches `send` again only through `VerifyV1` or
`StopTrusted`, after which nothing executes. It needs in turn that a worker
whose stop failed is `failed` and stays so, that nothing is admitted unless the
session is `ready`, and that the session is not `ready` while recovery drains
the lane; these are the conjuncts of `ThreadPosition`. `OneTransport` rests on a
close that raised having failed the worker, which then starts no further item
(the conjunct on `leaked`). `QuietWhenStopped`
follows because `_resolve_stop` with a trusted stop is the only step that gives
a stop its result (`StopResult`). `Books` adds `Custody` (an admitted item is
queued once or held by the thread, and its caller still waits) and yields
`FuturesTellTheTruth`, which no run checks: a refused, withdrawn or drained item
was never sent, a result was completed, what a stop preempted is not executing.
`Custody` is also why a second answer and a second sending are impossible: an
item leaves the queue or the thread's hands in the step that answers it, and the
thread sends only what it holds unsent (`FuturesAnsweredOnce`,
`CommandsSentOnce`, which no run checks either).

**`OperationDomainProofs`**. Every step of the domain is a step of the worker or
leaves it alone, so `Books` is inherited, and with it all the worker promises by
itself (`WorkerInsideDomain`). `InStep` adds which durable state and
which phase of the request go with the place the worker has the item in, and
`DomainInv` is the two with the four invariants. `HonestOutcome` is then that
`Classify` only names what `FuturesAreTrue` says of the error; `NoOutcomeLost` is
that the journal is in a state from which the settlement is a legal transition.
It is about admissions and callbacks that ran to their end. Of those that an error
escaped from it says nothing, and finding 2 is that nothing can be said;
`FreshMeansUnchanged` names the one durable change that such an error leaves
without a generation.
The two action properties follow step by step. `DomainImplementsLedger` proves
the refinement: `LedgerStarts` and, for each action, a step of the ledger or a
stutter (`LedgerStep`).

**`JournalProofs`**. A crash may leave the committed database or the one with a
commit in doubt. `Durable` says that both are well kept and that the second has
everything the first has, which makes `Crash` and `Restart` harmless and gives
`RecordsOnlyGrow`. `InOrder` says of one handler what its step entitles it to:
it is the lock's owner exactly in the locked steps, its operation is on record,
and the values it will write back are those in force if it observed this life's
generation. The last is `NoLostUpdate`, whose proof is that a generation is
compared under the lock after the unlocked read, and that every change of the
configuration raises it.

`record_transition` reads the current state and refuses a transition that the
lifecycle does not allow. `WithTransition` has no such guard, and
`HistoriesAreLegal` is the reason it needs none: every history on record, and
every one a crash can leave, makes allowed transitions only. Its invariant
`HistoryInv` says in which state each handler's next write, and the worker's
callback, finds the operation, and that no two of them have the same operation
in hand. `SettledIsFinal`, that no step changes the history of an operation that
reached a terminal state, follows: a step at most appends, and a legal history
does not go on after a terminal state.

**`EventRingProofs`**, for any number of publishers and consumers. `RingShape`:
retained ids are consecutive and end before `nextId`, so a backlog is the ids
after the cursor. What the ring keeps is proved of one stream: from subscribing
until it ends or overflows it loses no event and gains every published one
(`StreamsLoseNothing`), and it gives none twice and none the cursor has passed
(`StreamsGiveOnce`, from `QueuedOnce`: an event is on its way by one way only).
Concurrent publishers and heartbeats do their harm between two streams, by the
cursor a consumer resumes from (finding 3).

**`VisionProofs`**, one part of `VisionInv` per loop. `FramesInv`: the buffer is
the newest stretch of everything captured, so what it no longer holds is older
than what it holds. `AutonomyInv`: an idempotency key is the suggestion, and a
tick holds a suggestion that was not attempted, which survives a tick that is
abandoned after the daemon admitted the sort because the key is replayed.
`RoutingInv`: each suggestion of the current run has its claim; that two claims
are two chutes is `validate_profile`, in `VisionAssumption`. `OutcomesInv`: an
operation is matched only in the tick that labels it. `NoSortAroundTheGate`,
which no run checks, says that the gate's decision is still true of the
suggestion when the daemon admits the sort.

**`ProtocolInvariant` and `ProtocolProofs`**, from `ControllerAssumption`.
`SessionInv` says for each step of the client which lines can be on their way in
either direction. Its core: a line that ends an exchange (a v1 answer, a
terminal, the exact `stopped`) is followed by quiet lines only, and is not there
while the client's own line still is. So nothing of an earlier exchange is left
when the next begins, and this, not the numbering, is why IDs may start again at
1 and wrap (`CompletionsAreOwn`). After a reset old lines may arrive late;
`Recovering` says that an old activation on the line is the first line, that no
frame follows it, and that then no ping is answered (`VerificationIsSound`).
`Agree` allows one exception, a controller that restarted by itself.
`ReturnedIsOver` is what a caller relies on between two calls: nothing under way
at the controller, nothing unread, no stray answer. These hold for any number of
faults. `SessionsFailClosed` adds `GivenUpStill`: where a session was given up
nothing moves and nothing on the line can start a movement (`Still`), or the
client says that it is uncertain; and of the steps that give up, only a reset
that failed can leave something moving.
`MaxId > 1` is assumed because the simulator's wrong identifier is the next one,
which with a single identifier would be the right one; the code's is 65535.

Only model-checked are the four liveness properties, `EveryFutureResolves`,
`CloseEndsThread`, `OperationsSettle` and `EventsArrive`: fairness and `ENABLED`
are out of the prover's reach. The properties of the violated runs are false, so
there is nothing to prove.

## Not modelled

- The firmware. `Controller` is built from the simulator, where a movement is
  one scheduled answer; steps, sensors, the slot queue and the feed lifecycle
  exist only in C++. The hazards list names what a model of it would be about.
- The web service (broadcast hub, sessions, limits, client). That a browser's
  request is resent with its key is taken up in `Journal`; the rest builds on
  durations or on `EventRing`.
- Durations. A deadline may expire at any moment; that two deadlines are in some
  order is not modelled, and neither is the configured limit on them.
- Images, features, learning, accuracy: numeric code without shared state.
- Option parsing, device policy, the lock file, JSON shapes, listings, schema
  migrations, installation and backup scripts: input and output, or steps whose
  behaviour is that of the operating system.

## Next

A model of the firmware's motion core, from which the movement of `Controller`
would be an abstraction; a composition of `Journal` and `OperationDomain` over
one durable state, so that a crash meets the worker's lane as well; and the web
service's broadcast hub over `EventRing`.
