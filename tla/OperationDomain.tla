-------------------------- MODULE OperationDomain ---------------------------
(***************************************************************************)
(* cs71d/domain.py over cs71d/machine.py, cs71d/journal.py and the serial  *)
(* worker: admitting, dispatching and durably settling operations.         *)
(*                                                                         *)
(* An operation is named by the work item or stop future it is handed to   *)
(* the worker as.  Every step below is one critical section of the machine *)
(* lock or of the worker's condition; an API thread that admitted an       *)
(* operation enqueues it in a later step, because it must release the      *)
(* machine lock first.  Any journal write may fail, in two ways: with a    *)
(* JournalError, which the domain turns into a latched fault, or, when not *)
(* even BEGIN could be executed, with the OperationalError of the ROLLBACK *)
(* that follows, which no handler of the domain catches.                   *)
(***************************************************************************)
EXTENDS SerialWorker, Operations

CONSTANT Configure    \* configuration changes: operations the worker never sees

Op == Future \cup Configure

ASSUME DomainAssumption ==
    /\ Query = {}                     \* the domain submits no queries
    /\ Configure \cap Future = {} /\ None \notin Configure

VARIABLES
    journal,           \* the durable state of each operation
    phase,             \* how far the request's API thread and callback are
    fresh,             \* the requests whose observed generation is the current one
    connection,        \* MachineSnapshot.connection
    journalAvailable,  \* MachineSnapshot.journal_available; false is a latched fault
    active             \* MachineSnapshot.active_operation_id

domainVars == <<journal, phase, fresh, connection,
                journalAvailable, active>>
vars == <<workerVars, domainVars>>

\* "escaped": the thread or callback ended with an error nobody caught.
Phase == {"idle", "enqueue", "settle", "finished", "escaped"}

DomainTypeOK ==
    /\ WorkerTypeOK
    /\ journal \in [Op -> OperationState \cup {"absent"}]
    /\ phase \in [Op -> Phase]
    /\ fresh \subseteq Op
    /\ connection \in ConnectionState
    /\ journalAvailable \in BOOLEAN
    /\ active \in Op \cup {None}

\* Daemon.start serves the API only after the worker's start has returned: the
\* thread waits for work on a verified session, whose four transitions and one
\* profile the view has published.
Serving ==
    /\ state = "running" /\ session = "ready"
    /\ transport = "open" /\ leaked = FALSE
    /\ normal = <<>> /\ stopRequested = FALSE /\ stopWaiters = {}
    /\ future = [f \in Future |-> "unsubmitted"]
    /\ fate = [i \in Item |-> "unsent"]
    /\ pc = "idle" /\ current = None /\ context = "startup"
    /\ fault = "lost" /\ attempts = 0

DomainInit ==
    /\ Serving
    /\ journal = [o \in Op |-> "absent"]
    /\ phase = [o \in Op |-> "idle"]
    /\ fresh = {}
    /\ connection = "ready"
    /\ journalAvailable = TRUE
    /\ active = None

-----------------------------------------------------------------------------
(* MachineState and the journal *)

\* _publish: every published change is a new generation, so whatever generation
\* a request observed is now stale.
PublishGeneration == fresh' = {}

\* Mutant: the fault is latched but no generation is published for it.
LatchFaultUnpublished == journalAvailable' = FALSE /\ UNCHANGED fresh

\* record_journal_fault: latches, and publishes, only once.
LatchFault ==
    /\ journalAvailable' = FALSE
    /\ fresh' = IF journalAvailable THEN {} ELSE fresh

\* Mutant: an unresolved outcome leaves the operation active.
TransitionKeepsUnresolvedActive(o, to) ==
    /\ journal' = [journal EXCEPT ![o] = to]
    /\ PublishGeneration
    /\ active' = IF to = "succeeded" THEN None ELSE o
    /\ UNCHANGED <<connection, journalAvailable>>

\* _transition whose journal write commits: the state is durable and published
\* as one generation, and the operation is the active one until it is terminal.
Transition(o, to) ==
    /\ journal' = [journal EXCEPT ![o] = to]
    /\ PublishGeneration
    /\ active' = IF to \in Terminal THEN None ELSE o
    /\ UNCHANGED <<connection, journalAvailable>>

\* What a journal write that fails raises.
WriteError == {"JournalError", "OperationalError"}

\* The fault handlers of _durable and _transition know JournalError only.
WriteFails(error) ==
    IF error = "JournalError" THEN LatchFault ELSE UNCHANGED <<journalAvailable, fresh>>

\* How the thread or callback that made the write ends.
Ending(error) == IF error = "JournalError" THEN "finished" ELSE "escaped"

\* Mutant: a write that failed is dropped without a fault.
TransitionDropped(error) == UNCHANGED <<journal, fresh, connection, journalAvailable, active>>

\* _transition whose write fails: nothing is published but the fault.
TransitionFails(error) ==
    /\ WriteFails(error)
    /\ UNCHANGED <<journal, connection, active>>

-----------------------------------------------------------------------------
(* Admission: submit, stop, _session_operation, configure *)

\* Mutant: a state the lifecycle does not have.
AdmissionPathDispatched(o) ==
    IF o \in Stop THEN <<"queued", "accepted", "dispatched">> ELSE <<"queued", "accepted">>

\* The writes an admission makes while it holds the machine lock, by the state
\* they leave the operation in.  All but the first publish a generation; the
\* fourth of a configuration change is the configuration snapshot.
AdmissionPath(o) ==
    CASE o \in Item      -> <<"queued", "accepted">>
      [] o \in Stop      -> <<"queued", "accepted", "running">>
      [] o \in Configure -> <<"queued", "accepted", "running", "running", "succeeded">>

\* A client reads the snapshot its request will be made against.
ReadSnapshot(o) ==
    /\ phase[o] = "idle"
    /\ fresh' = fresh \cup {o}
    /\ UNCHANGED <<journal, phase, connection, journalAvailable,
                   active, workerVars>>

\* Mutant: a stop is admitted although it cannot be recorded durably.
AdmissibleUndurableStop(o) ==
    /\ phase[o] = "idle"
    /\ journalAvailable \/ o \in Stop
    /\ o \in fresh \/ o \in Stop
    /\ o \in Motion => connection = "ready"

\* What the checks under the lock require; a request that fails them changes
\* nothing.  A stop may ask for the attempt whatever it observed.
Admissible(o) ==
    /\ phase[o] = "idle"
    /\ journalAvailable
    /\ o \in fresh \/ o \in Stop
    /\ o \in Motion => connection = "ready"

Admit(o) ==
    /\ Admissible(o)
    /\ LET path == AdmissionPath(o)
           end  == path[Len(path)]
       IN /\ journal' = [journal EXCEPT ![o] = end]
          /\ active' = IF end \in Terminal THEN None ELSE o
    /\ PublishGeneration
    /\ phase' = [phase EXCEPT ![o] = IF o \in Configure THEN "finished" ELSE "enqueue"]
    /\ UNCHANGED <<connection, journalAvailable, workerVars>>

\* One of the writes fails, the first or the one after k that committed: the caller is
\* told that the journal is unavailable or that the request failed, and nothing reaches
\* the worker.
AdmitFails(o, error) ==
    /\ Admissible(o)
    /\ \/ TransitionFails(error)
       \/ \E k \in 1..Len(AdmissionPath(o)) - 1 :
            /\ journal' = [journal EXCEPT ![o] = AdmissionPath(o)[k]]
            /\ IF k = 1 THEN UNCHANGED active /\ WriteFails(error)
               ELSE /\ active' = o /\ PublishGeneration
                    /\ journalAvailable' = (error # "JournalError")
            /\ UNCHANGED connection
    /\ phase' = [phase EXCEPT ![o] = Ending(error)]
    /\ UNCHANGED workerVars

\* refresh_durability found the disk or the backup wanting.
DurabilityThreat ==
    /\ journalAvailable
    /\ LatchFault
    /\ UNCHANGED <<journal, phase, connection, active, workerVars>>

\* Mutant: an operation the worker refuses is reported but not settled.
EnqueueWithoutResolve(o) ==
    /\ phase[o] = "enqueue"
    /\ IF o \in Stop THEN SubmitStop(o) ELSE Submit(o)
    /\ phase' = [phase EXCEPT ![o] = IF future'[o] = "pending" THEN "settle" ELSE "finished"]
    /\ UNCHANGED <<journal, fresh, connection, journalAvailable, active>>

\* Outside the machine lock: hand the operation to the worker.  A refusal is
\* settled like any other outcome, then raised to the caller.
Enqueue(o) ==
    /\ phase[o] = "enqueue"
    /\ IF o \in Stop THEN SubmitStop(o) ELSE Submit(o)
    /\ phase' = [phase EXCEPT ![o] = "settle"]
    /\ UNCHANGED <<journal, fresh, connection, journalAvailable, active>>

-----------------------------------------------------------------------------
(* Dispatch and settlement *)

\* Mutant: a command whose dispatch could not be recorded is sent all the same.
DispatchUnrecorded ==
    \/ /\ GatePasses
       /\ Transition(current, "running") \/ TransitionFails("JournalError")
       /\ UNCHANGED phase
    \/ /\ GateWithdraws("DeadlineExpired")
       /\ UNCHANGED domainVars

\* _dispatch on the worker thread, immediately before the first byte.  Whatever the
\* write raised, the worker withdraws the intent.
Dispatch ==
    \/ /\ GatePasses
       /\ Transition(current, "running")
       /\ UNCHANGED phase
    \/ /\ GateWithdraws("DeadlineExpired")
       /\ UNCHANGED domainVars
    \/ /\ GateWithdraws("JournalError")
       /\ \E error \in WriteError : TransitionFails(error)
       /\ UNCHANGED phase

\* The terminal state a resolved future stands for: _complete and _resolve.
Settlement(o) ==
    CASE future[o] = "result" -> "succeeded"
      [] future[o] = "error"  -> "failed"
      [] OTHER                -> Classify(journal[o], future[o])

\* _settle and _settle_stop, on the thread that resolved the future or, when it
\* was resolved before the callback was registered, on the API thread.  An
\* illegal transition is refused by the journal and lost in the callback.
Settle(o) ==
    /\ phase[o] = "settle" /\ Resolved(future[o])
    /\ \/ /\ CanTransition(journal[o], Settlement(o)) /\ Transition(o, Settlement(o))
          /\ phase' = [phase EXCEPT ![o] = "finished"]
       \/ /\ ~CanTransition(journal[o], Settlement(o))
          /\ phase' = [phase EXCEPT ![o] = "finished"]
          /\ UNCHANGED <<journal, fresh, connection, journalAvailable, active>>
       \/ \E error \in WriteError :
            TransitionFails(error) /\ phase' = [phase EXCEPT ![o] = Ending(error)]
    /\ UNCHANGED workerVars

-----------------------------------------------------------------------------
(* The worker thread, and what it publishes into the machine view *)

\* The thread is inside its session observer until the view has caught up.
Observed == connection = session

ObserveConnection ==
    /\ ~Observed
    /\ connection' = session /\ PublishGeneration
    /\ UNCHANGED <<journal, phase, journalAvailable, active, workerVars>>

\* observe_profile publishes a generation when what it read has changed.
ObserveProfile ==
    /\ ThreadProfile
    /\ PublishGeneration \/ UNCHANGED fresh
    /\ UNCHANGED <<journal, phase, connection, journalAvailable, active>>

WorkerThread ==
    \/ ObserveConnection
    \/ Observed /\ Dispatch
    \/ Observed /\ ObserveProfile
    \/ Observed /\ ThreadInternal /\ UNCHANGED domainVars

Shutdown == Close /\ UNCHANGED domainVars

Controller == (\E i \in Item : ControllerAnswers(i)) /\ UNCHANGED domainVars

DomainNext ==
    \/ \E o \in Op : ReadSnapshot(o) \/ Admit(o) \/ \E error \in WriteError : AdmitFails(o, error)
    \/ \E o \in Future : Enqueue(o) \/ Settle(o)
    \/ DurabilityThreat
    \/ WorkerThread \/ Shutdown \/ Controller

DomainSpec == DomainInit /\ [][DomainNext]_vars

\* The worker thread keeps running, an API thread that admitted an operation
\* goes on to enqueue it, and a registered callback runs.
Fairness ==
    /\ WF_vars(WorkerThread)
    /\ \A o \in Future : WF_vars(Enqueue(o)) /\ WF_vars(Settle(o))

FairDomainSpec == DomainSpec /\ Fairness

-----------------------------------------------------------------------------
(* Properties *)

\* The journal never claims more than the controller did.  A success has its
\* own trusted terminal; a failure was never transmitted or was refused by the
\* controller; a cancelled command is not executing any more.
HonestOutcome ==
    \A i \in Motion :
      /\ journal[i] = "succeeded" => fate[i] = "done"
      /\ journal[i] = "failed"    => fate[i] \in {"unsent", "error"}
      /\ journal[i] = "cancelled" => fate[i] # "sent"

\* Nothing is transmitted that is not already durably running.
RecordedBeforeSent ==
    \A i \in Motion : fate[i] # "unsent" => journal[i] \in {"running"} \cup Terminal

\* A client that still holds the current generation has missed nothing it could have been
\* told of: any step that changes the published view, or the durable state of any
\* operation, makes every outstanding observation stale, so that one generation admits at
\* most one operation, also when the admission fails half-way.  The one durable change
\* without a generation is the queued row of an admission whose next BEGIN failed, which
\* nobody will ever settle (_transition, record_journal_fault).
FreshMeansUnchanged ==
    [][/\ <<connection, journalAvailable, active>>' # <<connection, journalAvailable, active>>
            => fresh' = {}
       /\ \A o \in Op : journal'[o] # journal[o] =>
            fresh' = {} \/ (journal'[o] = "queued" /\ phase'[o] = "escaped")]_vars

\* An operation whose admission and callback ran to their end is terminal, unless the
\* daemon says that its journal is unavailable (_settle, _safe_transition, _durable).
NoOutcomeLost ==
    \A o \in Op : phase[o] = "finished" => journal[o] \in Terminal \/ ~journalAvailable

\* What _safe_transition's docstring promises of an outcome it cannot record: the failure
\* latches the machine as undurable.  So the outcome of a future that was resolved and
\* whose callback is over is on record, or the daemon says that its journal is unavailable.
\* (A BEGIN that fails breaks it.)
OutcomeKeptOrLatched ==
    \A o \in Future :
      Resolved(future[o]) /\ phase[o] \in {"finished", "escaped"}
        => journal[o] \in Terminal \/ ~journalAvailable

\* The view never names a settled operation as the active one.
ActiveIsLive == active # None => journal[active] \notin Terminal

\* A latched fault never clears, and nothing is admitted under it, while the
\* operations already in flight may still settle.
FaultIsLatched ==
    [][~journalAvailable =>
         /\ ~journalAvailable'
         /\ \A o \in Op : journal[o] = "absent" => journal'[o] = "absent"]_vars

\* Every admitted operation reaches a terminal state, whatever the worker, the session
\* and a shutdown do, unless the journal fails: then the fault is latched, or the callback
\* that should have recorded the outcome ended with the error (_settle, _resolve).
OperationsSettle ==
    \A o \in Future : phase[o] = "enqueue" ~>
       journal[o] \in Terminal \/ ~journalAvailable \/ phase[o] = "escaped"

-----------------------------------------------------------------------------
(* The abstract ledger the domain implements *)

Effect ==
    [i \in Motion |->
       CASE fate[i] = "unsent" -> "none"
         [] fate[i] = "sent"   -> "executing"
         [] fate[i] = "done"   -> "done"
         [] fate[i] = "error"  -> "refused"
         [] OTHER              -> "over"]

Ledger == INSTANCE OperationLedger
            WITH Command <- Motion, Other <- Op \ Motion,
                 ledger <- journal, effect <- Effect

\* Threads, queues and sessions only ever take the steps the ledger allows.
ImplementsLedger == Ledger!LedgerSpec
=============================================================================
