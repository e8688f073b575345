----------------------- MODULE OperationDomainProofs ------------------------
(***************************************************************************)
(* Proofs about OperationDomain, for every set of operations of each kind: *)
(* its safety invariants, its action properties, and that it implements    *)
(* OperationLedger.                                                        *)
(*                                                                         *)
(* The inductive invariant joins the books of three parties.  Books says   *)
(* that the worker keeps an item in one place and that its future is true; *)
(* InStep says which durable state and which phase of the request go with  *)
(* that place.  Every step of the domain is a step of the worker or leaves *)
(* it alone, so Books is inherited, and only InStep has to be carried      *)
(* through the domain's own steps.                                         *)
(***************************************************************************)
EXTENDS OperationDomain, SerialWorkerProofs

\* Zenon proves most leaves; those that need arithmetic or sequences cite SMT.
USE Zenon

\* The durable state of an operation, by where the operation is: an item is
\* accepted while it is queued or at the gate and running from the gate on, and a
\* stop is running before it is handed to the worker.
InStep ==
    /\ \A o \in Op :
         /\ phase[o] = "idle" => journal[o] = "absent"
         /\ phase[o] = "enqueue" =>
              o \in Future /\ journal[o] = IF o \in Stop THEN "running" ELSE "accepted"
         /\ phase[o] = "settle" =>
              o \in Future /\ (journal[o] = "running" \/ (o \in Item /\ journal[o] = "accepted"))
    /\ \A f \in Future :
         /\ phase[f] \in {"idle", "enqueue"} => future[f] = "unsubmitted"
         /\ phase[f] = "settle" => future[f] # "unsubmitted"
         /\ future[f] = "pending" => phase[f] = "settle"
         /\ phase[f] = "settle" /\ future[f] = "result" => journal[f] = "running"
    /\ \A i \in Range(normal) : journal[i] = "accepted"
    /\ pc = "gate" => journal[current] = "accepted"
    /\ current # None /\ pc # "gate" => journal[current] = "running"
    /\ \A i \in Motion : phase[i] = "settle" /\ fate[i] # "unsent" => journal[i] = "running"

\* The inductive invariant.
DomainInv ==
    /\ DomainTypeOK /\ Books /\ InStep
    /\ HonestOutcome /\ RecordedBeforeSent /\ NoOutcomeLost /\ ActiveIsLive

-----------------------------------------------------------------------------
(* Operations, their admission and their settlement *)

\* Configuration changes are the operations the worker never sees, and the domain
\* submits no queries.
LEMMA OpKinds ==
  /\ Op = Future \cup Configure /\ Future \subseteq Op /\ Configure \subseteq Op
  /\ Configure \cap Future = {} /\ None \notin Op
  /\ Item \subseteq Op /\ Motion \subseteq Op /\ Motion \subseteq Future /\ Stop \subseteq Op
  /\ Query = {} /\ Item = Motion \cup Session /\ Motion \cap Session = {}
  /\ Future = Item \cup Stop
BY Kinds, DomainAssumption DEF Op, Future

\* The lifecycle as a relation.
LEMMA Lifecycle ==
  /\ AllowedTransitions("accepted") = {"running", "failed", "cancelled", "uncertain"}
  /\ AllowedTransitions("running") = {"succeeded", "failed", "cancelled", "uncertain"}
<1>1. AllowedTransitions("accepted") = {"running"} \cup Unresolved
  BY DEF AllowedTransitions
<1>2. AllowedTransitions("running") = {"succeeded"} \cup Unresolved
  BY DEF AllowedTransitions
<1> QED
  BY <1>1, <1>2 DEF Unresolved

\* What an admission writes, and where it ends.
LEMMA Admission ==
  ASSUME NEW o \in Op
  PROVE  /\ Len(AdmissionPath(o)) \in 2..5 /\ AdmissionPath(o)[1] = "queued"
         /\ \A k \in 1..Len(AdmissionPath(o)) - 1 :
              /\ AdmissionPath(o)[k] \in {"queued", "accepted", "running"}
              /\ o \in Item => AdmissionPath(o)[k] = "queued"
         /\ AdmissionPath(o)[Len(AdmissionPath(o))] =
              IF o \in Item THEN "accepted" ELSE IF o \in Stop THEN "running" ELSE "succeeded"
<1>1. CASE o \in Item
  <2>1. AdmissionPath(o) = <<"queued", "accepted">>
    BY <1>1, OpKinds, Kinds DEF AdmissionPath
  <2>2. Len(AdmissionPath(o)) = 2
    BY <2>1, SMT
  <2> QED
    BY <1>1, <2>1, <2>2, SMT
<1>2. CASE o \in Stop
  <2>1. AdmissionPath(o) = <<"queued", "accepted", "running">>
    BY <1>2, OpKinds, Kinds DEF AdmissionPath
  <2>2. Len(AdmissionPath(o)) = 3 /\ o \notin Item
    BY <1>2, <2>1, Kinds
  <2> QED
    BY <1>2, <2>1, <2>2, SMT
<1>3. CASE o \in Configure
  <2>1. o \notin Item /\ o \notin Stop
    BY <1>3, OpKinds
  <2>2. AdmissionPath(o) = <<"queued", "accepted", "running", "running", "succeeded">>
    BY <1>3, <2>1 DEF AdmissionPath
  <2>3. Len(AdmissionPath(o)) = 5
    BY <2>2, SMT
  <2> QED
    BY <2>1, <2>2, <2>3, SMT
<1> QED
  BY <1>1, <1>2, <1>3, OpKinds

\* An admission of which some write fails, with either error.
AdmissionFails(o) == \E error \in WriteError : AdmitFails(o, error)

\* A write that fails latches the fault and is handled, or is not handled and leaves the
\* view alone.
LEMMA FailedWrite ==
  ASSUME NEW error \in WriteError, WriteFails(error), journalAvailable \in BOOLEAN
  PROVE  /\ \/ Ending(error) = "finished" /\ journalAvailable' = FALSE
            \/ Ending(error) = "escaped" /\ journalAvailable' = journalAvailable
         /\ journalAvailable' # journalAvailable => fresh' = {}
         /\ fresh' \in {fresh, {}}
<1>1. CASE error = "JournalError"
  <2>1. /\ journalAvailable' = FALSE /\ fresh' = (IF journalAvailable THEN {} ELSE fresh)
        /\ Ending(error) = "finished"
    BY <1>1 DEF WriteFails, LatchFault, Ending
  <2>2. CASE journalAvailable = TRUE
    BY <2>1, <2>2
  <2>3. CASE journalAvailable = FALSE
    BY <2>1, <2>3
  <2> QED
    BY <2>2, <2>3
<1>2. CASE error # "JournalError"
  BY <1>2 DEF WriteFails, Ending
<1> QED
  BY <1>1, <1>2

\* An admission that fails half-way: what it leaves in the journal and in the view.
LEMMA FailedAdmission ==
  ASSUME NEW o \in Op, AdmissionFails(o), DomainTypeOK
  PROVE  /\ Admissible(o) /\ UNCHANGED <<connection, workerVars>>
         /\ \/ phase' = [phase EXCEPT ![o] = "finished"] /\ journalAvailable' = FALSE
            \/ phase' = [phase EXCEPT ![o] = "escaped"] /\ journalAvailable' = journalAvailable
         /\ journalAvailable' # journalAvailable => fresh' = {}
         /\ fresh' \in {fresh, {}}
         /\ \/ UNCHANGED <<journal, active>>
            \/ \E k \in 1..Len(AdmissionPath(o)) - 1 :
                 /\ journal' = [journal EXCEPT ![o] = AdmissionPath(o)[k]]
                 /\ \/ fresh' = {} /\ active' \in {active, o}
                    \/ k = 1 /\ phase' = [phase EXCEPT ![o] = "escaped"] /\ UNCHANGED active
<1> PICK error \in WriteError : AdmitFails(o, error)
  BY DEF AdmissionFails
<1> DEFINE ended == phase' = [phase EXCEPT ![o] = Ending(error)]
<1>1. Admissible(o) /\ UNCHANGED <<connection, workerVars>> /\ ended
  BY DEF AdmitFails, TransitionFails
<1>2. journalAvailable \in BOOLEAN /\ journalAvailable = TRUE
  BY <1>1 DEF DomainTypeOK, Admissible
<1>3. ASSUME NEW k \in 1..Len(AdmissionPath(o)) - 1,
             journal' = [journal EXCEPT ![o] = AdmissionPath(o)[k]],
             IF k = 1 THEN UNCHANGED active /\ WriteFails(error)
             ELSE /\ active' = o /\ PublishGeneration
                  /\ journalAvailable' = (error # "JournalError")
      PROVE  /\ \/ Ending(error) = "finished" /\ journalAvailable' = FALSE
                \/ Ending(error) = "escaped" /\ journalAvailable' = journalAvailable
             /\ journalAvailable' # journalAvailable => fresh' = {}
             /\ fresh' \in {fresh, {}}
             /\ \/ fresh' = {} /\ active' \in {active, o}
                \/ k = 1 /\ Ending(error) = "escaped" /\ UNCHANGED active
  <2>1. CASE k = 1
    BY <1>2, <1>3, <2>1, FailedWrite
  <2>2. CASE k # 1 /\ error = "JournalError"
    BY <1>2, <1>3, <2>2 DEF PublishGeneration, Ending
  <2>3. CASE k # 1 /\ error # "JournalError"
    BY <1>2, <1>3, <2>3 DEF PublishGeneration, Ending
  <2> QED
    BY <2>1, <2>2, <2>3
<1> QED
  <2>1. CASE \E k \in 1..Len(AdmissionPath(o)) - 1 :
               /\ journal' = [journal EXCEPT ![o] = AdmissionPath(o)[k]]
               /\ IF k = 1 THEN UNCHANGED active /\ WriteFails(error)
                  ELSE /\ active' = o /\ PublishGeneration
                       /\ journalAvailable' = (error # "JournalError")
    BY <1>1, <1>3, <2>1
  <2>2. CASE TransitionFails(error)
    <3>1. UNCHANGED <<journal, active>> /\ WriteFails(error)
      BY <2>2 DEF TransitionFails
    <3> QED
      BY <1>1, <1>2, <3>1, FailedWrite
  <2> QED
    BY <2>1, <2>2 DEF AdmitFails

\* What the callback of a resolved future settles, by what the future holds and
\* whether the operation was durably running.
LEMMA Settled ==
  ASSUME NEW o \in Op
  PROVE  /\ future[o] = "result" => Settlement(o) = "succeeded"
         /\ future[o] = "error" => Settlement(o) = "failed"
         /\ future[o] \notin {"result", "error"} => Settlement(o) = Classify(journal[o], future[o])
BY DEF Settlement

-----------------------------------------------------------------------------
(* What the worker may do under a domain step *)

\* Every domain step is a worker step or leaves the worker alone.
LEMMA WorkerSteps ==
  ASSUME [DomainNext]_vars
  PROVE  [WorkerNext]_workerVars
<1> USE DEF vars
<1>1. CASE \E o \in Op : ReadSnapshot(o) \/ Admit(o) \/ AdmissionFails(o)
  BY <1>1 DEF ReadSnapshot, Admit, AdmitFails, AdmissionFails
<1>2. ASSUME NEW o \in Future, Enqueue(o) PROVE WorkerNext
  BY <1>2, OpKinds DEF Enqueue, WorkerNext, Caller
<1>3. CASE \E o \in Future : Settle(o)
  BY <1>3 DEF Settle
<1>4. CASE DurabilityThreat \/ ObserveConnection
  BY <1>4 DEF DurabilityThreat, ObserveConnection
<1>5. CASE Dispatch
  BY <1>5 DEF Dispatch, WorkerNext, Thread, ThreadGate, Withdrawal
<1>6. CASE ObserveProfile \/ ThreadInternal \/ Shutdown \/ Controller
  BY <1>6 DEF ObserveProfile, Shutdown, Controller, WorkerNext, Thread, Caller
<1> QED
  BY <1>1, <1>2, <1>3, <1>4, <1>5, <1>6 DEF DomainNext, WorkerThread, AdmissionFails

\* A command is sent by the thread that holds it, and then ends once.
LEMMA FateMoves ==
  ASSUME Books, [WorkerNext]_workerVars, NEW i \in Motion
  PROVE  \/ fate'[i] = fate[i]
         \/ /\ fate[i] = "unsent" /\ fate'[i] = "sent"
            /\ i = current /\ pc = "send"
         \/ /\ fate[i] = "sent"
            /\ fate'[i] \in {"done", "error", "halted", "reset"}
<1>1. fate \in [Item -> Fate] /\ i \in Item
  BY Kinds DEF Books, WorkerInv, WorkerTypeOK
<1>2. CASE pc = "send" /\ fate' = [fate EXCEPT ![current] = "sent"]
  BY <1>1, <1>2 DEF Books, Custody
<1>3. CASE \E j \in Item, end \in {"done", "error"} :
             fate[j] = "sent" /\ fate' = [fate EXCEPT ![j] = end]
  BY <1>1, <1>3
<1>4. CASE \E end \in {"halted", "reset"} : fate' = Ended(end)
  BY <1>1, <1>4 DEF Ended
<1> QED
  BY <1>2, <1>3, <1>4, FateStep

-----------------------------------------------------------------------------
(* The inductive invariant *)

\* Before the first request the books agree.
LEMMA DomainStart == DomainInit => DomainInv
<1> SUFFICES ASSUME DomainInit PROVE DomainInv
  OBVIOUS
<1> USE DEF DomainInit, Serving
<1>1. WorkerTypeOK
  <2>1. normal \in Seq(Item)
    BY SMT
  <2>2. stopRequested \in BOOLEAN /\ leaked \in BOOLEAN
    OBVIOUS
  <2> QED
    BY <2>1, <2>2, WorkerAssumption, SMT
       DEF WorkerTypeOK, WorkerState, ConnectionState, Outcome, Fate, PC
<1>2. WorkerInv
  BY <1>1, EmptyLane
     DEF WorkerInv, ThreadPosition, StopEmptiesLane, RecoveryDiscardsQueue, OneTransport,
         OneCommandAtATime, ExecutingIsWatched
<1>3. Custody /\ FuturesAreTrue
  BY EmptyLane, Kinds, SMT DEF Custody, FuturesAreTrue, Holding, Refusal, Withdrawal
<1>4. DomainTypeOK
  <2>1. journalAvailable \in BOOLEAN
    OBVIOUS
  <2> QED
    BY <1>1, <2>1 DEF DomainTypeOK, ConnectionState, Phase
<1>5. InStep
  BY EmptyLane, OpKinds DEF InStep
<1>6. HonestOutcome /\ RecordedBeforeSent /\ NoOutcomeLost /\ ActiveIsLive
  BY OpKinds, Kinds
     DEF HonestOutcome, RecordedBeforeSent, NoOutcomeLost, ActiveIsLive
<1> QED
  BY <1>2, <1>3, <1>4, <1>5, <1>6 DEF DomainInv, Books

\* Every step of the domain keeps the types of its variables.
LEMMA DomainTypeStep ==
  ASSUME DomainTypeOK, Books, Books', [DomainNext]_vars
  PROVE  DomainTypeOK'
<1>1. WorkerTypeOK'
  BY DEF Books, WorkerInv
<1>2. Terminal \subseteq OperationState /\ {"queued", "accepted", "running"} \subseteq OperationState
      /\ {"enqueue", "settle", "finished", "escaped"} \subseteq Phase
  BY DEF Terminal, OperationState, Phase
<1>3. \A o \in Op : CanTransition(journal[o], Settlement(o)) => Settlement(o) \in OperationState
  BY Settled DEF Classify, OperationState
<1>4. current # None => current \in Op
  BY OpKinds DEF Books, WorkerInv, WorkerTypeOK
<1>5. pc = "gate" => current # None
  BY DEF Books, Custody, Holding
<1>a. DomainTypeOK /\ journalAvailable \in BOOLEAN
  BY DEF DomainTypeOK
<1>b. ASSUME NEW error \in WriteError, WriteFails(error)
      PROVE  fresh' \subseteq Op /\ journalAvailable' \in BOOLEAN
  BY <1>a, <1>b, FailedWrite DEF DomainTypeOK
<1>c. ASSUME NEW o \in Op, AdmissionFails(o)
      PROVE  /\ fresh' \subseteq Op /\ journalAvailable' \in BOOLEAN
             /\ phase' \in [Op -> Phase] /\ connection' = connection /\ active' \in Op \cup {None}
             /\ \/ journal' = journal
                \/ \E k \in 1..Len(AdmissionPath(o)) - 1 :
                     journal' = [journal EXCEPT ![o] = AdmissionPath(o)[k]]
  <2>1. fresh' \in {fresh, {}} /\ connection' = connection /\ active' \in {active, o}
    BY <1>a, <1>c, FailedAdmission
  <2>2. journalAvailable' \in BOOLEAN
    BY <1>a, <1>c, FailedAdmission
  <2>3. \E end \in {"finished", "escaped"} : phase' = [phase EXCEPT ![o] = end]
    BY <1>a, <1>c, FailedAdmission
  <2>4. \/ journal' = journal
        \/ \E k \in 1..Len(AdmissionPath(o)) - 1 :
             journal' = [journal EXCEPT ![o] = AdmissionPath(o)[k]]
    BY <1>a, <1>c, FailedAdmission
  <2>5. fresh' \subseteq Op /\ active' \in Op \cup {None}
    BY <2>1 DEF DomainTypeOK
  <2>6. phase' \in [Op -> Phase]
    BY <1>2, <2>3 DEF DomainTypeOK
  <2> QED
    BY <2>1, <2>2, <2>4, <2>5, <2>6
<1> SUFFICES /\ journal' \in [Op -> OperationState \cup {"absent"}] /\ phase' \in [Op -> Phase]
             /\ fresh' \subseteq Op /\ connection' \in ConnectionState
             /\ journalAvailable' \in BOOLEAN /\ active' \in Op \cup {None}
  BY <1>1 DEF DomainTypeOK
<1> USE <1>2 DEF DomainTypeOK, PublishGeneration, LatchFault, domainVars
<1>6. ASSUME NEW o \in Op, ReadSnapshot(o) PROVE DomainTypeOK'
  BY <1>1, <1>6 DEF ReadSnapshot
<1>7. ASSUME NEW o \in Op, Admit(o) PROVE DomainTypeOK'
  <2>1. AdmissionPath(o)[Len(AdmissionPath(o))] \in OperationState
    BY Admission DEF OperationState
  <2> QED
    BY <1>1, <1>7, <2>1 DEF Admit
<1>8. ASSUME NEW o \in Op, AdmissionFails(o) PROVE DomainTypeOK'
  <2>1. \A k \in 1..Len(AdmissionPath(o)) - 1 : AdmissionPath(o)[k] \in OperationState
    BY Admission DEF OperationState
  <2> QED
    BY <1>1, <1>8, <1>c, <2>1
<1>9. ASSUME NEW o \in Future, Enqueue(o) PROVE DomainTypeOK'
  BY <1>1, <1>9, OpKinds DEF Enqueue
<1>10. ASSUME NEW o \in Future, Settle(o) PROVE DomainTypeOK'
  <2>1. o \in Op
    BY OpKinds
  <2>2. phase' \in [Op -> Phase]
    BY <1>10, <2>1 DEF Settle, Ending
  <2>3. CASE CanTransition(journal[o], Settlement(o)) /\ Transition(o, Settlement(o))
    BY <1>1, <1>3, <2>1, <2>2, <2>3 DEF Transition
  <2>4. CASE UNCHANGED <<journal, fresh, connection, journalAvailable, active>>
    BY <1>1, <2>2, <2>4
  <2>5. ASSUME NEW error \in WriteError, TransitionFails(error) PROVE DomainTypeOK'
    BY <1>1, <1>b, <2>2, <2>5 DEF TransitionFails
  <2> QED
    BY <1>10, <2>3, <2>4, <2>5 DEF Settle
<1>11. CASE DurabilityThreat \/ Shutdown \/ Controller
  BY <1>1, <1>11 DEF DurabilityThreat, Shutdown, Controller
<1>12. CASE ObserveConnection \/ ObserveProfile \/ (ThreadInternal /\ UNCHANGED domainVars)
  BY <1>1, <1>12 DEF ObserveConnection, ObserveProfile, Books, WorkerInv, WorkerTypeOK
<1>13. CASE Dispatch
  BY <1>1, <1>4, <1>5, <1>13, <1>b DEF Dispatch, GatePasses, Transition, TransitionFails
<1>14. CASE UNCHANGED vars
  BY <1>1, <1>14 DEF vars
<1> QED
  BY <1>6, <1>7, <1>8, <1>9, <1>10, <1>11, <1>12, <1>13, <1>14
     DEF DomainNext, WorkerThread, AdmissionFails

\* The safety invariants but for types, as one formula.
Sound == InStep /\ HonestOutcome /\ RecordedBeforeSent /\ NoOutcomeLost /\ ActiveIsLive

\* An admission: the operation was absent, so nothing was ever sent for it.
LEMMA AdmitStep ==
  ASSUME DomainInv, NEW o \in Op, Admit(o) \/ AdmissionFails(o)
  PROVE  Sound'
<1> DEFINE end == AdmissionPath(o)[Len(AdmissionPath(o))]
<1>0. Admissible(o) /\ UNCHANGED workerVars
  BY FailedAdmission DEF Admit, DomainInv
<1>1. PICK to \in {"absent", "queued", "accepted", "running", "succeeded"} :
        /\ journal' = [journal EXCEPT ![o] = to]
        /\ to = "succeeded" \/ phase'[o] \in {"enqueue", "escaped"} \/ ~journalAvailable'
        /\ phase'[o] = "enqueue" => to = IF o \in Stop THEN "running" ELSE "accepted"
        /\ o \in Item => to \in {"absent", "queued", "accepted"}
  <2>0. journal = [journal EXCEPT ![o] = "absent"]
    <3>1. journal[o] = "absent" /\ journal \in [Op -> OperationState \cup {"absent"}]
      BY <1>0 DEF Admissible, DomainInv, InStep, DomainTypeOK
    <3> QED
      BY <3>1
  <2>a. phase \in [Op -> Phase]
    BY DEF DomainInv, DomainTypeOK
  <2>1. CASE Admit(o)
    <3>1. end = IF o \in Item THEN "accepted" ELSE IF o \in Stop THEN "running" ELSE "succeeded"
      BY Admission
    <3>2. journal' = [journal EXCEPT ![o] = end]
          /\ phase'[o] = (IF o \in Configure THEN "finished" ELSE "enqueue")
      BY <2>1, <2>a DEF Admit
    <3>3. o \in Configure \/ o \in Item \/ o \in Stop
      BY OpKinds
    <3>4. (o \in Configure => o \notin Item /\ o \notin Stop) /\ (o \in Item => o \notin Stop)
      BY OpKinds, Kinds
    <3> HIDE DEF end
    <3> QED
      BY <3>1, <3>2, <3>3, <3>4
  <2>2. CASE AdmissionFails(o)
    <3>1. \/ phase'[o] = "finished" /\ ~journalAvailable'
          \/ phase'[o] = "escaped"
      BY <2>2, <2>a, FailedAdmission DEF DomainInv
    <3>2. CASE journal' = journal
      BY <2>0, <3>1, <3>2
    <3>3. ASSUME NEW k \in 1..Len(AdmissionPath(o)) - 1,
                 journal' = [journal EXCEPT ![o] = AdmissionPath(o)[k]]
          PROVE \E to \in {"queued", "accepted", "running"} :
                  /\ journal' = [journal EXCEPT ![o] = to]
                  /\ o \in Item => to = "queued"
      BY <3>3, Admission
    <3> QED
      BY <2>2, <3>1, <3>2, <3>3, FailedAdmission DEF DomainInv
  <2> QED
    BY <2>1, <2>2
<1>2. /\ \A p \in Op : p # o => journal'[p] = journal[p] /\ phase'[p] = phase[p]
      /\ journal'[o] = to /\ phase[o] = "idle" /\ phase'[o] \in {"enqueue", "finished", "escaped"}
      /\ journal[o] = "absent"
  <2>1. phase \in [Op -> Phase] /\ journal \in [Op -> OperationState \cup {"absent"}]
    BY DEF DomainInv, DomainTypeOK
  <2>2. \E ph \in {"enqueue", "finished", "escaped"} : phase' = [phase EXCEPT ![o] = ph]
    BY FailedAdmission DEF Admit, DomainInv
  <2> QED
    BY <1>0, <1>1, <2>1, <2>2 DEF Admissible, DomainInv, InStep
<1>3. UNCHANGED workerVars /\ journalAvailable
  BY <1>0 DEF Admissible
<1>4. active' = None \/ (active' \in {active, o} /\ to \notin Terminal)
  <2>1. CASE Admit(o)
    <3>1. end = to
      BY <1>1, <2>1 DEF Admit, DomainInv, DomainTypeOK
    <3> QED
      BY <2>1, <3>1 DEF Admit
  <2>2. CASE UNCHANGED <<journal, active>>
    BY <1>2, <2>2 DEF Terminal
  <2>3. ASSUME NEW k \in 1..Len(AdmissionPath(o)) - 1,
               journal' = [journal EXCEPT ![o] = AdmissionPath(o)[k]]
        PROVE  to \notin Terminal
    <3>1. to = AdmissionPath(o)[k]
      BY <1>1, <2>3 DEF DomainInv, DomainTypeOK
    <3> QED
      BY <3>1, Admission DEF Terminal
  <2> QED
    BY <2>1, <2>2, <2>3, FailedAdmission DEF DomainInv
<1>5. o \in Future => future[o] = "unsubmitted"
  BY <1>2 DEF DomainInv, InStep
<1>6. o # current /\ o \notin Range(normal)
  BY <1>2, <1>3, OpKinds, SMT DEF DomainInv, InStep
<1>7. o \in Motion => fate[o] = "unsent" /\ o \in Item
  BY <1>2, Kinds DEF DomainInv, RecordedBeforeSent, Terminal
<1>8. Range(normal) \subseteq Op /\ (current # None => current \in Op)
  BY OpKinds, SMT DEF DomainInv, Books, WorkerInv, WorkerTypeOK, Range
<1>a. pc = "gate" => current # None
  BY DEF DomainInv, Books, Custody, Holding
<1>b. o \in Op /\ (phase'[o] = "enqueue" => o \in Future)
  <2>1. phase \in [Op -> Phase] /\ (o \in Future \/ o \in Configure)
    BY OpKinds DEF DomainInv, DomainTypeOK
  <2>2. CASE Admit(o)
    BY <2>1, <2>2 DEF Admit
  <2>3. CASE AdmissionFails(o)
    <3>1. \E ph \in {"finished", "escaped"} : phase' = [phase EXCEPT ![o] = ph]
      BY <2>3, FailedAdmission DEF DomainInv
    <3> QED
      BY <2>1, <3>1
  <2> QED
    BY <2>2, <2>3
<1> USE DEF workerVars, shared, outside, local
<1>9. InStep'
  <2>1. \A p \in Op : (phase[p] = "idle" => journal[p] = "absent")'
    BY <1>2 DEF DomainInv, InStep
  <2>2. \A p \in Op : (phase[p] = "enqueue" =>
          p \in Future /\ journal[p] = IF p \in Stop THEN "running" ELSE "accepted")'
    BY <1>1, <1>2, <1>b DEF DomainInv, InStep
  <2>3. \A p \in Op : (phase[p] = "settle" =>
          p \in Future /\ (journal[p] = "running" \/ (p \in Item /\ journal[p] = "accepted")))'
    BY <1>2 DEF DomainInv, InStep
  <2>4. \A f \in Future :
         (/\ phase[f] \in {"idle", "enqueue"} => future[f] = "unsubmitted"
          /\ phase[f] = "settle" => future[f] # "unsubmitted"
          /\ future[f] = "pending" => phase[f] = "settle"
          /\ phase[f] = "settle" /\ future[f] = "result" => journal[f] = "running")'
    BY <1>2, <1>3, <1>5, OpKinds, SMT DEF DomainInv, InStep
  <2>5. (/\ \A i \in Range(normal) : journal[i] = "accepted"
         /\ pc = "gate" => journal[current] = "accepted"
         /\ current # None /\ pc # "gate" => journal[current] = "running")'
    BY <1>2, <1>3, <1>6, <1>8, <1>a DEF DomainInv, InStep
  <2>6. (\A i \in Motion : phase[i] = "settle" /\ fate[i] # "unsent" => journal[i] = "running")'
    BY <1>2, <1>3, OpKinds, SMT DEF DomainInv, InStep
  <2> QED
    BY <2>1, <2>2, <2>3, <2>4, <2>5, <2>6 DEF InStep
<1>10. HonestOutcome' /\ RecordedBeforeSent'
  BY <1>1, <1>2, <1>3, <1>7, OpKinds, SMT DEF DomainInv, HonestOutcome, RecordedBeforeSent
<1>11. NoOutcomeLost'
  BY <1>1, <1>2, <1>3 DEF DomainInv, NoOutcomeLost, Terminal
<1>12. ActiveIsLive'
  BY <1>2, <1>4, OpKinds, SMT DEF DomainInv, DomainTypeOK, ActiveIsLive, Terminal
<1> QED
  BY <1>9, <1>10, <1>11, <1>12 DEF Sound

\* The thread, the controller and a close leave the durable states alone: the
\* books stay in step because an item is only taken from the lane, and its result
\* delivered, where the journal already allows it.
LEMMA ServedStep ==
  ASSUME DomainInv, Serves, [WorkerNext]_workerVars, UNCHANGED <<journal, phase>>,
         journalAvailable' = journalAvailable, active' = active
  PROVE  Sound'
<1>1. \A i \in Motion :
        \/ fate'[i] = fate[i]
        \/ fate[i] = "unsent" /\ fate'[i] = "sent" /\ i = current /\ journal[i] = "running"
        \/ fate[i] = "sent" /\ fate'[i] \in {"done", "error", "halted", "reset"}
  <2> SUFFICES ASSUME NEW i \in Motion
               PROVE  \/ fate'[i] = fate[i]
                      \/ fate[i] = "unsent" /\ fate'[i] = "sent" /\ i = current /\ journal[i] = "running"
                      \/ fate[i] = "sent" /\ fate'[i] \in {"done", "error", "halted", "reset"}
    OBVIOUS
  <2>1. i = current /\ pc = "send" => journal[i] = "running"
    <3>1. i # None
      BY OpKinds
    <3> QED
      BY <3>1 DEF DomainInv, InStep
  <2>2. Books
    BY DEF DomainInv
  <2> QED
    BY <2>1, <2>2, FateMoves
<1>2. HonestOutcome' /\ RecordedBeforeSent'
  BY <1>1 DEF DomainInv, HonestOutcome, RecordedBeforeSent
<1>3. NoOutcomeLost' /\ ActiveIsLive'
  BY DEF DomainInv, NoOutcomeLost, ActiveIsLive
<1>a. pc' = "gate" => current' # None
  BY BooksStep DEF DomainInv, Books, Custody, Holding
<1>4. (/\ \A i \in Range(normal) : journal[i] = "accepted"
       /\ pc = "gate" => journal[current] = "accepted"
       /\ current # None /\ pc # "gate" => journal[current] = "running")'
  BY <1>a DEF DomainInv, InStep, Serves
<1>5. (\A i \in Motion : phase[i] = "settle" /\ fate[i] # "unsent" => journal[i] = "running")'
  BY <1>1 DEF DomainInv, InStep
<1>6. \A f \in Future :
       (/\ phase[f] \in {"idle", "enqueue"} => future[f] = "unsubmitted"
        /\ phase[f] = "settle" => future[f] # "unsubmitted"
        /\ future[f] = "pending" => phase[f] = "settle")'
  BY DEF DomainInv, InStep, Serves, Resolved
<1>7. ASSUME NEW f \in Future, phase[f] = "settle", future'[f] = "result"
      PROVE  journal[f] = "running"
  <2>1. CASE f \in Item
    BY <1>7, <2>1, OpKinds, SMT DEF DomainInv, InStep, Serves
  <2>2. CASE f \in Stop
    BY <1>7, <2>2, OpKinds, Kinds DEF DomainInv, InStep
  <2> QED
    BY <2>1, <2>2, OpKinds
<1>8. InStep'
  BY <1>4, <1>5, <1>6, <1>7 DEF DomainInv, InStep
<1> QED
  BY <1>2, <1>3, <1>8 DEF Sound

\* Handing an operation to the worker: an item is queued as it was accepted, and a
\* stop takes the queued items out of the lane.
LEMMA EnqueueStep ==
  ASSUME DomainInv, NEW o \in Future, Enqueue(o)
  PROVE  Sound'
<1>1. /\ phase[o] = "enqueue" /\ o \in Op /\ UNCHANGED <<fate, local>>
      /\ UNCHANGED <<journal, journalAvailable, active>>
      /\ phase'[o] = "settle" /\ \A p \in Op : p # o => phase'[p] = phase[p]
  BY OpKinds DEF Enqueue, Submit, SubmitStop, outside, DomainInv, DomainTypeOK
<1>2. /\ \A i \in Range(normal') : i \in Range(normal) \/ (i = o /\ o \in Item)
      /\ future'[o] \notin {"unsubmitted", "result"}
      /\ \A f \in Future : f # o => \/ future'[f] = future[f]
                                    \/ f \in Range(normal) /\ future'[f] = "PreemptedByStop"
  <2>0. normal \in Seq(Item) /\ Range(normal) \subseteq Item /\ future \in [Future -> Outcome]
    BY SMT DEF DomainInv, Books, WorkerInv, WorkerTypeOK, Range
  <2>1. CASE o \in Stop
    BY <2>0, <2>1, EmptyLane DEF Enqueue, SubmitStop, Resolve
  <2>2. CASE o \in Item
    <3>1. Submit(o)
      BY <2>2, Kinds DEF Enqueue
    <3>2. Range(Append(normal, o)) = Range(normal) \cup {o}
      BY <2>0, <2>2, LaneAppend, SMT
    <3>3. SubmitRefusal(o) \notin {"unsubmitted", "result"}
      BY DEF SubmitRefusal
    <3> QED
      BY <2>2, <3>1, <3>2, <3>3 DEF Submit, Resolve
  <2> QED
    BY <2>1, <2>2, OpKinds
<1>3. future[o] = "unsubmitted" /\ (\A i \in Range(normal) : future[i] = "pending")
  BY <1>1 DEF DomainInv, InStep, Books, Custody
<1>4. o \in Item => journal[o] = "accepted" /\ o \notin Stop
  BY <1>1, Kinds DEF DomainInv, InStep
<1>5. HonestOutcome' /\ RecordedBeforeSent' /\ ActiveIsLive'
  BY <1>1 DEF DomainInv, HonestOutcome, RecordedBeforeSent, ActiveIsLive
<1>6. NoOutcomeLost'
  BY <1>1 DEF DomainInv, NoOutcomeLost
<1>7. InStep'
  <2>1. \A p \in Op :
         (/\ phase[p] = "idle" => journal[p] = "absent"
          /\ phase[p] = "enqueue" =>
               p \in Future /\ journal[p] = IF p \in Stop THEN "running" ELSE "accepted"
          /\ phase[p] = "settle" =>
               p \in Future /\ (journal[p] = "running" \/ (p \in Item /\ journal[p] = "accepted")))'
    BY <1>1, OpKinds, SMT DEF DomainInv, InStep
  <2>2. \A f \in Future :
         (/\ phase[f] \in {"idle", "enqueue"} => future[f] = "unsubmitted"
          /\ phase[f] = "settle" => future[f] # "unsubmitted"
          /\ future[f] = "pending" => phase[f] = "settle"
          /\ phase[f] = "settle" /\ future[f] = "result" => journal[f] = "running")'
    BY <1>1, <1>2, <1>3, OpKinds, SMT DEF DomainInv, InStep
  <2>3. (/\ \A i \in Range(normal) : journal[i] = "accepted"
         /\ pc = "gate" => journal[current] = "accepted"
         /\ current # None /\ pc # "gate" => journal[current] = "running")'
    BY <1>1, <1>2, <1>4 DEF DomainInv, InStep, local
  <2>4. (\A i \in Motion : phase[i] = "settle" /\ fate[i] # "unsent" => journal[i] = "running")'
    <3>1. o \in Motion => fate[o] = "unsent"
      BY <1>3, Kinds DEF DomainInv, Books, FuturesAreTrue
    <3> QED
      <4> SUFFICES ASSUME NEW i \in Motion, phase'[i] = "settle", fate'[i] # "unsent"
                   PROVE  journal'[i] = "running"
        OBVIOUS
      <4>1. i # o /\ fate[i] # "unsent"
        BY <1>1, <3>1
      <4>2. phase[i] = "settle" /\ journal'[i] = journal[i]
        BY <1>1, <4>1, OpKinds
      <4> QED
        BY <4>1, <4>2 DEF DomainInv, InStep
  <2> QED
    BY <2>1, <2>2, <2>3, <2>4 DEF InStep
<1> QED
  BY <1>5, <1>6, <1>7 DEF Sound

\* The gate: the item becomes durably running before its first byte, or it is
\* withdrawn without one.
LEMMA DispatchStep ==
  ASSUME DomainInv, Dispatch
  PROVE  Sound'
<1>1. /\ pc = "gate" /\ current \in Item /\ current # None /\ current \in Op
      /\ journal[current] = "accepted" /\ future[current] = "pending"
      /\ phase[current] = "settle" /\ current \notin Range(normal)
  <2>1. pc = "gate"
    BY DEF Dispatch, GatePasses, GateWithdraws
  <2>2. current \in Item /\ current # None
    BY <2>1 DEF DomainInv, Books, WorkerInv, WorkerTypeOK, Custody, Holding
  <2> QED
    BY <2>1, <2>2, Kinds, OpKinds DEF DomainInv, InStep, Books, Custody
<1>2. /\ Range(normal) \subseteq Item /\ journal \in [Op -> OperationState \cup {"absent"}]
      /\ active \in Op \cup {None}
  BY SMT DEF DomainInv, DomainTypeOK, Books, WorkerInv, WorkerTypeOK, Range
<1>3. CASE GatePasses /\ Transition(current, "running") /\ UNCHANGED phase
  <2>1. /\ journal' = [journal EXCEPT ![current] = "running"]
        /\ UNCHANGED <<normal, future, fate, current, phase, journalAvailable>>
        /\ pc' # "gate" /\ active' = current
    BY <1>3 DEF GatePasses, Transition, Goto, shared, outside, Terminal
  <2>2. /\ journal'[current] = "running"
        /\ \A p \in Op : p # current => journal'[p] = journal[p]
    BY <1>1, <1>2, <2>1
  <2>3. \A i \in Item : i \in Op
    BY OpKinds
  <2>4. HonestOutcome' /\ RecordedBeforeSent' /\ NoOutcomeLost' /\ ActiveIsLive'
    BY <1>1, <2>1, <2>2, OpKinds, SMT
       DEF DomainInv, HonestOutcome, RecordedBeforeSent, NoOutcomeLost, ActiveIsLive, Terminal
  <2>5. InStep'
    BY <1>1, <1>2, <2>1, <2>2, <2>3, OpKinds, Kinds, SMT DEF DomainInv, InStep
  <2> QED
    BY <2>4, <2>5 DEF Sound
<1>4. ASSUME NEW why \in Withdrawal, GateWithdraws(why), UNCHANGED <<journal, phase, active>>,
             journalAvailable' = journalAvailable \/ ~journalAvailable'
      PROVE  Sound'
  <2>1. /\ UNCHANGED <<normal, fate, journal, phase, active>> /\ current' = None /\ pc' # "gate"
        /\ \A f \in Future : future'[f] = IF f = current THEN why ELSE future[f]
    BY <1>4 DEF GateWithdraws, Goto, Resolve, outside
  <2>2. why \notin {"unsubmitted", "pending", "result"}
    BY DEF Withdrawal
  <2>3. HonestOutcome' /\ RecordedBeforeSent' /\ NoOutcomeLost' /\ ActiveIsLive'
    BY <1>4, <2>1, SMT DEF DomainInv, HonestOutcome, RecordedBeforeSent, NoOutcomeLost, ActiveIsLive
  <2>4. InStep'
    BY <1>1, <2>1, <2>2 DEF DomainInv, InStep
  <2> QED
    BY <2>3, <2>4 DEF Sound
<1> QED
  <2>1. journalAvailable \in BOOLEAN
    BY DEF DomainInv, DomainTypeOK
  <2> QED
    BY <1>3, <1>4, <2>1, FailedWrite DEF Dispatch, Withdrawal, domainVars, TransitionFails

\* A resolved future can always be settled: the journal never refuses the
\* transition, and the terminal state is one the controller's side bears out.
LEMMA SettlementIsLegal ==
  ASSUME DomainInv, NEW o \in Future, phase[o] = "settle", Resolved(future[o])
  PROVE  /\ CanTransition(journal[o], Settlement(o)) /\ Settlement(o) \in Terminal
         /\ o \in Motion =>
              /\ Settlement(o) = "succeeded" => fate[o] = "done"
              /\ Settlement(o) = "failed" => fate[o] \in {"unsent", "error"}
              /\ Settlement(o) = "cancelled" => fate[o] # "sent"
<1>1. o \in Op /\ (journal[o] = "running" \/ (o \in Item /\ journal[o] = "accepted"))
  BY OpKinds DEF DomainInv, InStep
<1>2. future[o] = "result" => journal[o] = "running"
  BY DEF DomainInv, InStep
<1>3. Settlement(o) \in Terminal /\ (Settlement(o) = "succeeded" => future[o] = "result")
  BY <1>1, Settled DEF Classify, Terminal
<1>4. CanTransition(journal[o], Settlement(o))
  BY <1>1, <1>2, <1>3, Lifecycle DEF CanTransition, Terminal
<1>5. ASSUME o \in Motion
      PROVE  /\ Settlement(o) = "succeeded" => fate[o] = "done"
             /\ Settlement(o) = "failed" => fate[o] \in {"unsent", "error"}
             /\ Settlement(o) = "cancelled" => fate[o] # "sent"
  <2>1. /\ o \in Item /\ o \notin Session
        /\ future[o] \in {"PreemptedByRecovery"} \cup Refusal \cup Withdrawal => fate[o] = "unsent"
        /\ future[o] = "PreemptedByStop" => fate[o] # "sent"
        /\ future[o] = "result" => fate[o] = "done"
        /\ future[o] = "error" => fate[o] = "error"
        /\ journal[o] # "running" => fate[o] = "unsent"
    BY <1>1, <1>5, OpKinds DEF DomainInv, Books, FuturesAreTrue, InStep
  <2> QED
    BY <1>1, <1>3, <2>1, Settled DEF Classify, NeverDispatched, Refusal, Withdrawal
<1> QED
  BY <1>3, <1>4, <1>5

\* A callback writes its operation's terminal state, or latches the fault, or ends with
\* the error that it does not catch.
LEMMA SettleStep ==
  ASSUME DomainInv, NEW o \in Future, Settle(o)
  PROVE  Sound'
<1>1. /\ phase[o] = "settle" /\ Resolved(future[o]) /\ o \in Op /\ UNCHANGED workerVars
      /\ phase'[o] \in {"finished", "escaped"} /\ \A p \in Op : p # o => phase'[p] = phase[p]
  BY OpKinds DEF Settle, Ending, DomainInv, DomainTypeOK
<1>2. o # current /\ o \notin Range(normal)
  <2>1. future[o] # "pending" /\ o # None
    BY <1>1, OpKinds DEF Resolved
  <2> QED
    BY <2>1 DEF DomainInv, Books, Custody
<1>3. Range(normal) \subseteq Op /\ (current # None => current \in Op)
  BY OpKinds, SMT DEF DomainInv, Books, WorkerInv, WorkerTypeOK, Range
<1>a. pc = "gate" => current # None
  BY DEF DomainInv, Books, Custody, Holding
<1>4. \/ /\ journal'[o] = Settlement(o) /\ active' = None
         /\ \A p \in Op : p # o => journal'[p] = journal[p]
         /\ UNCHANGED journalAvailable
      \/ /\ UNCHANGED <<journal, active>>
         /\ \/ ~journalAvailable'
            \/ phase'[o] = "escaped" /\ UNCHANGED journalAvailable
  <2>1. /\ CanTransition(journal[o], Settlement(o)) /\ Settlement(o) \in Terminal
        /\ phase \in [Op -> Phase] /\ journalAvailable \in BOOLEAN
        /\ journal \in [Op -> OperationState \cup {"absent"}]
    BY <1>1, SettlementIsLegal DEF DomainInv, DomainTypeOK
  <2>2. CASE Transition(o, Settlement(o))
    BY <1>1, <2>1, <2>2 DEF Transition
  <2>3. ASSUME NEW error \in WriteError, TransitionFails(error),
               phase' = [phase EXCEPT ![o] = Ending(error)]
        PROVE  /\ UNCHANGED <<journal, active>>
               /\ \/ ~journalAvailable'
                  \/ phase'[o] = "escaped" /\ UNCHANGED journalAvailable
    BY <1>1, <2>1, <2>3, FailedWrite DEF TransitionFails
  <2> QED
    BY <2>1, <2>2, <2>3 DEF Settle
<1>5. /\ \A p \in Op : p # o => journal'[p] = journal[p]
      /\ journal'[o] = Settlement(o) \/ journal'[o] = journal[o]
  BY <1>4
<1> USE DEF workerVars, shared, outside, local
<1>6. HonestOutcome' /\ RecordedBeforeSent'
  <2>1. Settlement(o) \in Terminal
    BY <1>1, SettlementIsLegal
  <2>2. o \in Motion => /\ Settlement(o) = "succeeded" => fate[o] = "done"
                        /\ Settlement(o) = "failed" => fate[o] \in {"unsent", "error"}
                        /\ Settlement(o) = "cancelled" => fate[o] # "sent"
    BY <1>1, SettlementIsLegal
  <2>3. HonestOutcome /\ RecordedBeforeSent /\ fate' = fate /\ Motion \subseteq Op
    BY <1>1, OpKinds DEF DomainInv
  <2>4. HonestOutcome'
    BY <1>5, <2>2, <2>3 DEF HonestOutcome
  <2>5. RecordedBeforeSent'
    BY <1>5, <2>1, <2>3 DEF RecordedBeforeSent
  <2> QED
    BY <2>4, <2>5
<1>7. NoOutcomeLost'
  <2>1. Settlement(o) \in Terminal
    BY <1>1, SettlementIsLegal
  <2> QED
    BY <1>1, <1>4, <2>1 DEF DomainInv, NoOutcomeLost
<1>8. ActiveIsLive'
  BY <1>4 DEF DomainInv, ActiveIsLive
<1>9. InStep'
  <2>1. \A p \in Op :
         (/\ phase[p] = "idle" => journal[p] = "absent"
          /\ phase[p] = "enqueue" =>
               p \in Future /\ journal[p] = IF p \in Stop THEN "running" ELSE "accepted"
          /\ phase[p] = "settle" =>
               p \in Future /\ (journal[p] = "running" \/ (p \in Item /\ journal[p] = "accepted")))'
    BY <1>1, <1>5 DEF DomainInv, InStep
  <2>2. \A f \in Future :
         (/\ phase[f] \in {"idle", "enqueue"} => future[f] = "unsubmitted"
          /\ phase[f] = "settle" => future[f] # "unsubmitted"
          /\ future[f] = "pending" => phase[f] = "settle"
          /\ phase[f] = "settle" /\ future[f] = "result" => journal[f] = "running")'
    BY <1>1, <1>5, OpKinds, SMT DEF DomainInv, InStep, Resolved
  <2>3. (/\ \A i \in Range(normal) : journal[i] = "accepted"
         /\ pc = "gate" => journal[current] = "accepted"
         /\ current # None /\ pc # "gate" => journal[current] = "running")'
    BY <1>1, <1>2, <1>3, <1>5, <1>a DEF DomainInv, InStep
  <2>4. (\A i \in Motion : phase[i] = "settle" /\ fate[i] # "unsent" => journal[i] = "running")'
    BY <1>1, <1>5, OpKinds, SMT DEF DomainInv, InStep
  <2> QED
    BY <2>1, <2>2, <2>3, <2>4 DEF InStep
<1> QED
  BY <1>6, <1>7, <1>8, <1>9 DEF Sound

\* Every step of the domain keeps the invariant.
LEMMA DomainStep ==
  ASSUME DomainInv, [DomainNext]_vars
  PROVE  DomainInv'
<1>1. [WorkerNext]_workerVars
  BY WorkerSteps
<1>2. Books'
  BY <1>1, BooksStep DEF DomainInv
<1>3. DomainTypeOK'
  BY <1>2, DomainTypeStep DEF DomainInv
<1> SUFFICES Sound'
  BY <1>2, <1>3 DEF DomainInv, Sound
<1>4. ASSUME UNCHANGED <<journal, phase, active, workerVars>>,
             journalAvailable' = journalAvailable \/ ~journalAvailable'
      PROVE  Sound'
  BY <1>4, SMT DEF DomainInv, Sound, InStep, HonestOutcome, RecordedBeforeSent, NoOutcomeLost,
              ActiveIsLive, workerVars, shared, outside, local
<1>5. CASE \E o \in Op : ReadSnapshot(o)
  BY <1>4, <1>5 DEF ReadSnapshot
<1>6. CASE DurabilityThreat \/ ObserveConnection \/ UNCHANGED vars
  BY <1>4, <1>6 DEF DurabilityThreat, LatchFault, ObserveConnection, vars, domainVars
<1>7. CASE ObserveProfile \/ (ThreadInternal /\ UNCHANGED domainVars) \/ Shutdown \/ Controller
  BY <1>1, <1>7, ServeStep, ServedStep
     DEF DomainInv, ObserveProfile, Shutdown, Controller, domainVars
<1> QED
  BY <1>5, <1>6, <1>7, AdmitStep, EnqueueStep, DispatchStep, SettleStep
     DEF DomainNext, WorkerThread, AdmissionFails

\* The invariant holds in every state of the domain.
LEMMA DomainAlways == DomainSpec => []DomainInv
<1>1. DomainInit => DomainInv
  BY DomainStart
<1>2. DomainInv /\ [DomainNext]_vars => DomainInv'
  BY DomainStep
<1> QED
  BY <1>1, <1>2, PTL DEF DomainSpec

\* The worker keeps its promises under the domain, whose dispatch and profile
\* callbacks run inside the worker's own steps and whose API threads submit at any
\* moment: one command at a time, a stop reported only when nothing executes, no
\* future answered twice, no command sent twice or after its caller was answered.
THEOREM WorkerInsideDomain ==
  DomainSpec => /\ []OneCommandAtATime /\ []ExecutingIsWatched
                /\ QuietWhenStopped /\ AnsweredOnce /\ SentOnce
<1>1. [DomainNext]_vars => [WorkerNext]_workerVars
  BY WorkerSteps
<1>2. DomainInv => Books /\ OneCommandAtATime /\ ExecutingIsWatched
  BY DEF DomainInv, Books, WorkerInv
<1> QED
  BY <1>1, <1>2, DomainAlways, WorkerPromises, PTL DEF DomainSpec

\* The state of the domain is always well typed.
THEOREM DomainTypeCorrect == DomainSpec => []DomainTypeOK
BY DomainAlways, PTL DEF DomainInv

\* The journal never claims more than the controller did: _settle classifies every
\* result and error by what is known to have happened.
THEOREM OutcomesAreHonest == DomainSpec => []HonestOutcome
BY DomainAlways, PTL DEF DomainInv

\* Nothing is transmitted that is not already durably running: the gate's callback
\* records the dispatch first.
THEOREM NothingSentUnrecorded == DomainSpec => []RecordedBeforeSent
BY DomainAlways, PTL DEF DomainInv

\* An operation whose admission and callback ran to their end is terminal or the fault is
\* latched: the journal refuses no settlement, and every JournalError is handled.
THEOREM EveryOutcomeIsKept == DomainSpec => []NoOutcomeLost
BY DomainAlways, PTL DEF DomainInv

\* The view never names a settled operation as the active one (machine.py, as the
\* domain updates it on dispatch and settlement).
THEOREM ActiveStaysLive == DomainSpec => []ActiveIsLive
BY DomainAlways, PTL DEF DomainInv

-----------------------------------------------------------------------------
(* Action properties *)

\* Whatever changes the published view or a durable state publishes a generation, but
\* for the queued row of an admission that ended with an error nobody caught.
THEOREM FreshnessIsExact == DomainSpec => FreshMeansUnchanged
<1> DEFINE view == <<connection, journalAvailable, active>>
           told == /\ view' # view => fresh' = {}
                   /\ \A o \in Op : journal'[o] # journal[o] =>
                        fresh' = {} \/ (journal'[o] = "queued" /\ phase'[o] = "escaped")
<1>1. ASSUME DomainInv, [DomainNext]_vars
      PROVE  [told]_vars
  <2>0. DomainTypeOK /\ journalAvailable \in BOOLEAN
    BY <1>1 DEF DomainInv, DomainTypeOK
  <2> USE DEF PublishGeneration, domainVars
  <2>1. ASSUME NEW o \in Op, ReadSnapshot(o) \/ Admit(o) PROVE told
    BY <2>1 DEF ReadSnapshot, Admit
  <2>2. ASSUME NEW o \in Op, AdmissionFails(o) PROVE told
    <3>1. view' # view => fresh' = {}
      BY <2>0, <2>2, FailedAdmission
    <3>2. CASE UNCHANGED journal \/ fresh' = {}
      BY <3>1, <3>2
    <3>3. CASE /\ journal' = [journal EXCEPT ![o] = AdmissionPath(o)[1]]
               /\ phase' = [phase EXCEPT ![o] = "escaped"]
      BY <2>0, <3>1, <3>3, Admission DEF DomainTypeOK
    <3> QED
      BY <2>0, <2>2, <3>2, <3>3, FailedAdmission
  <2>3. ASSUME NEW error \in WriteError, TransitionFails(error) PROVE told
    BY <2>0, <2>3, FailedWrite DEF TransitionFails
  <2>4. ASSUME NEW o \in Future, Enqueue(o) \/ Settle(o) PROVE told
    BY <2>3, <2>4 DEF Enqueue, Settle, Transition
  <2>5. CASE DurabilityThreat
    BY <2>5 DEF DurabilityThreat, LatchFault
  <2>6. CASE ObserveConnection \/ ObserveProfile \/ Shutdown \/ Controller
    BY <2>6 DEF ObserveConnection, ObserveProfile, Shutdown, Controller
  <2>7. CASE Dispatch \/ (ThreadInternal /\ UNCHANGED domainVars)
    BY <2>3, <2>7 DEF Dispatch, Transition
  <2> QED
    BY <1>1, <2>1, <2>2, <2>4, <2>5, <2>6, <2>7 DEF DomainNext, WorkerThread, AdmissionFails
<1>2. DomainInv /\ [DomainNext]_vars => [told]_vars
  BY <1>1
<1> QED
  BY <1>2, DomainAlways, PTL DEF DomainSpec, FreshMeansUnchanged

\* A latched durability fault never clears, and nothing is admitted under it.
THEOREM FaultStaysLatched == DomainSpec => FaultIsLatched
<1> DEFINE latched == ~journalAvailable =>
                        /\ ~journalAvailable'
                        /\ \A o \in Op : journal[o] = "absent" => journal'[o] = "absent"
<1>1. ASSUME DomainInv, [DomainNext]_vars
      PROVE  [latched]_vars
  <2> USE DEF PublishGeneration, LatchFault, domainVars
  <2>1. ASSUME NEW o \in Op, ReadSnapshot(o) \/ Admit(o) \/ AdmissionFails(o)
        PROVE  latched
    BY <2>1 DEF ReadSnapshot, Admit, AdmitFails, AdmissionFails, Admissible
  <2>2. ASSUME NEW error \in WriteError, TransitionFails(error) PROVE latched
    <3>1. journalAvailable \in BOOLEAN
      BY <1>1 DEF DomainInv, DomainTypeOK
    <3> QED
      BY <2>2, <3>1, FailedWrite DEF TransitionFails
  <2>3. ASSUME NEW o \in Op, journal[o] # "absent", NEW to, Transition(o, to)
        PROVE  latched
    BY <1>1, <2>3 DEF Transition, DomainInv, DomainTypeOK
  <2>4. ASSUME NEW o \in Future, Enqueue(o) PROVE latched
    BY <2>4 DEF Enqueue
  <2>5. ASSUME NEW o \in Future, Settle(o) PROVE latched
    <3>1. o \in Op /\ journal[o] # "absent"
      BY <1>1, <2>5, OpKinds DEF Settle, DomainInv, InStep
    <3> QED
      BY <2>2, <2>3, <2>5, <3>1 DEF Settle
  <2>6. CASE DurabilityThreat \/ ObserveConnection \/ ObserveProfile \/ Shutdown \/ Controller
    BY <2>6 DEF DurabilityThreat, ObserveConnection, ObserveProfile, Shutdown, Controller
  <2>7. CASE Dispatch
    <3>1. GatePasses => current \in Op /\ journal[current] # "absent"
      BY <1>1, OpKinds DEF GatePasses, DomainInv, InStep, Books, Custody, Holding, WorkerInv, WorkerTypeOK
    <3> QED
      BY <2>2, <2>3, <2>7, <3>1 DEF Dispatch
  <2>8. CASE ThreadInternal /\ UNCHANGED domainVars
    BY <2>8
  <2> QED
    BY <1>1, <2>1, <2>4, <2>5, <2>6, <2>7, <2>8 DEF DomainNext, WorkerThread, AdmissionFails
<1>2. DomainInv /\ [DomainNext]_vars => [latched]_vars
  BY <1>1
<1> QED
  BY <1>2, DomainAlways, PTL DEF DomainSpec, FaultIsLatched

-----------------------------------------------------------------------------
(* The refinement of the ledger *)

\* What the ledger sees of what the controller did with a command.
EffectOf(what) ==
    IF what = "unsent" THEN "none" ELSE IF what = "sent" THEN "executing"
    ELSE IF what = "done" THEN "done" ELSE IF what = "error" THEN "refused" ELSE "over"

\* The ledger's effects, pointwise.
LEMMA Effects ==
  /\ Effect = [i \in Motion |-> EffectOf(fate[i])]
  /\ Effect' = [i \in Motion |-> EffectOf(fate'[i])]
<1>1. \A i \in Motion : Effect[i] = EffectOf(fate[i])
  BY DEF Effect, EffectOf
<1>2. \A i \in Motion : Effect'[i] = EffectOf(fate'[i])
  BY DEF Effect, EffectOf
<1>3. Effect = [i \in Motion |-> Effect[i]] /\ Effect' = [i \in Motion |-> Effect'[i]]
  BY DEF Effect
<1> QED
  BY <1>1, <1>2, <1>3

\* Both specifications follow the one lifecycle of Operations.
LEMMA SameLifecycle ==
  /\ Ledger!OperationState = OperationState
  /\ \A from, to : Ledger!CanTransition(from, to) <=> CanTransition(from, to)
<1>1. \A from : Ledger!AllowedTransitions(from) = AllowedTransitions(from)
  BY DEF Ledger!AllowedTransitions, AllowedTransitions, Ledger!Unresolved, Unresolved
<1> QED
  BY <1>1 DEF Ledger!OperationState, OperationState, Ledger!CanTransition, CanTransition

\* The ledger starts empty.
LEMMA LedgerStarts == DomainInit => Ledger!LedgerInit
<1> SUFFICES ASSUME DomainInit PROVE Ledger!LedgerInit
  OBVIOUS
<1>1. Motion \cup (Op \ Motion) = Op /\ Motion \subseteq Item
  BY OpKinds, Kinds
<1>2. Effect = [i \in Motion |-> "none"]
  BY <1>1, Effects DEF DomainInit, Serving, EffectOf
<1> QED
  BY <1>1, <1>2 DEF DomainInit, Ledger!LedgerInit

\* A step of the worker begins or ends at most one command, and begins one only
\* while it is on record as running and nothing else executes.
LEMMA EffectStep ==
  ASSUME DomainInv, [WorkerNext]_workerVars, UNCHANGED journal
  PROVE  [\E c \in Motion : Ledger!Begin(c) \/ Ledger!End(c)]_<<journal, Effect>>
<1>1. fate \in [Item -> Fate] /\ Motion \subseteq Item
  BY Kinds DEF DomainInv, Books, WorkerInv, WorkerTypeOK
<1>2. CASE UNCHANGED fate
  BY <1>2, Effects
<1>3. CASE pc = "send" /\ fate' = [fate EXCEPT ![current] = "sent"]
  <2>1. current \in Motion /\ fate[current] = "unsent" /\ journal[current] = "running"
    BY <1>3, OpKinds
       DEF DomainInv, InStep, Books, Custody, Holding, WorkerInv, WorkerTypeOK
  <2>2. \A i \in Motion : fate[i] # "sent"
    BY <1>1, <1>3 DEF DomainInv, Books, WorkerInv, ExecutingIsWatched
  <2>3. Effect' = [Effect EXCEPT ![current] = "executing"]
    BY <1>1, <1>3, <2>1, Effects DEF EffectOf
  <2>4. Effect[current] = "none" /\ \A i \in Motion : Effect[i] # "executing"
    BY <2>1, <2>2, Effects DEF EffectOf
  <2>5. Ledger!Begin(current)
    BY <2>1, <2>3, <2>4 DEF Ledger!Begin
  <2> QED
    BY <2>1, <2>5
<1>4. ASSUME NEW i \in Item, NEW end \in {"done", "error"},
             fate[i] = "sent", fate' = [fate EXCEPT ![i] = end]
      PROVE  \E c \in Motion : Ledger!End(c)
  <2>1. i \in Motion
    BY <1>4, OpKinds DEF DomainInv, Books, FuturesAreTrue
  <2>2. Effect' = [Effect EXCEPT ![i] = EffectOf(end)] /\ Effect[i] = "executing"
    BY <1>1, <1>4, <2>1, Effects DEF EffectOf
  <2>3. EffectOf(end) \in {"done", "refused", "over"}
    BY DEF EffectOf
  <2> QED
    BY <2>1, <2>2, <2>3 DEF Ledger!End
<1>5. ASSUME NEW end \in {"halted", "reset"}, fate' = Ended(end)
      PROVE  UNCHANGED Effect \/ \E c \in Motion : Ledger!End(c)
  <2>1. CASE \A i \in Motion : fate[i] # "sent"
    BY <1>1, <1>5, <2>1, Effects DEF Ended
  <2>2. ASSUME NEW c \in Motion, fate[c] = "sent"
        PROVE  Ledger!End(c)
    <3>1. \A i \in Motion : i # c => fate[i] # "sent"
      BY <1>1, <2>2 DEF DomainInv, Books, WorkerInv, OneCommandAtATime
    <3>2. Effect' = [Effect EXCEPT ![c] = "over"] /\ Effect[c] = "executing"
      BY <1>1, <1>5, <2>2, <3>1, Effects DEF Ended, EffectOf
    <3> QED
      BY <3>2 DEF Ledger!End
  <2> QED
    BY <2>1, <2>2
<1> QED
  BY <1>2, <1>3, <1>4, <1>5, FateStep

\* Every step of the domain is a step of the ledger or leaves it alone.
LEMMA LedgerStep ==
  ASSUME DomainInv, [DomainNext]_vars
  PROVE  [Ledger!LedgerNext]_<<journal, Effect>>
<1>1. [WorkerNext]_workerVars
  BY WorkerSteps
<1>2. CASE UNCHANGED journal
  BY <1>1, <1>2, EffectStep DEF Ledger!LedgerNext
<1>3. Motion \cup (Op \ Motion) = Op
  BY OpKinds
<1>4. ASSUME NEW o \in Op, Admit(o) \/ AdmissionFails(o), journal' # journal
      PROVE  Ledger!Enter(o)
  <2>0. Admissible(o) /\ UNCHANGED workerVars
    BY <1>4, FailedAdmission DEF Admit, DomainInv
  <2>1. journal[o] = "absent"
    BY <2>0 DEF Admissible, DomainInv, InStep
  <2>2. UNCHANGED Effect
    BY <2>0, Effects DEF workerVars, outside
  <2>3. \E to \in {"queued", "accepted", "running", "succeeded"} :
          /\ o \in Motion => to \in {"queued", "accepted"}
          /\ journal' = [journal EXCEPT ![o] = to]
    <3>1. CASE Admit(o)
      BY <3>1, Admission, OpKinds, Kinds DEF Admit
    <3>2. CASE AdmissionFails(o)
      <4>1. PICK k \in 1..Len(AdmissionPath(o)) - 1 :
              journal' = [journal EXCEPT ![o] = AdmissionPath(o)[k]]
        BY <1>4, <3>2, FailedAdmission DEF DomainInv
      <4> QED
        BY <4>1, Admission, OpKinds
    <3> QED
      BY <1>4, <3>1, <3>2
  <2> QED
    BY <2>1, <2>2, <2>3 DEF Ledger!Enter
<1>5. ASSUME GatePasses, Transition(current, "running") PROVE Ledger!Advance(current) /\ current \in Op
  <2>1. current \in Op /\ journal[current] = "accepted"
    BY <1>5, OpKinds DEF GatePasses, DomainInv, InStep, Books, Custody, Holding, WorkerInv, WorkerTypeOK
  <2>2. CanTransition(journal[current], "running") /\ "running" \in OperationState
    BY <2>1, Lifecycle DEF CanTransition, OperationState
  <2>3. UNCHANGED Effect
    BY <1>5, Effects DEF GatePasses, outside
  <2>4. Ledger!Justified(current, "running")
    BY DEF Ledger!Justified
  <2> QED
    BY <1>5, <2>1, <2>2, <2>3, <2>4, SameLifecycle DEF Transition, Ledger!Advance
<1>6. ASSUME NEW o \in Future, Settle(o), journal' # journal PROVE Ledger!Advance(o) /\ o \in Op
  <2>1. /\ o \in Op /\ phase[o] = "settle" /\ Resolved(future[o])
        /\ journal' = [journal EXCEPT ![o] = Settlement(o)]
    BY <1>6, OpKinds DEF Settle, Transition, TransitionFails
  <2>2. CanTransition(journal[o], Settlement(o)) /\ Settlement(o) \in OperationState
    BY <2>1, SettlementIsLegal DEF Terminal, OperationState
  <2>3. UNCHANGED Effect
    BY <1>6, Effects DEF Settle, workerVars, outside
  <2>4. o \in Motion => Ledger!Justified(o, Settlement(o))
    BY <2>1, SettlementIsLegal, Effects DEF Ledger!Justified, EffectOf
  <2> QED
    BY <2>1, <2>2, <2>3, <2>4, SameLifecycle DEF Ledger!Advance
<1> QED
  BY <1>2, <1>3, <1>4, <1>5, <1>6
     DEF DomainNext, WorkerThread, Ledger!LedgerNext, ReadSnapshot, Enqueue, DurabilityThreat,
         ObserveConnection, ObserveProfile, Dispatch, TransitionFails, Shutdown, Controller,
         AdmissionFails, domainVars, vars

\* Threads, queues, sessions and journal faults only ever take the steps that the
\* ledger allows.
THEOREM DomainImplementsLedger == DomainSpec => ImplementsLedger
<1>1. DomainInit => Ledger!LedgerInit
  BY LedgerStarts
<1>2. DomainInv /\ [DomainNext]_vars => [Ledger!LedgerNext]_<<journal, Effect>>
  BY LedgerStep
<1> QED
  BY <1>1, <1>2, DomainAlways, PTL
     DEF DomainSpec, ImplementsLedger, Ledger!LedgerSpec, Ledger!ledgerVars
=============================================================================
