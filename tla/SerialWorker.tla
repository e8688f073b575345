---------------------------- MODULE SerialWorker ----------------------------
(***************************************************************************)
(* cs71d/serial_worker.py: one thread owns the transport and the protocol  *)
(* client, takes intents from a bounded normal lane, and gives way to a    *)
(* coalesced priority stop.                                                *)
(*                                                                         *)
(* pc is the line the owning thread is about to execute; every step of it  *)
(* is one critical section, one protocol exchange or one session           *)
(* transition.  The actions of callers (submit, submit_priority_stop,      *)
(* close) each run under the condition lock and are single steps.          *)
(*                                                                         *)
(* fate is the controller's side of the story: what it has really done     *)
(* with each command, whatever the worker has managed to read of it.       *)
(***************************************************************************)
EXTENDS Naturals, Sequences, FiniteSets, Functions

CONSTANTS
    Motion,                \* items that carry a HomeIntent or a SortIntent
    Query,                 \* items that carry a QueryIntent
    Connect, Recover,      \* items that carry a SessionIntent
    Stop,                  \* futures of the priority-stop lane
    None,                  \* no item
    Capacity,              \* normal_capacity
    MaxReconnectAttempts   \* max_reconnect_attempts

Session == Connect \cup Recover
Item    == Motion \cup Query \cup Session
Future  == Item \cup Stop

ASSUME WorkerAssumption ==
    /\ Capacity \in Nat \ {0}
    /\ MaxReconnectAttempts \in Nat
    /\ None \notin Future
    /\ Motion \cap Query = {} /\ (Motion \cup Query) \cap Session = {}
    /\ Connect \cap Recover = {}
    /\ Item \cap Stop = {}

WorkerState == {"new", "starting", "running", "closing", "closed", "failed"}

ConnectionState == {"disconnected", "connecting", "verifying_v1",
                    "activating_v2", "ready", "recovering", "uncertain"}

\* Errors raised by submit and submit_priority_stop: nothing was enqueued.
Refusal == {"WorkerNotRunning", "SessionNotReady", "StopInProgress", "QueueFull"}

\* Why on_dispatch may withdraw an intent before its first byte.
Withdrawal == {"DeadlineExpired", "JournalError"}

\* What a caller's future holds.  "result" is a Completion that succeeded, a
\* Status, or None for a stop; "error" a Completion with an error terminal.
Outcome == {"unsubmitted", "pending", "result", "error", "ProtocolError",
            "PreemptedByStop", "PreemptedByRecovery", "WorkerUncertain"}
           \cup Refusal \cup Withdrawal

Resolved(out) == out \notin {"unsubmitted", "pending"}

\* What the controller did with a command: executing or unknown ("sent"),
\* answered, halted by a stop, or lost in a reset.
Fate == {"unsent", "sent", "done", "error", "halted", "reset"}

PC == {"off", "connect", "open", "verify", "activate", "began", "idle",
       "gate", "send", "await", "answered", "profile", "stopping",
       "stopped", "unsafe", "unsafe_item", "fail_session", "mark_failed",
       "recover", "drain", "rejoin", "reconnect", "attempt", "repair",
       "status", "lose_session", "mark_lost", "release", "finish", "publish",
       "fail_pending", "done"}

VARIABLES
    state,          \* _state
    session,        \* _session.state
    normal,         \* _normal, the queued items
    stopRequested,  \* _stop_requested
    stopWaiters,    \* _stop_waiters
    future,         \* the outcome each caller's future holds
    fate,           \* the controller's side of each item
    transport,      \* whether the worker holds an open transport
    leaked,         \* whether one it no longer holds may still be open
    pc,             \* where the owning thread is
    current,        \* the item the thread executes
    context,        \* what _connect or _activate was called from
    fault,          \* the fault handed to _recover
    attempts        \* reconnect attempts left

shared == <<state, session, normal, stopRequested, stopWaiters, future>>
outside == <<fate, transport, leaked>>
local  == <<pc, current, context, fault, attempts>>
workerVars == <<shared, outside, local>>

WorkerTypeOK ==
    /\ state \in WorkerState
    /\ session \in ConnectionState
    /\ normal \in Seq(Item)
    /\ stopRequested \in BOOLEAN
    /\ stopWaiters \subseteq Stop
    /\ future \in [Future -> Outcome]
    /\ fate \in [Item -> Fate]
    /\ transport \in {"closed", "open"} /\ leaked \in BOOLEAN
    /\ pc \in PC
    /\ current \in Item \cup {None}
    /\ context \in {"startup", "reconnect", "reactivate", "repair"}
    /\ fault \in {"recovered", "lost"}
    /\ attempts \in 0..MaxReconnectAttempts

WorkerInit ==
    /\ state = "new" /\ session = "disconnected"
    /\ normal = <<>> /\ stopRequested = FALSE /\ stopWaiters = {}
    /\ future = [f \in Future |-> "unsubmitted"]
    /\ fate = [i \in Item |-> "unsent"]
    /\ transport = "closed" /\ leaked = FALSE
    /\ pc = "off" /\ current = None /\ context = "startup"
    /\ fault = "lost" /\ attempts = 0

-----------------------------------------------------------------------------
(* Helpers *)

Resolve(S, out) == [f \in Future |-> IF f \in S THEN out ELSE future[f]]

\* Every command the controller may still be executing comes to `end`.
Ended(end) == [i \in Item |-> IF fate[i] = "sent" THEN end ELSE fate[i]]

\* Mutant: a worker that is already closing is not marked failed.
MarkedFailedUnlessClosing == IF state \in {"closing", "closed", "failed"} THEN state ELSE "failed"

\* _mark_failed
MarkedFailed == IF state \in {"closed", "failed"} THEN state ELSE "failed"

\* _close_transport: the handle is given up also when its close raises, which leaves
\* the port as it was and only marks the worker failed.
CloseTransport ==
    /\ transport' = "closed"
    /\ \/ UNCHANGED <<state, leaked>>
       \/ state' = MarkedFailed /\ leaked' = TRUE

Goto(label) == pc' = label

\* The parameters of _recover and _connect are gone once those have returned.
Return(label) ==
    /\ Goto(label)
    /\ current' = None /\ context' = "startup" /\ fault' = "lost" /\ attempts' = 0

-----------------------------------------------------------------------------
(* Callers: start, submit, submit_priority_stop, close *)

Start ==
    /\ state = "new"
    /\ state' = "starting" /\ Goto("connect") /\ context' = "startup"
    /\ UNCHANGED <<session, normal, stopRequested, stopWaiters, future,
                   outside, current, fault, attempts>>

\* start's own deadline expired while the thread was still connecting.
StartExpires ==
    /\ state = "starting" /\ state' = "closing"
    /\ UNCHANGED <<session, normal, stopRequested, stopWaiters, future,
                   outside, local>>

\* Mutant: submit does not look for a stop in progress.
SubmitRefusalIgnoringStop(i) ==
    IF state # "running" THEN "WorkerNotRunning"
    ELSE IF session # "ready" /\ i \notin Session THEN "SessionNotReady"
    ELSE IF Len(normal) >= Capacity THEN "QueueFull"
    ELSE "none"

\* The refusals of submit in the order it checks them; "none" when it admits.
SubmitRefusal(i) ==
    IF state # "running" THEN "WorkerNotRunning"
    ELSE IF session # "ready" /\ i \notin Session THEN "SessionNotReady"
    ELSE IF stopRequested THEN "StopInProgress"
    ELSE IF Len(normal) >= Capacity THEN "QueueFull"
    ELSE "none"

Submit(i) ==
    /\ future[i] = "unsubmitted"
    /\ LET refusal == SubmitRefusal(i) IN
       IF refusal = "none"
       THEN /\ normal' = Append(normal, i)
            /\ future' = Resolve({i}, "pending")
       ELSE /\ future' = Resolve({i}, refusal)
            /\ UNCHANGED normal
    /\ UNCHANGED <<state, session, stopRequested, stopWaiters, outside, local>>

SubmitStop(w) ==
    /\ future[w] = "unsubmitted"
    /\ \/ /\ state # "running"
          /\ future' = Resolve({w}, "WorkerNotRunning")
          /\ UNCHANGED <<normal, stopRequested, stopWaiters>>
       \/ /\ state = "running"
          /\ stopWaiters' = stopWaiters \cup {w}
          /\ stopRequested' = TRUE
          /\ normal' = IF stopRequested THEN normal ELSE <<>>
          /\ future' = [Resolve(IF stopRequested THEN {} ELSE Range(normal), "PreemptedByStop")
                          EXCEPT ![w] = "pending"]
    /\ UNCHANGED <<state, session, outside, local>>

Close ==
    /\ state \in {"new", "starting", "running"}
    /\ state' = IF state = "new" THEN "closed" ELSE "closing"
    /\ normal' = <<>>
    /\ future' = Resolve(Range(normal), "PreemptedByStop")
    /\ stopRequested' = (stopRequested \/ state = "running")
    /\ UNCHANGED <<session, stopWaiters, outside, local>>

-----------------------------------------------------------------------------
(* The thread: _connect and _activate *)

\* Session transitions happen on the owning thread only.
Publish(connection) == session' = connection

Connecting ==
    /\ pc = "connect"
    /\ Publish("connecting") /\ Goto("open")
    /\ UNCHANGED <<state, normal, stopRequested, stopWaiters, future, outside,
                   current, context, fault, attempts>>

\* The transport factory; a shutdown seen here returns the link unverified.
OpenTransport ==
    /\ pc = "open"
    /\ transport' = "open" /\ leaked' = (leaked \/ transport = "open")
    /\ IF state = "closing"
       THEN Goto(IF context = "repair" THEN "status" ELSE "release") /\ UNCHANGED session
       ELSE Goto("verify") /\ Publish("verifying_v1")
    /\ UNCHANGED <<state, normal, stopRequested, stopWaiters, future, fate,
                   current, context, fault, attempts>>

\* wait_ready and v1_ping_barrier: Ready is only ever sent by a controller that
\* has just reset.  A session recovered in place was verified by the library.
VerifyV1 ==
    /\ pc = "verify"
    /\ Publish("activating_v2") /\ Goto("activate")
    /\ fate' = Ended("reset")
    /\ UNCHANGED <<state, normal, stopRequested, stopWaiters, future, transport, leaked,
                   current, context, fault, attempts>>

\* _activate, with the required snapshots gathered before READY is published.
ActivateV2 ==
    /\ pc = "activate"
    /\ Publish("ready")
    /\ \/ /\ context \in {"startup", "repair"}
          /\ Goto(IF context = "startup" THEN "began" ELSE "status")
          /\ UNCHANGED <<current, context, fault, attempts>>
       \/ context \in {"reconnect", "reactivate"} /\ Return("idle")
    /\ UNCHANGED <<state, normal, stopRequested, stopWaiters, future, outside>>

\* _connect or _activate raised: the except clause of whoever called it.
ConnectFails ==
    /\ pc \in {"open", "verify", "activate"}
    /\ pc = "verify" => context # "reactivate"
    /\ \/ /\ context = "startup"
          /\ Publish("uncertain") /\ Goto("mark_lost")
          /\ UNCHANGED <<future, current>>
       \/ /\ context = "reconnect"
          /\ Publish("disconnected") /\ Goto("attempt")
          /\ UNCHANGED <<future, current>>
       \/ /\ context = "reactivate"
          /\ Goto("reconnect")
          /\ UNCHANGED <<session, future, current>>
       \/ /\ context = "repair"
          /\ future' = Resolve({current}, "ProtocolError") /\ current' = None
          /\ Goto("lose_session")
          /\ UNCHANGED session
    /\ IF pc = "open" \/ context = "reactivate"
       THEN UNCHANGED <<state, transport, leaked>>
       ELSE CloseTransport
    /\ UNCHANGED <<normal, stopRequested, stopWaiters, fate, context, fault, attempts>>

\* _run once _connect returned: the worker is running unless it was closed.
Began ==
    /\ pc = "began"
    /\ IF state = "closing"
       THEN Goto("release") /\ UNCHANGED state
       ELSE Goto("idle") /\ state' = "running"
    /\ UNCHANGED <<session, normal, stopRequested, stopWaiters, future, outside,
                   current, context, fault, attempts>>

-----------------------------------------------------------------------------
(* The thread: _next_action and _execute_item *)

\* Mutant: only a failed worker leaves the run loop.
NextActionUntilFailed ==
    /\ pc = "idle"
    /\ \/ stopRequested /\ Goto("stopping") /\ UNCHANGED <<normal, current>>
       \/ ~stopRequested /\ state = "failed" /\ Goto("release") /\ UNCHANGED <<normal, current>>
       \/ /\ ~stopRequested /\ state # "failed" /\ normal # <<>>
          /\ normal' = Tail(normal) /\ current' = Head(normal) /\ Goto("gate")
    /\ UNCHANGED <<state, session, stopRequested, stopWaiters, future, outside,
                   context, fault, attempts>>

NextAction ==
    /\ pc = "idle"
    /\ \/ /\ stopRequested
          /\ Goto("stopping") /\ UNCHANGED <<normal, current>>
       \/ /\ ~stopRequested /\ state \in {"closing", "failed"}
          /\ Goto("release") /\ UNCHANGED <<normal, current>>
       \/ /\ ~stopRequested /\ state \notin {"closing", "failed"}
          /\ normal # <<>>
          /\ normal' = Tail(normal) /\ current' = Head(normal) /\ Goto("gate")
    /\ UNCHANGED <<state, session, stopRequested, stopWaiters, future, outside,
                   context, fault, attempts>>

\* on_dispatch let the intent through, or withdrew it before the first byte.
GatePasses ==
    /\ pc = "gate"
    /\ Goto(IF current \in Session THEN "repair" ELSE "send")
    /\ UNCHANGED <<shared, outside, current, context, fault, attempts>>

GateWithdraws(why) ==
    /\ pc = "gate" /\ current \notin Query
    /\ future' = Resolve({current}, why) /\ current' = None /\ Goto("idle")
    /\ UNCHANGED <<state, session, normal, stopRequested, stopWaiters, outside,
                   context, fault, attempts>>

\* ProtocolClient._start writes the frame before it looks at the interrupt.
Transmit ==
    /\ pc = "send"
    /\ fate' = [fate EXCEPT ![current] = "sent"]
    /\ Goto("await")
    /\ UNCHANGED <<shared, transport, leaked, current, context, fault, attempts>>

\* The controller's own step: it finishes a command or refuses it.
ControllerAnswers(i) ==
    /\ fate[i] = "sent"
    /\ \E end \in {"done", "error"} : fate' = [fate EXCEPT ![i] = end]
    /\ UNCHANGED <<shared, transport, leaked, local>>

\* A query's error terminal is raised as a ProtocolError: see RequestFails.
ReadTerminal ==
    /\ pc = "await"
    /\ fate[current] \in (IF current \in Query THEN {"done"} ELSE {"done", "error"})
    /\ Goto("answered")
    /\ UNCHANGED <<shared, outside, current, context, fault, attempts>>

\* Mutant: the interrupt is taken for a trusted stop that was never sent.
InterruptedUnsent ==
    /\ pc = "await" /\ stopRequested /\ current \notin Query
    /\ future' = Resolve({current}, "PreemptedByStop")
    /\ current' = None /\ Goto("stopped")
    /\ UNCHANGED <<state, session, normal, stopRequested, stopWaiters, outside,
                   context, fault, attempts>>

\* The interrupt poll saw the stop, and the controller said `stopped`.
Interrupted ==
    /\ pc = "await" /\ stopRequested /\ current \notin Query
    /\ fate' = Ended("halted")
    /\ future' = Resolve({current}, "PreemptedByStop")
    /\ current' = None /\ Goto("stopped")
    /\ UNCHANGED <<state, session, normal, stopRequested, stopWaiters,
                   transport, leaked, context, fault, attempts>>

\* Mutant: a failed request does not break the session.
RequestFailsInSession ==
    /\ pc = "await"
    /\ future' = Resolve({current}, "ProtocolError")
    /\ current' = None /\ Goto("idle")
    /\ UNCHANGED <<state, session, normal, stopRequested, stopWaiters, outside,
                   context, fault, attempts>>

\* Timeout, unsafe response, failed interrupt stop or transport error.  The
\* library has tried its own stop/reset/verify, which may have worked.
RequestFails ==
    /\ pc = "await"
    /\ \E f \in {"recovered", "lost"} :
         /\ fault' = f
         /\ fate' = IF f = "recovered" THEN Ended("reset") ELSE fate
    /\ IF stopRequested
       THEN /\ future' = Resolve({current}, "WorkerUncertain")
            /\ Goto("unsafe_item")
       ELSE /\ future' = Resolve({current}, "ProtocolError")
            /\ Goto("recover")
    /\ current' = None
    /\ UNCHANGED <<state, session, normal, stopRequested, stopWaiters,
                   transport, leaked, context, attempts>>

\* The result stands unless a stop was asked for while it was on its way.
Deliver ==
    /\ pc = "answered" /\ ~stopRequested
    /\ future' = Resolve({current}, IF fate[current] = "done" THEN "result" ELSE "error")
    /\ Goto(IF current \in Motion THEN "profile" ELSE "idle")
    /\ current' = None
    /\ UNCHANGED <<state, session, normal, stopRequested, stopWaiters, outside,
                   context, fault, attempts>>

InvalidateResult ==
    /\ pc = "answered" /\ stopRequested
    /\ \/ /\ future' = Resolve({current}, "PreemptedByStop") /\ Goto("stopped")
       \/ /\ future' = Resolve({current}, "WorkerUncertain") /\ Goto("unsafe")
    /\ current' = None
    /\ UNCHANGED <<state, session, normal, stopRequested, stopWaiters, outside,
                   context, fault, attempts>>

\* _publish_profile after a movement; a failure here breaks the session too.
PublishProfile ==
    /\ pc = "profile" /\ Goto("idle")
    /\ UNCHANGED <<shared, outside, current, context, fault, attempts>>

ProfileFails ==
    /\ pc = "profile" /\ Goto("recover")
    /\ fault' \in {"recovered", "lost"}
    /\ UNCHANGED <<shared, outside, current, context, attempts>>

-----------------------------------------------------------------------------
(* The thread: _execute_stop, _resolve_stop, _fail_session, _mark_failed *)

\* out_of_band_stop, from the idle thread: `stopped` arrived, or it did not.
StopTrusted ==
    /\ pc = "stopping" /\ Goto("stopped")
    /\ fate' = Ended("halted")
    /\ UNCHANGED <<shared, transport, leaked, current, context, fault, attempts>>

StopUnsafe ==
    /\ pc = "stopping" /\ Goto("unsafe")
    /\ UNCHANGED <<shared, outside, current, context, fault, attempts>>

\* _resolve_stop: whoever joined by now shares the outcome of this stop.
ResolveStop ==
    /\ \/ pc = "stopped"     /\ Goto("idle")
       \/ pc = "unsafe"      /\ Goto("fail_session")
       \/ pc = "unsafe_item" /\ Goto("mark_failed")
    /\ future' = Resolve(stopWaiters, IF pc = "stopped" THEN "result" ELSE "ProtocolError")
    /\ stopWaiters' = {} /\ stopRequested' = FALSE
    /\ UNCHANGED <<state, session, normal, outside, current, context, fault, attempts>>

\* _fail_session on a link the run loop keeps (fail_session) or has lost.
FailSession ==
    /\ pc \in {"fail_session", "lose_session"}
    /\ Publish("uncertain")
    /\ Goto(IF pc = "fail_session" THEN "mark_failed" ELSE "mark_lost")
    /\ UNCHANGED <<state, normal, stopRequested, stopWaiters, future, outside,
                   current, context, fault, attempts>>

MarkFailed ==
    /\ pc \in {"mark_failed", "mark_lost"}
    /\ state' = MarkedFailed
    /\ Goto(IF pc = "mark_failed" THEN "idle" ELSE "finish")
    /\ UNCHANGED <<session, normal, stopRequested, stopWaiters, future, outside,
                   current, context, fault, attempts>>

-----------------------------------------------------------------------------
(* The thread: _recover and _reconnect *)

\* Mutant: the queue is drained while the session still says READY.
EnterRecoveryUnpublished ==
    /\ pc = "recover" /\ Goto("drain")
    /\ UNCHANGED <<shared, outside, current, context, fault, attempts>>

EnterRecovery ==
    /\ pc = "recover"
    /\ Publish("recovering") /\ Goto("drain")
    /\ UNCHANGED <<state, normal, stopRequested, stopWaiters, future, outside,
                   current, context, fault, attempts>>

DrainQueue ==
    /\ pc = "drain"
    /\ normal' = <<>>
    /\ future' = Resolve(Range(normal), "PreemptedByRecovery")
    /\ Goto("rejoin")
    /\ UNCHANGED <<state, session, stopRequested, stopWaiters, outside,
                   current, context, fault, attempts>>

\* Give up on shutdown, reactivate a session the library recovered in place, or
\* escalate to a reconnect.
Rejoin ==
    /\ pc = "rejoin"
    /\ \/ /\ state = "closing"
          /\ Goto("release") /\ UNCHANGED <<session, context>>
       \/ /\ state # "closing" /\ fault = "recovered"
          /\ Publish("verifying_v1") /\ context' = "reactivate" /\ Goto("verify")
       \/ /\ state # "closing" /\ fault = "lost"
          /\ Goto("reconnect") /\ UNCHANGED <<session, context>>
    /\ UNCHANGED <<state, normal, stopRequested, stopWaiters, future, outside,
                   current, fault, attempts>>

\* Mutant: the lost transport is not closed before it is replaced.
ReconnectOverOpenTransport ==
    /\ pc = "reconnect" /\ Publish("disconnected")
    /\ attempts' = MaxReconnectAttempts /\ context' = "reconnect" /\ Goto("attempt")
    /\ UNCHANGED <<state, normal, stopRequested, stopWaiters, future, outside,
                   current, fault>>

Reconnect ==
    /\ pc = "reconnect"
    /\ CloseTransport /\ Publish("disconnected")
    /\ attempts' = MaxReconnectAttempts /\ context' = "reconnect" /\ Goto("attempt")
    /\ UNCHANGED <<normal, stopRequested, stopWaiters, future, fate, current, fault>>

\* Mutant: the attempts are counted down without looking at the bound.
AttemptUnbounded ==
    /\ pc = "attempt"
    /\ Goto("connect") /\ attempts' = attempts - 1
    /\ UNCHANGED <<shared, outside, current, context, fault>>

Attempt ==
    /\ pc = "attempt"
    /\ \/ /\ attempts = 0
          /\ Goto("lose_session") /\ UNCHANGED attempts
       \/ /\ attempts > 0 /\ state = "closing"
          /\ Goto("finish") /\ UNCHANGED attempts
       \/ /\ attempts > 0 /\ state # "closing"
          /\ Goto("connect") /\ attempts' = attempts - 1
    /\ UNCHANGED <<shared, outside, current, context, fault>>

-----------------------------------------------------------------------------
(* The thread: _execute_session_intent *)

\* Connect is satisfied by a verified session; recover always starts afresh.
Repair ==
    /\ pc = "repair"
    /\ IF current \in Recover \/ session # "ready"
       THEN /\ CloseTransport /\ Publish("disconnected")
            /\ context' = "repair" /\ Goto("connect")
       ELSE Goto("status") /\ UNCHANGED <<state, session, transport, leaked, context>>
    /\ UNCHANGED <<normal, stopRequested, stopWaiters, future, fate,
                   current, fault, attempts>>

\* get_status needs an active v2 session.
StatusRead ==
    /\ pc = "status" /\ session = "ready"
    /\ future' = Resolve({current}, "result") /\ Return("idle")
    /\ UNCHANGED <<state, session, normal, stopRequested, stopWaiters, outside>>

\* The link goes out of scope: nobody closes its transport any more.
StatusFails ==
    /\ pc = "status"
    /\ future' = Resolve({current}, "ProtocolError") /\ current' = None
    /\ Goto("lose_session")
    /\ UNCHANGED <<state, session, normal, stopRequested, stopWaiters, outside,
                   context, fault, attempts>>

-----------------------------------------------------------------------------
(* The thread: the end of _run, and _finish_thread *)

ReleaseTransport ==
    /\ pc = "release"
    /\ CloseTransport /\ Goto("finish")
    /\ UNCHANGED <<session, normal, stopRequested, stopWaiters, future, fate,
                   current, context, fault, attempts>>

\* Nothing is admitted once the worker is no longer running, so the lanes can
\* be emptied here and their futures failed after the session is published.
FinishThread ==
    /\ pc = "finish"
    /\ state' = IF state = "failed" THEN "failed" ELSE "closed"
    /\ stopRequested' = FALSE /\ Return("publish")
    /\ UNCHANGED <<session, normal, stopWaiters, future, outside>>

PublishEnd ==
    /\ pc = "publish"
    /\ Publish(IF session = "uncertain" THEN "uncertain" ELSE "disconnected")
    /\ Goto("fail_pending")
    /\ UNCHANGED <<state, normal, stopRequested, stopWaiters, future, outside,
                   current, context, fault, attempts>>

\* Mutant: the futures of the stop lane are forgotten when the thread ends.
FailPendingItems ==
    /\ pc = "fail_pending"
    /\ future' = Resolve(Range(normal), "WorkerNotRunning")
    /\ normal' = <<>> /\ stopWaiters' = {} /\ Goto("done")
    /\ UNCHANGED <<state, session, stopRequested, outside,
                   current, context, fault, attempts>>

FailPending ==
    /\ pc = "fail_pending"
    /\ future' = Resolve(Range(normal) \cup stopWaiters,
                         IF state = "failed" THEN "ProtocolError" ELSE "WorkerNotRunning")
    /\ normal' = <<>> /\ stopWaiters' = {} /\ Goto("done")
    /\ UNCHANGED <<state, session, stopRequested, outside,
                   current, context, fault, attempts>>

-----------------------------------------------------------------------------
(* The component *)

\* Steps of the owning thread, grouped by what its environment takes part in.
ThreadInternal ==
    \/ Connecting \/ OpenTransport \/ VerifyV1 \/ ConnectFails \/ Began
    \/ NextAction \/ Transmit \/ ReadTerminal \/ Interrupted \/ RequestFails
    \/ Deliver \/ InvalidateResult \/ ProfileFails
    \/ StopTrusted \/ StopUnsafe \/ ResolveStop \/ FailSession \/ MarkFailed
    \/ EnterRecovery \/ DrainQueue \/ Rejoin \/ Reconnect \/ Attempt
    \/ Repair \/ StatusRead \/ StatusFails
    \/ ReleaseTransport \/ FinishThread \/ PublishEnd \/ FailPending

ThreadGate == GatePasses \/ \E why \in Withdrawal : GateWithdraws(why)

ThreadProfile == ActivateV2 \/ PublishProfile

Thread == ThreadInternal \/ ThreadGate \/ ThreadProfile

Caller ==
    \/ Start \/ StartExpires \/ Close
    \/ \E i \in Item : Submit(i)
    \/ \E w \in Stop : SubmitStop(w)

WorkerNext == Thread \/ Caller \/ \E i \in Item : ControllerAnswers(i)

\* The thread keeps being scheduled, and every exchange it waits for has a
\* finite timeout (RequestFails, ConnectFails, StopUnsafe).  Nothing is assumed
\* of callers or of the controller.
WorkerSpec == WorkerInit /\ [][WorkerNext]_workerVars /\ WF_workerVars(Thread)

-----------------------------------------------------------------------------
(* Properties *)

\* The controller is never handed a command while it may still be executing an
\* earlier one: after a timeout, a failed stop or a lost link the worker always
\* resets the controller, or gives up, before it transmits again.
OneCommandAtATime ==
    \A i, j \in Item : fate[i] = "sent" /\ fate[j] = "sent" => i = j

\* Whatever may still be executing is being dealt with: the thread is waiting
\* for its terminal, or is on a path that resets the controller or ends the
\* worker before anything else can be sent.
ExecutingIsWatched ==
    \A i \in Item : fate[i] = "sent" =>
      \/ pc = "await" /\ current = i
      \/ pc \in {"recover", "drain", "rejoin"} /\ fault = "lost"
      \/ pc \in {"attempt", "connect", "open", "verify"} /\ context = "reconnect"
      \/ pc \in {"idle", "stopping", "unsafe", "fail_session"} /\ state = "failed"
      \/ pc \in {"reconnect", "unsafe_item", "mark_failed", "lose_session", "mark_lost",
                 "release", "finish", "publish", "fail_pending", "done"}

\* A stop is reported successful only at a moment when no command is executing,
\* also for callers who joined a stop that was already on the wire.
QuietWhenStopped ==
    [][\A w \in Stop :
         future[w] = "pending" /\ future'[w] = "result"
           => \A i \in Item : fate[i] # "sent"]_workerVars

\* From the request of a stop until it is resolved the normal lane stays empty,
\* so the only command that can still reach the wire is the one the thread had
\* already taken.
StopEmptiesLane == stopRequested => normal = <<>>

\* Automatic recovery carries no machine command across the break: a submission
\* either sees the session RECOVERING and is refused, or is drained.
RecoveryDiscardsQueue ==
    \/ pc \in {"rejoin", "reconnect", "attempt"}
    \/ context # "repair" /\ pc \in {"connect", "open", "verify", "activate"}
    => \A i \in Range(normal) : i \in Session

\* A command reaches the controller over the only transport there is: from the moment
\* the thread takes an item until its exchange is over, no transport that it held before
\* and gave up, in a reconnect, a session repair or a connect that failed, may still be
\* open.  A close that raised ends the worker before it sends another command.
OneTransport ==
    pc \in {"gate", "send", "await", "answered", "profile"} => transport = "open" /\ ~leaked

\* Every future handed out is resolved, whatever fails and whenever the worker
\* is closed: no caller waits for ever.
EveryFutureResolves ==
    \A f \in Future : future[f] = "pending" ~> Resolved(future[f])

\* A close always ends the owning thread.
CloseEndsThread == state = "closing" ~> pc = "done"

\* What makes the safety properties above inductive: where the thread stands
\* says which lifecycle states, session states and transports are possible.
ThreadPosition ==
    /\ state = "new" => pc = "off"
    /\ pc = "off" => state \in {"new", "closed"} /\ normal = <<>>
    /\ state = "closed" => pc \in {"off", "publish", "fail_pending", "done"}
    /\ pc \in {"off", "drain", "rejoin", "reconnect", "attempt"} => session # "ready"
    /\ context # "repair" /\ pc \in {"connect", "open", "verify", "activate"}
         => session # "ready"
    /\ pc \in {"off", "attempt", "connect", "open"} => transport = "closed"
    /\ transport = "closed" => pc \in {"off", "attempt", "connect", "open", "lose_session",
                                      "mark_lost", "finish", "publish", "fail_pending", "done"}
    /\ leaked => state = "failed"
    /\ pc = "attempt" => context = "reconnect"
    /\ pc \in {"connect", "open"} => context # "reactivate"
    /\ pc = "began" \/ (pc \in {"connect", "open", "verify", "activate"} /\ context = "startup")
         => state \in {"starting", "closing"}
    /\ pc \in {"gate", "send", "await", "answered", "profile"} => state # "failed"

WorkerInv ==
    /\ WorkerTypeOK /\ ThreadPosition
    /\ StopEmptiesLane /\ RecoveryDiscardsQueue /\ OneTransport
    /\ OneCommandAtATime /\ ExecutingIsWatched

\* Work that was queued when the session broke is never transmitted later, as
\* the comment in submit and the README promise.  (Operator recovery breaks it.)
NothingSurvivesABreak ==
    \A i \in Motion :
      [](i \in Range(normal) /\ session # "ready" => [](fate[i] = "unsent"))
=============================================================================
