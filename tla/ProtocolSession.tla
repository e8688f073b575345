-------------------------- MODULE ProtocolSession ---------------------------
(***************************************************************************)
(* A v2 session over the serial line: the protocol client                  *)
(* (cs71_protocol/client.py, with its line reader, parsers and trackers)   *)
(* as the serial worker thread drives it (cs71d/serial_worker.py),         *)
(* composed with the Controller at the other end.                          *)
(*                                                                         *)
(* Every client call is a write followed by reads, and `step` is what the  *)
(* client is reading for.  A read takes one line, or its deadline expires, *)
(* or the port fails.  The controller, the line's faults and the request   *)
(* for a priority stop interleave with every one of them.                  *)
(***************************************************************************)
EXTENDS Controller

CONSTANTS
    Command,      \* what the worker and the host tools send
    ResetKeeps,   \* whether lines on their way survive a reset
    MaxConnects,  \* bound on opened transports
    MaxRequests   \* bound on commands

ASSUME ProtocolAssumption ==
    /\ Command \subseteq Query \cup Motion \cup Boundary \cup {"stop", "ping"}
    /\ ResetKeeps \subseteq BOOLEAN /\ ResetKeeps # {}
    /\ MaxConnects \in Nat \ {0} /\ MaxRequests \in Nat

VARIABLES
    session,    \* ProtocolClient.mode
    protected,  \* ProtocolClient.crc_enabled
    step,       \* what the client is reading for
    call,       \* the worker's use of the client that this serves
    todo,       \* the queries that still belong to the call
    request,    \* the outstanding request's ID and command; ID 0 for none
    nextId,     \* RequestTracker._next
    retried,    \* discovery has been retried once
    fields,     \* the data a response has carried so far
    events,     \* EventTracker: the last sequence, and resync_required
    view,       \* MachineReadiness.sort_homed, as last published
    stopping,   \* the worker's _stop_requested
    connects, requests

client == <<session, protected, step, call, todo, request, nextId, retried, fields, events,
            view, stopping, connects, requests>>
vars == <<controller, unreadable, toController, toHost, faults, restarted, client>>

Step == {"closed", "ready", "barrier", "discover", "activate", "request", "stop",
         "recover_stop", "recover_reset", "recover_ready", "recover_ping", "idle", "failed"}

\* connect: a fresh transport up to a verified session.  reactivate: the same
\* after recovery.  command, profile: one request, and the snapshots read after
\* it.  stop: out_of_band_stop.
Call == {"none", "connect", "reactivate", "command", "profile", "stop"}

NoRequest == [id |-> 0, command |-> "none"]
NoFields == [present |-> FALSE, homed |-> FALSE]
NewEvents == [last |-> 0, resync |-> FALSE]

\* The state spaces of the client and of the line.
ProtocolTypeOK ==
    /\ mode \in {"v1", "v2"} /\ crc \in BOOLEAN /\ active \in 0..MaxId
    /\ (active = 0) = (job = NoJob)
    /\ session \in {"v1", "v2", "uncertain"} /\ protected \in BOOLEAN
    /\ step \in Step /\ call \in Call
    /\ (step \in {"idle", "closed", "failed"}) = (call = "none")
    /\ (step = "request") = (request # NoRequest)
    /\ request.id \in 0..MaxId /\ nextId \in 1..MaxId
    /\ events.last \in 0..MaxSequence

Init ==
    /\ ControllerInit
    /\ session = "v1" /\ protected = FALSE
    /\ step = "ready" /\ call = "connect" /\ todo = <<>>
    /\ request = NoRequest /\ nextId = 1 /\ retried = FALSE
    /\ fields = NoFields /\ events = NewEvents
    /\ view = FALSE /\ stopping = FALSE /\ connects = 1 /\ requests = 0

-----------------------------------------------------------------------------
(* Reading *)

Send(line) == toController' = Append(toController, line)
Write(line, next) == Send(line) /\ step' = next

\* The line reader hands over a complete line.
Received == ~unreadable /\ toHost # <<>>

\* parse_v2_line: the checksum is as required, or the line is the bare stop.
ReadableV2(line, required) ==
    \/ line = Plain("stopped")
    \/ line.kind \in {"response", "event"} /\ line.crc = required

\* The checksum that is required of a response: crc:on asks for it already.
Required == protected \/ request.command = "crc:on"

\* Mutant: any correlated response is taken for the request's.
CorrelatesWithAny(line) == line.kind = "response"

\* RequestTracker.observe and the check of the ID.
Correlates(line) == line.kind = "response" /\ line.id = request.id

\* The line that would complete the outstanding request.
Terminal(line) ==
    /\ ReadableV2(line, Required) /\ Correlates(line)
    /\ line.body \in {"done", "error"}

\* EventTracker.observe
Observe(n) ==
    [last |-> n, resync |-> events.resync \/ n # NextSequence(events.last)]

-----------------------------------------------------------------------------
(* Requests *)

\* Lines and scheduled answers that belong to an earlier request.
Stale(lines) ==
    [i \in DOMAIN lines |->
        IF lines[i].kind \in {"frame", "response"} THEN [lines[i] EXCEPT !.own = FALSE]
        ELSE lines[i]]

\* _start: allocate an ID, and write the frame.
StartRequestAs(id, command, check) ==
    /\ request' = [id |-> id, command |-> command]
    /\ nextId' = IF id = MaxId THEN 1 ELSE id + 1
    /\ toController' = Append(Stale(toController), Frame(id, command, check))
    /\ job' = [job EXCEPT !.own = FALSE]
    /\ fields' = NoFields
    /\ step' = "request"

\* Mutant: the numbering starts again, and the request stays outstanding.
RenumberRequests == nextId' = 1 /\ UNCHANGED request

\* RequestTracker.clear
ForgetRequests == request' = NoRequest /\ nextId' = 1

\* _fail_request and the beginning of recover_to_v1: the bare stop.  A port that refuses
\* the write is passed over, and the reset follows at once.
BeginRecovery ==
    /\ ForgetRequests
    /\ session' = "uncertain" /\ protected' = FALSE /\ todo' = <<>>
    /\ \/ Write(Legacy("stop"), "recover_stop")
       \/ step' = "recover_reset" /\ UNCHANGED toController

\* What the worker does about an exchange that failed.  It opens a new transport,
\* but a failed startup or stop ends it, as does any failure of a command while a
\* stop is requested.
AfterFailure ==
    IF \/ call = "connect" /\ connects = 1
       \/ call = "stop"
       \/ call = "command" /\ stopping
    THEN "failed" ELSE "closed"

Abandon ==
    /\ call' = "none" /\ todo' = <<>> /\ ForgetRequests
    /\ step' = AfterFailure
    /\ session' = "uncertain" /\ UNCHANGED protected

-----------------------------------------------------------------------------
(* What the client reads for *)

\* What no step of the client changes by itself.
Elsewhere == <<mode, crc, active, machine, axes, sequence, unreadable, faults, restarted>>
Counters == <<connects, requests>>

\* A step of an exchange of plain lines: wait_ready, v1_ping_barrier, discover and
\* the verification of recover_to_v1 expect one exact line each.
Expect(texts) == Received /\ Head(toHost) \in {Plain(t) : t \in texts}
Unexpected(texts) == Received /\ ~Expect(texts)

\* The reader's deadline expires, or the port fails; what is on its way stays.
Expire == UNCHANGED toHost
Consume == toHost' = Tail(toHost)

\* _reconnect and _connect: the factory opens a new transport.
Connect ==
    /\ step = "closed" /\ connects < MaxConnects
    /\ Boot(<<>>, <<>>) /\ restarted' = FALSE
    /\ session' = "v1" /\ protected' = FALSE /\ request' = NoRequest /\ nextId' = 1
    /\ retried' = FALSE /\ fields' = NoFields /\ events' = NewEvents
    /\ step' = "ready" /\ call' = "connect" /\ todo' = <<>>
    /\ connects' = connects + 1
    /\ UNCHANGED <<faults, view, stopping, requests>>

\* _reconnect: the attempts are used up, and _fail_session ends the worker.
GiveUp ==
    /\ step = "closed" /\ connects = MaxConnects
    /\ step' = "failed"
    /\ UNCHANGED <<Elsewhere, job, toController, toHost, session, protected, call, todo, request,
                   nextId, retried, fields, events, view, stopping, Counters>>

\* wait_ready, then v1_ping_barrier's write.
WaitReady ==
    /\ step = "ready"
    /\ \/ /\ Expect({"Ready"}) /\ Consume
          /\ Write(Legacy("ping"), "barrier")
          /\ UNCHANGED <<session, protected, call, todo, request, nextId>>
       \/ /\ \/ Unexpected({"Ready"}) /\ Consume
             \/ Expire
          /\ Abandon
          /\ UNCHANGED toController
    /\ UNCHANGED <<Elsewhere, job, retried, fields, events, view, stopping, Counters>>

\* v1_ping_barrier, then discover's write.
PingBarrier ==
    /\ step = "barrier"
    /\ \/ /\ Expect({PingAnswer}) /\ Consume
          /\ Write(Legacy("protocol:2?"), "discover")
          /\ UNCHANGED <<session, protected, todo, request, nextId>>
       \/ /\ \/ Unexpected({PingAnswer}) /\ Consume
             \/ Expire
          /\ BeginRecovery
    /\ UNCHANGED <<Elsewhere, job, call, retried, fields, events, view, stopping, Counters>>

\* discover: available, legacy, busy once, or unsafe.
Discover ==
    /\ step = "discover"
    /\ \/ /\ Expect({Available}) /\ Consume
          /\ Write(Legacy("protocol:2"), "activate")
          /\ UNCHANGED <<session, protected, call, todo, request, nextId, retried>>
       \/ /\ Expect({"ok"}) /\ Consume
          /\ Abandon
          /\ UNCHANGED <<toController, retried>>
       \/ /\ Expect({"error:busy"}) /\ ~retried /\ Consume
          /\ Write(Legacy("ping"), "barrier")
          /\ retried' = TRUE
          /\ UNCHANGED <<session, protected, call, todo, request, nextId>>
       \/ /\ \/ /\ Unexpected({Available, "ok"})
                /\ ~(Expect({"error:busy"}) /\ ~retried)
                /\ Consume
             \/ Expire
          /\ BeginRecovery
          /\ UNCHANGED <<call, retried>>
    /\ UNCHANGED <<Elsewhere, job, fields, events, view, stopping, Counters>>

\* activate_known_available: v2 from the exact confirmation on, with new
\* trackers.  Its snapshots are read first, then the worker's profile.
Activate ==
    /\ step = "activate"
    /\ \/ /\ Expect({Activated})
          /\ session' = "v2" /\ protected' = FALSE /\ events' = NewEvents
          /\ toHost' = Stale(Tail(toHost))
          /\ StartRequestAs(1, "protocolversion", FALSE)
          /\ todo' = <<"capabilities", "status", "capabilities", "status">>
       \/ /\ \/ Unexpected({Activated}) /\ Consume
             \/ Expire
          /\ BeginRecovery
          /\ UNCHANGED <<job, fields, events>>
    /\ UNCHANGED <<Elsewhere, call, retried, view, stopping, Counters>>

-----------------------------------------------------------------------------
(* A correlated request *)

\* request: an event or a line short of the terminal.
ReadPart ==
    /\ step = "request" /\ Received
    /\ LET line == Head(toHost) IN
       /\ ReadableV2(line, Required) /\ ~Terminal(line)
       /\ \/ /\ line.kind = "event"
             /\ events' = Observe(line.sequence) /\ UNCHANGED fields
          \/ /\ Correlates(line)
             /\ fields' = [present |-> fields.present \/ line.body = "data",
                           homed |-> fields.homed \/ line.value]
             /\ UNCHANGED events
    /\ Consume
    /\ UNCHANGED <<Elsewhere, job, toController, session, protected, step, call, todo, request,
                   nextId, retried, view, stopping, Counters>>

\* Mutant: a request that fails is given up without a recovery.
RequestUnsafeGivesUp ==
    /\ step = "request"
    /\ \/ /\ Received
          /\ LET line == Head(toHost) IN
             \/ ~ReadableV2(line, Required)
             \/ line.kind # "event" /\ ~Correlates(line)
          /\ Consume
       \/ Expire
    /\ Abandon
    /\ UNCHANGED <<Elsewhere, job, toController, retried, fields, events, view, stopping, Counters>>

\* request: anything else, or no answer in time, is unsafe.
RequestUnsafe ==
    /\ step = "request"
    /\ \/ /\ Received
          /\ LET line == Head(toHost) IN
             \/ ~ReadableV2(line, Required)
             \/ line.kind # "event" /\ ~Correlates(line)
          /\ Consume
       \/ Expire
    /\ BeginRecovery
    /\ UNCHANGED <<Elsewhere, job, call, retried, fields, events, view, stopping, Counters>>

\* The call is over, and the client keeps its session.
Return == step' = "idle" /\ call' = "none" /\ todo' = <<>> /\ request' = NoRequest

\* _execute_item with a result: a stop requested meanwhile is sent now; after a
\* movement the profile is read again.
CommandReturns ==
    \/ /\ stopping
       /\ Write(Legacy("stop"), "stop") /\ call' = "stop" /\ request' = NoRequest
       /\ UNCHANGED <<todo, nextId, job, fields>>
    \/ /\ ~stopping /\ request.command \in Motion
       /\ StartRequestAs(nextId, "capabilities", protected)
       /\ call' = "profile" /\ todo' = <<"status">>
    \/ /\ ~stopping /\ request.command \notin Motion
       /\ Return /\ UNCHANGED <<nextId, toController, job, fields>>

\* get_protocol_version, get_capabilities, get_status: the snapshot is complete.
\* The worker publishes it when the profile's last query returns.
QueryReturns ==
    /\ view' = IF request.command = "status" /\ call # "command" /\ todo = <<>>
               THEN fields.homed ELSE view
    /\ events' = [events EXCEPT !.resync = @ /\ request.command # "status"]
    /\ \/ call = "command" /\ CommandReturns
       \/ /\ call # "command" /\ todo = <<>>
          /\ Return /\ UNCHANGED <<nextId, toController, job, fields>>
       \/ /\ call # "command" /\ todo # <<>>
          /\ StartRequestAs(nextId, Head(todo), protected)
          /\ todo' = Tail(todo) /\ UNCHANGED call
    /\ UNCHANGED <<session, protected>>

\* A terminal that the required data did not precede is an error, which only
\* activation answers by recovering.
QueryFails ==
    /\ IF call \in {"connect", "reactivate"} /\ Len(todo) >= 2
       THEN BeginRecovery /\ UNCHANGED call
       ELSE Abandon /\ UNCHANGED toController
    /\ UNCHANGED <<job, fields, events, view>>

\* Mutant: leave_v2 keeps the checksum setting.
BoundaryReturnsProtected(succeeded) ==
    IF succeeded
    THEN /\ protected' = (request.command # "crc:off" /\ (protected \/ request.command = "crc:on"))
         /\ session' = IF request.command = "protocol:1" THEN "v1" ELSE session
         /\ events' = IF request.command = "protocol:1" THEN NewEvents ELSE events
         /\ CommandReturns
         /\ UNCHANGED view
    ELSE BeginRecovery /\ UNCHANGED <<call, job, fields, events, view>>

\* enable_crc, disable_crc, leave_v2: the client's own state follows the
\* terminal; a refusal is unsafe.
BoundaryReturns(succeeded) ==
    IF succeeded
    THEN /\ protected' = (request.command = "crc:on")
         /\ session' = IF request.command = "protocol:1" THEN "v1" ELSE session
         /\ events' = IF request.command = "protocol:1" THEN NewEvents ELSE events
         /\ CommandReturns
         /\ UNCHANGED view
    ELSE BeginRecovery /\ UNCHANGED <<call, job, fields, events, view>>

\* request: the correlated terminal.
ReadTerminal ==
    LET succeeded == Head(toHost).body = "done" IN
    /\ step = "request" /\ Received /\ Terminal(Head(toHost))
    /\ toHost' = Stale(Tail(toHost))
    /\ \/ /\ request.command \in Query
          /\ IF succeeded /\ fields.present THEN QueryReturns ELSE QueryFails
       \/ request.command \in Boundary /\ BoundaryReturns(succeeded)
       \/ /\ request.command \notin Query \cup Boundary
          /\ CommandReturns
          /\ UNCHANGED <<session, protected, events, view>>
    /\ UNCHANGED <<Elsewhere, retried, stopping, Counters>>

\* request with interrupt_requested: movements look for a stop before every read.
Interrupt ==
    /\ step = "request" /\ call = "command" /\ request.command \in Motion /\ stopping
    /\ Write(Legacy("stop"), "stop") /\ call' = "stop" /\ request' = NoRequest
    /\ UNCHANGED <<Elsewhere, job, toHost, session, protected, todo, nextId, retried, fields,
                   events, view, stopping, Counters>>

-----------------------------------------------------------------------------
(* Stop and recovery *)

\* out_of_band_stop reads raw lines until the exact terminal.  A garbled line may
\* be readable text or not.
AwaitStopped ==
    /\ step = "stop"
    /\ \/ /\ Expect({"stopped"}) /\ Consume
          /\ ForgetRequests /\ stopping' = FALSE
          /\ step' = "idle" /\ call' = "none"
          /\ UNCHANGED <<toController, session, protected, todo>>
       \/ /\ Unexpected({"stopped"}) /\ Consume
          /\ UNCHANGED <<toController, session, protected, step, call, todo, request, nextId,
                         stopping>>
       \/ /\ \/ Received /\ Head(toHost) = Noise /\ Consume
             \/ Expire
          /\ BeginRecovery
          /\ UNCHANGED <<call, stopping>>
    /\ UNCHANGED <<Elsewhere, job, retried, fields, events, view, Counters>>

\* recover_to_v1: lines are discarded up to the exact terminal, or the wait ends.
AwaitRecoveryStop ==
    /\ step = "recover_stop"
    /\ \/ Unexpected({"stopped"}) /\ Consume /\ UNCHANGED step
       \/ /\ \/ Received /\ Head(toHost) \in {Plain("stopped"), Noise} /\ Consume
             \/ Expire
          /\ step' = "recover_reset"
    /\ UNCHANGED <<Elsewhere, job, toController, session, protected, call, todo, request, nextId,
                   retried, fields, events, view, stopping, Counters>>

\* The reset hook, however the stop ended.  It may fail itself: a port that refused the
\* stop may well refuse the reset.
Reset ==
    /\ step = "recover_reset"
    /\ \/ /\ \E kept \in ResetKeeps :
               IF kept THEN Boot(toController, toHost) ELSE Boot(<<>>, <<>>)
          /\ restarted' = FALSE /\ step' = "recover_ready"
          /\ UNCHANGED <<session, call, todo, request, nextId>>
       \/ /\ Abandon
          /\ UNCHANGED <<controller, unreadable, restarted, toController, toHost>>
    /\ UNCHANGED <<faults, protected, retried, fields, events, view, stopping, Counters>>

\* recover_to_v1 after the reset: exact Ready, then exact ping.
VerifyReady ==
    /\ step = "recover_ready"
    /\ \/ /\ Expect({"Ready"}) /\ Consume
          /\ Write(Legacy("ping"), "recover_ping")
          /\ UNCHANGED <<session, call, todo, request, nextId>>
       \/ /\ \/ Unexpected({"Ready"}) /\ Consume
             \/ Expire
          /\ Abandon
          /\ UNCHANGED toController
    /\ UNCHANGED <<Elsewhere, job, protected, retried, fields, events, view, stopping, Counters>>

\* v1 is verified: RecoveryError.recovered.  _recover activates v2 again for a
\* command or a profile; other callers give the session up all the same.
VerifyPing ==
    /\ step = "recover_ping"
    /\ \/ /\ Expect({PingAnswer}) /\ Consume
          /\ session' = "v1" /\ protected' = FALSE /\ ForgetRequests /\ events' = NewEvents
          /\ IF call \in {"command", "profile"} /\ ~(call = "command" /\ stopping)
             THEN /\ Write(Legacy("protocol:2?"), "discover")
                  /\ call' = "reactivate" /\ retried' = FALSE
             ELSE /\ step' = AfterFailure /\ call' = "none"
                  /\ UNCHANGED <<toController, retried>>
          /\ UNCHANGED todo
       \/ /\ \/ Unexpected({PingAnswer}) /\ Consume
             \/ Expire
          /\ Abandon
          /\ UNCHANGED <<toController, retried, events>>
    /\ UNCHANGED <<Elsewhere, job, fields, view, stopping, Counters>>

-----------------------------------------------------------------------------
(* The worker *)

\* submit_priority_stop, while the worker runs.
RequestStop ==
    /\ step # "failed" /\ ~stopping /\ (connects > 1 \/ call # "connect")
    /\ stopping' = TRUE
    /\ UNCHANGED <<controller, unreadable, toController, toHost, faults, restarted, session, protected, step,
                   call, todo, request, nextId, retried, fields, events, view, Counters>>

\* _execute_stop: an idle session is stopped before anything else.
ExecuteStop ==
    /\ step = "idle" /\ stopping
    /\ Write(Legacy("stop"), "stop") /\ call' = "stop"
    /\ UNCHANGED <<Elsewhere, job, toHost, session, protected, todo, request, nextId, retried,
                   fields, events, view, stopping, Counters>>

\* What the domain admits: require_supported refuses a sort while the published
\* readiness does not have the sorter homed.  The client refuses crc:on twice.
MaySubmit(c) ==
    /\ c = "sortto" => view
    /\ c = "crc:on" => ~protected
    /\ c = "crc:off" => protected

\* _execute_item: one command.  A write that fails is unsafe as well.
Submit(c) ==
    /\ step = "idle" /\ ~stopping /\ session = "v2" /\ requests < MaxRequests
    /\ MaySubmit(c)
    /\ requests' = requests + 1 /\ call' = "command"
    /\ \/ /\ StartRequestAs(nextId, c, protected)
          /\ toHost' = Stale(toHost)
          /\ UNCHANGED <<session, protected, todo, faults>>
       \/ /\ faults < MaxFaults /\ faults' = faults + 1
          /\ BeginRecovery
          /\ UNCHANGED <<toHost, job, fields>>
    /\ UNCHANGED <<mode, crc, active, machine, axes, sequence, unreadable, restarted, retried, events,
                   view, stopping, connects>>

\* A host tool that left v2 enters it again.
ActivateAgain ==
    /\ step = "idle" /\ ~stopping /\ session = "v1" /\ requests < MaxRequests
    /\ Write(Legacy("protocol:2?"), "discover") /\ call' = "reactivate" /\ retried' = FALSE
    /\ requests' = requests + 1
    /\ UNCHANGED <<Elsewhere, job, toHost, session, protected, todo, request, nextId, fields,
                   events, view, stopping, connects>>

ClientNext ==
    \/ Connect \/ GiveUp \/ WaitReady \/ PingBarrier \/ Discover \/ Activate
    \/ ReadPart \/ ReadTerminal \/ RequestUnsafe \/ Interrupt
    \/ AwaitStopped \/ AwaitRecoveryStop \/ Reset \/ VerifyReady \/ VerifyPing
    \/ ExecuteStop

Next ==
    \/ ControllerNext /\ UNCHANGED client
    \/ ClientNext
    \/ RequestStop
    \/ \E c \in Command : Submit(c)
    \/ ActivateAgain

Spec == Init /\ [][Next]_vars

-----------------------------------------------------------------------------
(* Properties *)

\* A completion is the answer to the request it is returned for, although IDs
\* start again at 1 after every stop and recovery and wrap in between: no late
\* line of an earlier request is ever taken for the terminal of this one.
CompletionIsOwn ==
    step = "request" /\ Received /\ Terminal(Head(toHost)) => Head(toHost).own

\* "cancelled by trusted out-of-band stop": when the client takes the exact
\* terminal for its stop, no movement is in progress and nothing it sent before
\* can still start one.
StopIsTrusted ==
    step = "stop" /\ Expect({"stopped"}) => active = 0 /\ toController = <<>>

\* recover_to_v1 "verif[ies] v1 before allowing further work": when its ping is
\* answered the controller is in v1, without checksums, and nothing moves.
VerifiedIsV1 ==
    step = "recover_ping" /\ Expect({PingAnswer}) => mode = "v1" /\ ~crc /\ active = 0

\* "Fail closed": the worker gives a session up while a movement goes on only when the
\* reset hook failed, whatever timed out, was garbled or was refused before.  The client is
\* then left uncertain; one that says it verified v1 leaves nothing that can move.
FailsClosed ==
    [][step' \in {"closed", "failed"} /\ active' # 0 =>
         session' = "uncertain" /\ step \in {"recover_reset", "closed", "failed"}]_vars

\* The client "never guesses the active parser": an idle client's mode and checksum
\* setting are the controller's, through lost, garbled and late lines, unless the
\* controller restarted by itself.
ParsersAgree ==
    step = "idle" /\ ~restarted => session = mode /\ protected = crc

\* "sort is ... refused while the sorter position is unknown": a sort is only sent
\* while the controller's sorter is homed, unless the controller restarted.
SortNeedsHomedSorter ==
    step = "request" /\ request.command = "sortto" /\ toController # <<>> /\ ~restarted
        => sortHomed
=============================================================================
