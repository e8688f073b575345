----------------------------- MODULE Controller -----------------------------
(***************************************************************************)
(* The controller end of the serial line, as the simulator backend         *)
(* implements it (cs71d/simulator/transport.py): the legacy v1 and the     *)
(* correlated v2 command handlers, the one scheduled movement, the         *)
(* priority stop, and the adverse scenarios the simulator can inject.      *)
(*                                                                         *)
(* A line is a record.  Its text is kept only as far as a handler tells    *)
(* texts apart.  `own` is an auxiliary mark: the line belongs to the       *)
(* request the host is waiting for.                                        *)
(***************************************************************************)
EXTENDS Naturals, Sequences

CONSTANTS
    V2Available, CrcAvailable,  \* SimulatorConfig.v2_available, crc_available
    Scenario,                   \* the adverse scenarios that may be injected
    MaxId,                      \* 65535: request IDs wrap after it
    MaxSequence,                \* 65535: event sequences wrap after it
    MaxFaults                   \* bound on line faults, resets and injections

ASSUME ControllerAssumption ==
    /\ V2Available \in BOOLEAN /\ CrcAvailable \in BOOLEAN
    /\ Scenario \subseteq {"disconnect", "event-gap", "fault", "malformed", "mismatch",
                     "timeout", "busy"}
    /\ MaxId \in Nat \ {0, 1} /\ MaxSequence \in Nat \ {0} /\ MaxFaults \in Nat

Query == {"protocolversion", "capabilities", "status"}
Home == {"homefeeder", "homesorter", "homeall"}
Motion == Home \cup {"sortto"}
Boundary == {"crc:on", "crc:off", "protocol:1"}

VARIABLES
    mode,          \* "v1" or "v2"
    crc,           \* frames carry a checksum
    active,        \* the request ID of the movement in progress, 0 for none
    job,           \* the movement's scheduled callbacks
    machine,       \* "recovering", "running" or "stopped"
    feedHomed, sortHomed,
    sequence,      \* the last event sequence number
    unreadable,    \* reads of the port fail until a reset
    toController,  \* lines on their way from the host
    toHost,        \* lines on their way to the host
    faults,        \* how many faults have happened
    restarted      \* auxiliary: the controller restarted by itself since the
                   \* host last opened or reset it

axes == <<feedHomed, sortHomed>>
controller == <<mode, crc, active, job, machine, axes, sequence>>

\* Lines from the host: a bare command, or a correlated frame.
Legacy(text) == [kind |-> "legacy", text |-> text]
Frame(id, command, protected) ==
    [kind |-> "frame", id |-> id, command |-> command, crc |-> protected, own |-> TRUE]

\* Lines to the host: an exact v1 text, a correlated response, an event.
Plain(text) == [kind |-> "plain", text |-> text]
Reply(id, body, value, own) ==
    [kind |-> "response", id |-> id, body |-> body, value |-> value, crc |-> crc, own |-> own]
Notice(n) == [kind |-> "event", sequence |-> n, crc |-> crc]

\* The v1 answers that the two ends compare exactly, the space of the first included.
PingAnswer == " ok"
Available == "protocol:2 available"
Activated == "protocol:2 ready"
InvalidCommand == "error:invalid command"

\* A line that neither end can make sense of.
Noise == [kind |-> "noise"]

NoJob == [command |-> "none", stage |-> "none", own |-> FALSE]

\* Mutant: a reset leaves the checksum on.
BootedProtected ==
    [mode |-> "v1", crc |-> TRUE, active |-> 0, job |-> NoJob, machine |-> "recovering",
     homed |-> FALSE, sequence |-> 0]

\* _reset_state, and the startup marker.
Booted ==
    [mode |-> "v1", crc |-> FALSE, active |-> 0, job |-> NoJob, machine |-> "recovering",
     homed |-> FALSE, sequence |-> 0]

ControllerInit ==
    /\ mode = Booted.mode /\ crc = Booted.crc /\ active = Booted.active /\ job = Booted.job
    /\ machine = Booted.machine /\ feedHomed = Booted.homed /\ sortHomed = Booted.homed
    /\ sequence = Booted.sequence
    /\ unreadable = FALSE /\ faults = 0 /\ restarted = FALSE
    /\ toController = <<>> /\ toHost = <<Plain("Ready")>>

\* Reset: any way of starting the controller again.  `kept` is what survives of
\* the lines already on their way: nothing with SimulatorTransport.reset,
\* everything with SerialTransport.reset, which only pulses DTR.
Boot(keptHere, keptThere) ==
    /\ mode' = Booted.mode /\ crc' = Booted.crc /\ active' = Booted.active
    /\ job' = Booted.job /\ machine' = Booted.machine
    /\ feedHomed' = Booted.homed /\ sortHomed' = Booted.homed
    /\ sequence' = Booted.sequence
    /\ unreadable' = FALSE
    /\ toController' = keptHere
    /\ toHost' = Append(keptThere, Plain("Ready"))

-----------------------------------------------------------------------------
(* Emitting *)

NextSequence(n) == IF n = MaxSequence THEN 1 ELSE n + 1

\* _emit, _respond and _emit_unprotected: the lines go out in this order.
Emit(lines) == toHost' = toHost \o lines

\* The host's request is off the line.
Take == toController' = Tail(toController)

\* An answer to frame f that changes nothing.
Respond(f, body) ==
    /\ Emit(<<Reply(f.id, body, FALSE, f.own)>>)
    /\ UNCHANGED controller

\* _emit_event: a rejected line is only ever an event.
Reject ==
    /\ sequence' = NextSequence(sequence)
    /\ Emit(<<Notice(NextSequence(sequence))>>)
    /\ UNCHANGED <<mode, crc, active, job, machine, axes>>

-----------------------------------------------------------------------------
(* Stops *)

\* Mutant: the stop is answered and the movement goes on.
HaltKeepsJob ==
    /\ machine' = "stopped"
    /\ feedHomed' = FALSE /\ sortHomed' = FALSE
    /\ UNCHANGED <<active, job>>

\* What every stop does: nothing is scheduled or active, no axis is known.
Halt ==
    /\ active' = 0 /\ job' = NoJob /\ machine' = "stopped"
    /\ feedHomed' = FALSE /\ sortHomed' = FALSE

\* _handle_priority_stop: an event in v2, and the exact unframed terminal.
PriorityStop ==
    /\ Halt
    /\ IF mode = "v2"
       THEN /\ sequence' = NextSequence(sequence)
            /\ Emit(<<Notice(NextSequence(sequence)), Plain("stopped")>>)
       ELSE Emit(<<Plain("stopped")>>) /\ UNCHANGED sequence
    /\ UNCHANGED <<mode, crc>>

\* _handle_correlated_stop: the movement it cancels is told first.
CorrelatedStop(f) ==
    /\ Halt
    /\ sequence' = NextSequence(sequence)
    /\ LET cancelled == IF active = 0 THEN <<>>
                        ELSE <<Reply(active, "error", FALSE, job.own)>>
       IN Emit(cancelled \o <<Notice(NextSequence(sequence)), Reply(f.id, "done", FALSE, f.own)>>)
    /\ UNCHANGED <<mode, crc>>

-----------------------------------------------------------------------------
(* Command handlers *)

\* _handle_v1.  A line it does not know is answered "ok", like a legacy firmware,
\* and a firmware that still executes a v1 command answers a discovery "busy".
HandleV1(line) ==
    IF line = Legacy("protocol:2") /\ V2Available
    THEN /\ Emit(<<Plain(Activated)>>)
         /\ mode' = "v2" /\ crc' = FALSE /\ sequence' = 0
         /\ UNCHANGED <<active, job, machine, axes>>
    ELSE /\ \E text \in CASE line = Legacy("ping") -> {PingAnswer}
                          [] line = Legacy("protocol:2?") /\ V2Available ->
                                {Available} \cup (IF "busy" \in Scenario THEN {"error:busy"} ELSE {})
                          [] line = Noise -> {"ok", InvalidCommand}
                          [] OTHER -> {"ok"} :
              Emit(<<Plain(text)>>)
         /\ UNCHANGED controller

\* _respond_data: the requested snapshot, and its terminal.  Of the snapshot only
\* the sorter's homing matters here.
AnswerQuery(f) ==
    /\ Emit(<<Reply(f.id, "data", f.command = "status" /\ sortHomed, f.own),
              Reply(f.id, "done", FALSE, f.own)>>)
    /\ UNCHANGED controller

\* _enable_crc: its own terminal is the first protected frame.
EnableCrc(f) ==
    IF ~CrcAvailable THEN Respond(f, "error")
    ELSE /\ crc' = TRUE
         /\ Emit(<<[Reply(f.id, "done", FALSE, f.own) EXCEPT !.crc = TRUE]>>)
         /\ UNCHANGED <<mode, active, job, machine, axes, sequence>>

\* _disable_crc: its terminal is the last protected frame.
DisableCrc(f) ==
    /\ crc' = FALSE
    /\ Emit(<<Reply(f.id, "done", FALSE, f.own)>>)
    /\ UNCHANGED <<mode, active, job, machine, axes, sequence>>

\* protocol:1
LeaveV2(f) ==
    /\ Emit(<<Reply(f.id, "done", FALSE, f.own)>>)
    /\ mode' = "v1" /\ crc' = FALSE /\ sequence' = 0
    /\ UNCHANGED <<active, job, machine, axes>>

\* _start_operation, with nothing active.
StartOperation(f, stage) ==
    /\ active' = f.id
    /\ job' = [command |-> f.command, own |-> f.own, stage |-> stage]
    /\ machine' = IF f.command = "sortto" /\ feedHomed /\ sortHomed THEN "running"
                  ELSE "recovering"
    /\ sequence' = NextSequence(sequence)
    /\ Emit(<<Reply(f.id, "accepted", FALSE, f.own), Notice(NextSequence(sequence))>>
            \o IF stage = "first" THEN <<Reply(f.id, "progress", FALSE, f.own)>> ELSE <<>>)
    /\ UNCHANGED <<mode, crc, axes>>

\* _start_sort and _start_home: a sort needs a homed sorter and a machine that is
\* not stopped.
StartMotion(f) ==
    IF f.command = "sortto" /\ (machine = "stopped" \/ ~sortHomed)
    THEN Respond(f, "error")
    ELSE StartOperation(f, IF f.command = "homeall" THEN "first" ELSE "last")

\* _start_injected_fault: a sort that will fail, homed or not.
StartFault(f) ==
    IF active # 0 THEN Respond(f, "error") ELSE StartOperation(f, "failing")

\* The scenarios that answer wrongly, or not at all.
AnswerAdversely(f, scenario) ==
    /\ sequence' = IF scenario = "event-gap" THEN NextSequence(NextSequence(NextSequence(sequence)))
                   ELSE sequence
    /\ CASE scenario \in {"disconnect", "timeout"} -> UNCHANGED toHost
         [] scenario = "malformed" -> Emit(<<Noise>>)
         [] scenario = "mismatch"  -> Emit(<<Reply(IF f.id = MaxId THEN 1 ELSE f.id + 1,
                                                   "done", FALSE, FALSE)>>)
         [] scenario = "event-gap" -> Emit(<<Notice(NextSequence(sequence)), Notice(sequence'),
                                             Reply(f.id, "done", FALSE, f.own)>>)
    /\ UNCHANGED <<mode, crc, active, job, machine, axes>>

\* _inject_adverse_scenario: the triggering command is not handled further.
InjectAdverse(f, scenario) ==
    /\ f.command = IF scenario = "event-gap" THEN "ping" ELSE "sortto"
    /\ faults < MaxFaults
    /\ faults' = faults + 1
    /\ unreadable' = (unreadable \/ scenario = "disconnect")
    /\ IF scenario = "fault" THEN StartFault(f) ELSE AnswerAdversely(f, scenario)
    /\ UNCHANGED restarted

\* A bare command is a request with ID 0.
AsFrame(line) ==
    IF line.kind # "legacy" THEN line
    ELSE [Frame(0, line.text, FALSE) EXCEPT !.own = FALSE]

\* _handle_v2, for a frame whose checksum is as required.
HandleFrame(f) ==
    IF f.id # 0 /\ f.id = active THEN Reject
    ELSE IF f.command \in Motion \cup Boundary /\ active # 0 THEN Respond(f, "error")
    ELSE CASE f.command = "stop" -> CorrelatedStop(f)
           [] f.command \in Query -> AnswerQuery(f)
           [] f.command = "ping" -> Respond(f, "done")
           [] f.command = "crc:on" -> EnableCrc(f)
           [] f.command = "crc:off" -> DisableCrc(f)
           [] f.command = "protocol:1" -> LeaveV2(f)
           [] f.command \in Motion -> StartMotion(f)
           [] OTHER -> Respond(f, "error")

HandleV2(line) ==
    IF line.kind = "noise" \/ AsFrame(line).crc # crc THEN Reject
    ELSE HandleFrame(AsFrame(line))

\* _handle_line: the bare stop comes before any parser.
HandleLine ==
    /\ toController # <<>>
    /\ Take
    /\ LET line == Head(toController) IN
       \/ line = Legacy("stop") /\ PriorityStop
       \/ line # Legacy("stop") /\ mode = "v1" /\ HandleV1(line)
       \/ line # Legacy("stop") /\ mode = "v2" /\ HandleV2(line)
    /\ UNCHANGED <<unreadable, faults, restarted>>

HandleAdversely ==
    /\ toController # <<>> /\ mode = "v2"
    /\ Take
    /\ LET line == Head(toController) IN
       /\ line \notin {Noise, Legacy("stop")}
       /\ LET f == AsFrame(line) IN
          /\ f.crc = crc
          /\ f.id = 0 \/ f.id # active
          /\ \E scenario \in Scenario \ {"busy"} : InjectAdverse(f, scenario)

-----------------------------------------------------------------------------
(* The scheduled callbacks of a movement *)

\* progress_sorter
Progress ==
    /\ job.stage = "first"
    /\ job' = [job EXCEPT !.stage = "last"]
    /\ sequence' = NextSequence(sequence)
    /\ Emit(<<Reply(active, "progress", FALSE, job.own), Notice(NextSequence(sequence))>>)
    /\ UNCHANGED <<mode, crc, active, machine, axes, unreadable, toController, faults, restarted>>

\* complete and _complete_operation
Complete ==
    /\ job.stage = "last"
    /\ feedHomed' = (feedHomed \/ job.command \in {"homefeeder", "homeall"})
    /\ sortHomed' = (sortHomed \/ job.command \in {"homesorter", "homeall"})
    /\ active' = 0 /\ job' = NoJob
    /\ machine' = IF feedHomed' /\ sortHomed' THEN "running" ELSE "recovering"
    /\ sequence' = NextSequence(sequence)
    /\ Emit(<<Notice(NextSequence(sequence)), Reply(active, "done", FALSE, job.own)>>)
    /\ UNCHANGED <<mode, crc, unreadable, toController, faults, restarted>>

\* fail, of _start_injected_fault: the movement ends with a fault, which is
\* reported three times, and the feeder is no longer homed.
FailMotion ==
    /\ job.stage = "failing"
    /\ active' = 0 /\ job' = NoJob
    /\ machine' = "recovering" /\ feedHomed' = FALSE
    /\ sequence' = NextSequence(NextSequence(sequence))
    /\ Emit(<<Reply(active, "error", FALSE, job.own), Notice(NextSequence(sequence)),
              Notice(sequence')>>)
    /\ UNCHANGED <<mode, crc, sortHomed, unreadable, toController, faults, restarted>>

-----------------------------------------------------------------------------
(* The line and the power supply *)

\* A line is lost, or garbled beyond recognition, in either direction.
LineFault ==
    /\ faults < MaxFaults
    /\ faults' = faults + 1
    /\ \/ /\ toHost # <<>>
          /\ toHost' \in {Tail(toHost), <<Noise>> \o Tail(toHost)}
          /\ UNCHANGED toController
       \/ /\ toController # <<>>
          /\ toController' \in {Tail(toController), <<Noise>> \o Tail(toController)}
          /\ UNCHANGED toHost
    /\ UNCHANGED <<controller, unreadable, restarted>>

\* The controller restarts by itself.  What it had sent still arrives.
Brownout ==
    /\ faults < MaxFaults
    /\ faults' = faults + 1
    /\ Boot(<<>>, toHost)
    /\ restarted' = TRUE

ControllerNext ==
    HandleLine \/ HandleAdversely \/ Progress \/ Complete \/ FailMotion \/ LineFault \/ Brownout
=============================================================================
