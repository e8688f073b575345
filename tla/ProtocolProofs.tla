--------------------------- MODULE ProtocolProofs ---------------------------
(***************************************************************************)
(* The client's steps preserve the invariant of ProtocolInvariant, and     *)
(* what follows from it: the safety properties of ProtocolSession, for     *)
(* every command set, every number of requests, connects and faults, and   *)
(* every wrap of the request IDs and the event sequence.                   *)
(*                                                                         *)
(* FailsClosed takes a second invariant, GivenUpStill: a controller whose  *)
(* reset failed may move on, but then its client says it is uncertain.     *)
(***************************************************************************)
EXTENDS ProtocolInvariant

\* Zenon proves most leaves; those that need arithmetic or sequences cite SMT.
USE Zenon

\* The client gives the session up: nothing is expected of the line any more.
LEMMA GivenUp ==
  ASSUME SessionInv, step' \in {"closed", "failed"}, call' = "none", LineTypes',
         session' \in {"v1", "v2", "uncertain"}, protected' \in BOOLEAN,
         request' = NoRequest, nextId' \in 1..MaxId, todo' \in Seq(Query),
         events' \in [last : 0..MaxSequence, resync : BOOLEAN]
  PROVE  SessionInv'
<1>1. ClientTypes'
  BY DEF ClientTypes, Call, Step
<1> QED
  BY <1>1, Silent DEF SessionInv

\* _fail_request with its own error ends in no session.
LEMMA Abandoned ==
  ASSUME SessionInv, Abandon, LineTypes', events' = events
  PROVE  SessionInv'
<1>1. /\ session \in {"v1", "v2", "uncertain"} /\ protected \in BOOLEAN
      /\ events \in [last : 0..MaxSequence, resync : BOOLEAN]
  BY DEF SessionInv, ClientTypes
<1>2. step' \in {"closed", "failed"}
  BY DEF Abandon, AfterFailure
<1>3. call' = "none" /\ request' = NoRequest /\ nextId' = 1 /\ todo' = <<>>
      /\ session' = "uncertain" /\ protected' = protected
  BY DEF Abandon, ForgetRequests
<1>4. nextId' \in 1..MaxId /\ todo' \in Seq(Query)
  BY <1>3, Zero, SMT
<1>5. protected' \in BOOLEAN
  BY <1>1, <1>3
<1>6. session' \in {"v1", "v2", "uncertain"} /\ events' \in [last : 0..MaxSequence, resync : BOOLEAN]
  BY <1>1, <1>3
<1> QED
  BY <1>2, <1>3, <1>4, <1>5, <1>6, GivenUp

\* The client asks a fresh controller, over an empty line, one question.
LEMMA Asked ==
  ASSUME SessionInv, LineTypes', NEW text \in {"ping", "protocol:2?", "protocol:2"},
         NEW next \in {"barrier", "discover", "activate"},
         next = "barrier" => text = "ping", next = "discover" => text = "protocol:2?",
         next = "activate" => text = "protocol:2",
         Fresh', toController' = <<Legacy(text)>>, All(toHost', Quiet), step' = next,
         call' \in {"connect", "reactivate"}, request' = NoRequest,
         session' \in {"v1", "v2", "uncertain"}, protected' \in BOOLEAN,
         nextId' \in 1..MaxId, todo' \in Seq(Query),
         events' \in [last : 0..MaxSequence, resync : BOOLEAN]
  PROVE  SessionInv'
<1>1. ClientTypes'
  BY DEF ClientTypes, Call, Step
<1>2. /\ All(toHost', Quiet \cup (Spoken \ Stopped)) /\ All(toHost', HostLine \ {Plain(Activated)})
      /\ All(toHost', HostLine \ Spoken)
  BY QuietIs, AllWeaken
<1>3. Ends(toHost', Spoken)
  BY <1>2, EndsNone
<1>4. Asking'
  BY <1>2, <1>3 DEF Asking, Exchange, Fresh
<1> QED
  BY <1>1, <1>4, Silent DEF SessionInv

\* Recovery begins: the bare stop goes out behind what is still on the line, or is refused.
LEMMA RecoveryBegun ==
  ASSUME SessionInv, BeginRecovery, ControllerStays, toHost' \in Seq(HostLine), faults' \in Nat,
         NoActivation(toController) \/ (Activation /\ All(toHost', HostLine \ Pong)),
         call' \in Call \ {"none"}, events' \in [last : 0..MaxSequence, resync : BOOLEAN],
         call' \in {"command", "profile"} =>
           All(toController, ControllerLine \ {Legacy("ping")}) /\ All(toHost', HostLine \ Pong)
  PROVE  SessionInv'
<1>0. /\ toController' \in {toController, Append(toController, Legacy("stop"))}
      /\ step' \in {"recover_stop", "recover_reset"}
      /\ session' = "uncertain" /\ protected' = FALSE /\ request' = NoRequest /\ nextId' = 1
      /\ todo' = <<>> /\ LineTypes
  BY DEF BeginRecovery, ForgetRequests, Write, Send, SessionInv
<1>1. /\ Legacy("stop") \in ControllerLine /\ Legacy("stop") \in ControllerLine \ {Legacy("ping")}
      /\ Legacy("stop") \in ControllerLine \ {Legacy("protocol:2")}
      /\ Legacy("stop") \in ControllerLine \ Framed
  BY BareIs DEF ControllerLine, Bare
<1>2. /\ toController' \in Seq(ControllerLine)
      /\ toController # <<>> => toController' # <<>>
      /\ \A S : All(toController, S) /\ Legacy("stop") \in S => All(toController', S)
      /\ toController # <<>> =>
           Tail(toController') \in {Tail(toController), Append(Tail(toController), Legacy("stop"))}
  <2>1. toController \in Seq(ControllerLine)
    BY <1>0 DEF LineTypes
  <2>2. CASE toController' = toController
    BY <2>1, <2>2
  <2>3. CASE toController' = Append(toController, Legacy("stop"))
    BY <1>0, <1>1, <2>3, Written
  <2> QED
    BY <1>0, <2>2, <2>3
<1>3. NoActivation(toController) => NoActivation(toController')
  BY <1>1, <1>2 DEF NoActivation
<1>4. Activation /\ All(toHost', HostLine \ Pong) => Activation'
  <2> SUFFICES ASSUME Activation, All(toHost', HostLine \ Pong) PROVE Activation'
    OBVIOUS
  <2>1. Tail(toController) \in Seq(ControllerLine) /\ toController # <<>>
    BY <1>0, SMT DEF Activation, LineTypes
  <2>2. /\ NoActivation(Append(Tail(toController), Legacy("stop")))
        /\ NoActivation(Tail(toController))
    BY <1>1, <2>1, AllAppend DEF Activation, NoActivation
  <2>3. All(toController', ControllerLine \ Framed)
    BY <1>1, <1>2 DEF Activation, NoFrame
  <2> QED
    BY <1>2, <2>1, <2>2, <2>3 DEF Activation, NoFrame
<1>5. Recovering'
  BY <1>0, <1>1, <1>2, <1>3, <1>4 DEF Recovering
<1>6. LineTypes'
  BY <1>0, <1>2, LinesStay
<1>7. ClientTypes'
  <2>1. nextId' \in 1..MaxId /\ todo' \in Seq(Query)
    BY <1>0, Zero, SMT
  <2>2. protected' \in BOOLEAN
    BY <1>0
  <2> QED
    BY <1>0, <2>1, <2>2 DEF ClientTypes, Step
<1> QED
  BY <1>0, <1>5, <1>6, <1>7, Silent DEF SessionInv

\* A request is written to an empty line of a controller that does nothing.
LEMMA Requested ==
  ASSUME SessionInv, NEW id \in 1..MaxId, NEW command \in Sent, NEW check \in BOOLEAN,
         StartRequestAs(id, command, check), protected' = check, session' = "v2",
         UNCHANGED <<mode, crc, active, feedHomed, sortHomed, sequence, restarted>>,
         faults' \in Nat, active = 0, toController = <<>>,
         toHost' \in Seq(HostLine), All(toHost', Quiet), Agree',
         call' \in Call \ {"none"},
         todo' \in Seq(Query), events' \in [last : 0..MaxSequence, resync : BOOLEAN]
  PROVE  SessionInv'
<1>0. LineTypes /\ job = NoJob
  BY DEF SessionInv, LineTypes, ControllerTypes
<1> DEFINE f == Frame(id, command, check)
<1>1. f \in Framed /\ f \in ControllerLine
  BY DEF Framed, Frame, ControllerLine
<1>2. /\ request' = [id |-> id, command |-> command] /\ nextId' = IF id = MaxId THEN 1 ELSE id + 1
      /\ step' = "request" /\ toController' = Append(Stale(toController), f)
      /\ job' = [job EXCEPT !.own = FALSE]
  BY DEF StartRequestAs
<1>3. job' = NoJob
  BY <1>0, <1>2 DEF NoJob
<1>4. /\ request' \in [id : 1..MaxId, command : Sent] /\ request'.id = id
      /\ request'.command = command
  BY <1>2
<1>5. nextId' \in 1..MaxId
  BY <1>2, ControllerAssumption, SMT
<1> HIDE DEF f
<1>6. toController' = <<f>>
  <2>1. toController' = Append(<<>>, f)
    BY <1>2, StaleQuiet
  <2>2. Append(<<>>, f) = <<f>>
    BY SMT
  <2> QED
    BY <2>1, <2>2
<1>7. toController' \in Seq(ControllerLine) /\ toController' # <<>>
  BY <1>1, <1>6, SMT
<1>8. LineTypes'
  <2>1. ControllerStays
    BY <1>0, <1>3 DEF ControllerStays
  <2> QED
    BY <1>0, <1>7, <2>1, LinesStay
<1>9. ClientTypes'
  BY <1>2, <1>4, <1>5 DEF ClientTypes, Step, Call
<1>10. /\ All(toHost', Meets(id)) /\ All(toHost', HostLine \ (Spoken \cup Final))
       /\ All(toHost', HostLine \ Done)
  BY QuietIs, AllWeaken
<1>11. Ends(toHost', Spoken \cup Final)
  BY <1>10, EndsNone
<1>12. Exchange(Frame(request.id, request.command, protected))'
  BY <1>4, <1>6 DEF Exchange, f
<1>13. Requesting'
  BY <1>4, <1>10, <1>11, <1>12 DEF Requesting
<1> QED
  BY <1>2, <1>8, <1>9, <1>13, Silent DEF SessionInv

\* out_of_band_stop writes the bare stop behind a movement, or to an empty line.
LEMMA StopBegun ==
  ASSUME SessionInv, Write(Legacy("stop"), "stop"), ControllerStays, faults' \in Nat,
         All(toController, {Noise} \cup {f \in Framed : f.command \in Motion}),
         toHost' \in Seq(HostLine), All(toHost', HostLine \ Stopped), All(toHost', HostLine \ Pong),
         call' = "stop", request' = NoRequest, protected' \in BOOLEAN,
         session' \in {"v1", "v2"}, session' = "v1" => ~protected', Agree',
         nextId' \in 1..MaxId, todo' \in Seq(Query),
         events' \in [last : 0..MaxSequence, resync : BOOLEAN]
  PROVE  SessionInv'
<1> DEFINE Moves == {f \in Framed : f.command \in Motion}
<1>0. toController' = Append(toController, Legacy("stop")) /\ step' = "stop" /\ LineTypes
  BY DEF Write, Send, SessionInv
<1>1. Legacy("stop") \in ControllerLine
  BY DEF ControllerLine, Bare
<1>2. /\ \A l \in {Noise} \cup Moves : l \in {Noise, Legacy("stop")} \cup Moves
      /\ \A l \in {Noise} \cup Moves : l \in ControllerLine \ {Legacy("stop")}
  BY BareIs, NoiseIs DEF ControllerLine
<1> HIDE DEF Moves
<1>3. /\ All(toController, {Noise, Legacy("stop")} \cup Moves)
      /\ All(toController, ControllerLine \ {Legacy("stop")})
  BY <1>2, AllWeaken DEF Moves
<1>4. /\ toController' \in Seq(ControllerLine)
      /\ All(toController', {Noise, Legacy("stop")} \cup Moves)
      /\ OnlyLast(toController', Legacy("stop"))
  BY <1>0, <1>1, <1>3, Written
<1>5. Ends(toHost', Stopped)
  BY EndsNone
<1>6. Halting'
  BY <1>4, <1>5 DEF Halting, StopLast, Moves
<1>7. LineTypes'
  BY <1>0, <1>4, LinesStay
<1>8. ClientTypes'
  BY <1>0 DEF ClientTypes, Step, Call
<1> QED
  BY <1>0, <1>6, <1>7, <1>8, Silent DEF SessionInv

\* The client is idle again, over an empty line.
LEMMA Returned ==
  ASSUME SessionInv, step' = "idle", call' = "none", request' = NoRequest,
         ControllerStays, faults' \in Nat, active = 0, toController = <<>>, toController' = <<>>,
         toHost' \in Seq(HostLine), All(toHost', Quiet), protected' \in BOOLEAN,
         session' \in {"v1", "v2"}, session' = "v1" => ~protected', Agree',
         nextId' \in 1..MaxId, todo' \in Seq(Query),
         events' \in [last : 0..MaxSequence, resync : BOOLEAN]
  PROVE  SessionInv'
<1>1. LineTypes
  BY DEF SessionInv
<1>2. toController' \in Seq(ControllerLine)
  BY SMT
<1>3. LineTypes'
  BY <1>1, <1>2, LinesStay
<1>4. ClientTypes'
  BY DEF ClientTypes, Step, Call
<1>5. Idle'
  BY DEF Idle, ControllerStays
<1> QED
  BY <1>3, <1>4, <1>5, Silent DEF SessionInv

-----------------------------------------------------------------------------
(* The client's steps preserve the invariant *)

\* A new transport finds a controller that has just started.
LEMMA ConnectStep == ASSUME SessionInv, Connect PROVE SessionInv'
<1>1. <<>> \in Seq(ControllerLine) /\ <<>> \in Seq(HostLine) /\ Boot(<<>>, <<>>)
  BY SMT DEF Connect
<1>2. /\ Fresh' /\ ControllerTypes' /\ toController' = <<>> /\ toHost' \in Seq(HostLine)
      /\ All(toHost', Quiet)
  <2>1. Plain("Ready") \in Quiet /\ All(<<>>, Quiet)
    BY AllEmpty DEF Quiet
  <2> QED
    BY <1>1, <2>1, BootIs
<1>3. LineTypes'
  BY <1>1, <1>2 DEF LineTypes, Connect, SessionInv
<1>4. Greeting'
  BY <1>2 DEF Greeting
<1>5. ClientTypes'
  <2>1. NewEvents \in [last : 0..MaxSequence, resync : BOOLEAN] /\ <<>> \in Seq(Query)
    BY Zero, SMT DEF NewEvents
  <2>2. session' = "v1" /\ protected' \in BOOLEAN /\ step' = "ready" /\ call' = "connect"
        /\ request' = NoRequest /\ nextId' = 1 /\ todo' = <<>> /\ events' = NewEvents
    BY DEF Connect
  <2> QED
    BY <2>1, <2>2, Zero DEF ClientTypes, Step, Call
<1>6. step' = "ready"
  BY DEF Connect
<1> QED
  BY <1>3, <1>4, <1>5, <1>6, Silent DEF SessionInv

\* What the client knows while it asks for a session.
LEMMA ClientFacts ==
  ASSUME SessionInv
  PROVE  /\ LineTypes /\ toHost \in Seq(HostLine) /\ toController \in Seq(ControllerLine)
         /\ faults \in Nat
         /\ session \in {"v1", "v2", "uncertain"} /\ protected \in BOOLEAN
         /\ nextId \in 1..MaxId /\ todo \in Seq(Query)
         /\ events \in [last : 0..MaxSequence, resync : BOOLEAN]
         /\ step # "request" => request = NoRequest
BY DEF SessionInv, LineTypes, ClientTypes

\* The new events' tracker.
LEMMA NewEventsIs == NewEvents \in [last : 0..MaxSequence, resync : BOOLEAN]
BY Zero DEF NewEvents

\* The attempts are used up.
LEMMA GiveUpStep == ASSUME SessionInv, GiveUp PROVE SessionInv'
<1>1. ControllerStays /\ UNCHANGED <<toController, toHost, faults>>
  BY DEF GiveUp, Elsewhere, axes, ControllerStays
<1>2. LineTypes'
  BY <1>1, ClientFacts, LinesStay
<1>3. /\ step' = "failed" /\ call' = call /\ UNCHANGED <<session, protected, request, nextId, todo, events>>
      /\ step = "closed"
  BY DEF GiveUp
<1>4. call = "none" /\ request = NoRequest
  BY <1>3 DEF SessionInv, ClientTypes
<1> QED
  BY <1>2, <1>3, <1>4, ClientFacts, GivenUp

\* wait_ready: the marker and nothing else has been sent.
LEMMA WaitReadyStep == ASSUME SessionInv, WaitReady PROVE SessionInv'
<1>0. /\ step = "ready" /\ UNCHANGED <<mode, crc, active, job, feedHomed, sortHomed, sequence, restarted>>
      /\ UNCHANGED <<faults, events>>
  BY DEF WaitReady, Elsewhere, axes
<1>1. Fresh /\ toController = <<>> /\ All(toHost, Quiet)
  BY <1>0 DEF SessionInv, Greeting
<1>2. toHost' = toHost \/ (toHost # <<>> /\ toHost' = Tail(toHost))
  BY DEF WaitReady, Received, Consume, Expire, Unexpected, Expect
<1>3. toHost' \in Seq(HostLine) /\ All(toHost', Quiet)
  BY <1>1, <1>2, ClientFacts, Consumed
<1>4. CASE /\ Write(Legacy("ping"), "barrier")
           /\ UNCHANGED <<session, protected, call, todo, request, nextId>>
  <2>1. toController' = <<Legacy("ping")>> /\ step' = "barrier"
    BY <1>1, <1>4, SMT DEF Write, Send
  <2>2. toController' \in Seq(ControllerLine)
    BY <2>1, SMT DEF ControllerLine, Bare
  <2>3. LineTypes'
    BY <1>0, <1>3, <2>2, ClientFacts, LinesStay DEF ControllerStays
  <2>4. call' \in {"connect", "reactivate"} /\ request' = NoRequest
    BY <1>0, <1>4 DEF SessionInv, ClientTypes
  <2>5. Fresh'
    BY <1>0, <1>1 DEF Fresh
  <2> QED
    BY <1>0, <1>3, <1>4, <2>1, <2>3, <2>4, <2>5, ClientFacts, Asked
<1>5. CASE Abandon /\ UNCHANGED toController
  <2>1. LineTypes'
    BY <1>0, <1>3, <1>5, ClientFacts, LinesStay DEF ControllerStays
  <2> QED
    BY <1>0, <1>5, <2>1, Abandoned
<1> QED
  BY <1>4, <1>5 DEF WaitReady

\* While it asks, a v1 answer the client reads is the answer to its question, and
\* only quiet lines follow.
LEMMA AnswerTaken ==
  ASSUME SessionInv, step \in {"barrier", "discover", "activate"}, toHost # <<>>,
         Head(toHost) \in Spoken, toHost' = Tail(toHost)
  PROVE  toController = <<>> /\ active = 0 /\ All(toHost', Quiet)
<1>1. /\ LineTypes /\ Ends(toHost, Spoken) /\ active = 0
      /\ \E line : Exchange(line)
  BY DEF SessionInv, Asking, Fresh
<1>2. All(toHost', Quiet)
  BY <1>1, Consumed
<1>3. ~All(toHost, Quiet)
  BY <1>1, Consumed, QuietIs
<1> QED
  BY <1>1, <1>2, <1>3 DEF Exchange

\* The client's part of a failed question: lines of the exchange stay behind.
LEMMA AskingFails ==
  ASSUME SessionInv, step \in {"barrier", "discover", "activate"}, BeginRecovery,
         ControllerStays, UNCHANGED <<faults, call, events>>,
         toHost' = toHost \/ (toHost # <<>> /\ toHost' = Tail(toHost))
  PROVE  SessionInv'
<1>1. /\ LineTypes /\ toHost \in Seq(HostLine) /\ toController \in Seq(ControllerLine) /\ faults \in Nat
      /\ events \in [last : 0..MaxSequence, resync : BOOLEAN]
  BY ClientFacts
<1>2. /\ toHost' \in Seq(HostLine)
      /\ \A S : All(toHost, S) => All(toHost', S)
  BY <1>1, Consumed
<1>3. call' \in {"connect", "reactivate"}
  BY DEF SessionInv, ClientTypes
<1>4. PICK text \in {"ping", "protocol:2?", "protocol:2"} : Exchange(Legacy(text))
  BY DEF SessionInv, Asking
<1>5. NoActivation(toController) \/ (Activation /\ All(toHost', HostLine \ Pong))
  <2>1. CASE toController = <<>>
    BY <2>1, AllEmpty DEF NoActivation
  <2>2. CASE toController = <<Noise>>
    <3>1. All(<<Noise>>, ControllerLine \ {Legacy("protocol:2")})
      BY NoiseIs, List1
    <3> QED
      BY <2>2, <3>1 DEF NoActivation
  <2>3. CASE toController = <<Legacy(text)>> /\ text # "protocol:2"
    <3>1. Legacy(text) \in ControllerLine \ {Legacy("protocol:2")}
      BY <2>3, BareIs DEF ControllerLine, Bare
    <3>2. All(<<Legacy(text)>>, ControllerLine \ {Legacy("protocol:2")})
      BY <3>1, List1
    <3> QED
      BY <2>3, <3>2 DEF NoActivation
  <2>4. CASE toController = <<Legacy("protocol:2")>> /\ All(toHost, Quiet)
    <3>1. Legacy("protocol:2") \in ControllerLine \ Framed
      BY BareIs DEF ControllerLine, Bare
    <3>2. All(<<Legacy("protocol:2")>>, ControllerLine \ Framed)
      BY <3>1, List1
    <3>3. toController # <<>> /\ Tail(toController) = <<>>
      BY <2>4, SMT
    <3>4. All(toHost, HostLine \ Pong)
      BY <2>4, QuietIs, AllWeaken
    <3>5. NoActivation(Tail(toController))
      BY <3>3, AllEmpty DEF NoActivation
    <3> QED
      BY <1>2, <2>4, <3>2, <3>3, <3>4, <3>5 DEF Activation, NoFrame
  <2> QED
    BY <1>4, <2>1, <2>2, <2>3, <2>4 DEF Exchange
<1>6. call' \in Call \ {"none"} /\ call' \notin {"command", "profile"}
  BY <1>3 DEF Call
<1> QED
  BY <1>1, <1>2, <1>5, <1>6, RecoveryBegun

\* The texts of Expect are v1 answers.
LEMMA ExpectSpoken ==
  ASSUME NEW texts, Expect(texts), \A t \in texts : Plain(t) \in Spoken
  PROVE  toHost # <<>> /\ Head(toHost) \in Spoken
BY DEF Expect, Received

\* v1_ping_barrier
LEMMA PingBarrierStep == ASSUME SessionInv, PingBarrier PROVE SessionInv'
<1>0. step = "barrier" /\ ControllerStays /\ UNCHANGED <<faults, call, events>>
  BY DEF PingBarrier, Elsewhere, axes, ControllerStays
<1>1. CASE /\ Expect({PingAnswer}) /\ Consume
           /\ Write(Legacy("protocol:2?"), "discover")
           /\ UNCHANGED <<session, protected, todo, request, nextId>>
  <2>1. toHost # <<>> /\ Head(toHost) \in Spoken /\ toHost' = Tail(toHost)
    BY <1>1, ExpectSpoken DEF Spoken, Consume
  <2>2. toController = <<>> /\ active = 0 /\ All(toHost', Quiet)
    BY <1>0, <2>1, AnswerTaken
  <2>3. toController' = <<Legacy("protocol:2?")>> /\ step' = "discover"
    BY <1>1, <2>2, SMT DEF Write, Send
  <2>4. toController' \in Seq(ControllerLine) /\ toHost' \in Seq(HostLine)
    BY <2>1, <2>3, ClientFacts, Consumed, SMT DEF ControllerLine, Bare
  <2>5. LineTypes'
    BY <1>0, <2>4, ClientFacts, LinesStay
  <2>6. Fresh'
    BY <1>0 DEF SessionInv, Asking, Fresh, ControllerStays
  <2>7. call' \in {"connect", "reactivate"} /\ request' = NoRequest
    BY <1>0, <1>1 DEF SessionInv, ClientTypes
  <2> QED
    BY <1>0, <1>1, <2>2, <2>3, <2>5, <2>6, <2>7, ClientFacts, Asked
<1>2. CASE BeginRecovery /\ ((Unexpected({PingAnswer}) /\ Consume) \/ Expire)
  <2>1. toHost' = toHost \/ (toHost # <<>> /\ toHost' = Tail(toHost))
    BY <1>2 DEF Unexpected, Received, Consume, Expire
  <2> QED
    BY <1>0, <1>2, <2>1, AskingFails
<1> QED
  BY <1>1, <1>2 DEF PingBarrier

\* discover
LEMMA DiscoverStep == ASSUME SessionInv, Discover PROVE SessionInv'
<1>0. step = "discover" /\ ControllerStays /\ UNCHANGED <<faults, events>>
  BY DEF Discover, Elsewhere, axes, ControllerStays
<1>1. ASSUME NEW text \in {"ping", "protocol:2"}, NEW next \in {"barrier", "activate"},
             next = "barrier" <=> text = "ping",
             NEW t \in {Available, "error:busy"}, Expect({t}), Consume, Write(Legacy(text), next),
             UNCHANGED <<session, protected, call, todo, request, nextId>>
      PROVE  SessionInv'
  <2>1. toHost # <<>> /\ Head(toHost) \in Spoken /\ toHost' = Tail(toHost)
    BY <1>1, ExpectSpoken DEF Spoken, Consume
  <2>2. toController = <<>> /\ active = 0 /\ All(toHost', Quiet)
    BY <1>0, <2>1, AnswerTaken
  <2>3. toController' = <<Legacy(text)>> /\ step' = next
    BY <1>1, <2>2, SMT DEF Write, Send
  <2>4. toController' \in Seq(ControllerLine) /\ toHost' \in Seq(HostLine)
    BY <1>1, <2>1, <2>3, ClientFacts, Consumed, SMT DEF ControllerLine, Bare
  <2>5. LineTypes'
    BY <1>0, <2>4, ClientFacts, LinesStay
  <2>6. Fresh'
    BY <1>0 DEF SessionInv, Asking, Fresh, ControllerStays
  <2>7. call' \in {"connect", "reactivate"} /\ request' = NoRequest
    BY <1>0, <1>1 DEF SessionInv, ClientTypes
  <2> QED
    BY <1>0, <1>1, <2>2, <2>3, <2>5, <2>6, <2>7, ClientFacts, Asked
<1>2. CASE /\ Expect({Available}) /\ Consume
           /\ Write(Legacy("protocol:2"), "activate")
           /\ UNCHANGED <<session, protected, call, todo, request, nextId, retried>>
  BY <1>1, <1>2
<1>3. CASE /\ Expect({"error:busy"}) /\ Consume
           /\ Write(Legacy("ping"), "barrier")
           /\ UNCHANGED <<session, protected, call, todo, request, nextId>>
  BY <1>1, <1>3
<1>4. CASE Expect({"ok"}) /\ Consume /\ Abandon /\ UNCHANGED toController
  <2>1. toHost # <<>> /\ toHost' = Tail(toHost)
    BY <1>4 DEF Expect, Received, Consume
  <2>2. LineTypes'
    BY <1>0, <1>4, <2>1, ClientFacts, Consumed, LinesStay
  <2> QED
    BY <1>0, <1>4, <2>2, Abandoned
<1>5. CASE BeginRecovery /\ UNCHANGED call /\ ((Unexpected({Available, "ok"}) /\ Consume) \/ Expire)
  <2>1. toHost' = toHost \/ (toHost # <<>> /\ toHost' = Tail(toHost))
    BY <1>5 DEF Unexpected, Received, Consume, Expire
  <2> QED
    BY <1>0, <1>5, <2>1, AskingFails
<1> QED
  BY <1>2, <1>3, <1>4, <1>5 DEF Discover

\* activate_known_available
LEMMA ActivateStep == ASSUME SessionInv, Activate PROVE SessionInv'
<1>0. /\ step = "activate" /\ UNCHANGED <<faults, call>>
      /\ UNCHANGED <<mode, crc, active, feedHomed, sortHomed, sequence, restarted>>
  BY DEF Activate, Elsewhere, axes
<1>1. CASE /\ Expect({Activated})
           /\ session' = "v2" /\ protected' = FALSE /\ events' = NewEvents
           /\ toHost' = Stale(Tail(toHost))
           /\ StartRequestAs(1, "protocolversion", FALSE)
           /\ todo' = <<"capabilities", "status", "capabilities", "status">>
  <2>1. toHost # <<>> /\ Head(toHost) \in Spoken /\ Head(toHost) = Plain(Activated)
    BY <1>1, ExpectSpoken DEF Spoken, Expect
  <2>2. toHost \in Seq(HostLine) /\ Ends(toHost, Spoken)
    BY <1>0, ClientFacts DEF SessionInv, Asking
  <2>3. Tail(toHost) \in Seq(HostLine) /\ All(Tail(toHost), Quiet) /\ ~All(toHost, Quiet)
        /\ ~All(toHost, HostLine \ {Plain(Activated)})
    <3>a. Tail(toHost) \in Seq(HostLine)
      BY <2>1, <2>2, SMT
    <3>1. All(Tail(toHost), Quiet)
      BY <2>1, <2>2, EndsTail
    <3>2. \A S : All(toHost, S) => Head(toHost) \in S
      BY <2>1, <2>2, AllTail
    <3>3. Head(toHost) \notin Quiet /\ Head(toHost) \notin HostLine \ {Plain(Activated)}
      BY <2>1, QuietIs
    <3> QED
      BY <3>a, <3>1, <3>2, <3>3
  <2>4. toHost' \in Seq(HostLine) /\ All(toHost', Quiet)
    BY <1>1, <2>3, StaleQuiet
  <2>5. toController = <<>> /\ active = 0 /\ ~crc /\ (restarted \/ mode = "v2")
    BY <1>0, <2>3 DEF SessionInv, Asking, Exchange
  <2>6. Agree'
    <3>1. mode \in {"v1", "v2"} /\ crc = FALSE
      BY <2>5 DEF SessionInv, LineTypes, ControllerTypes
    <3> QED
      BY <1>0, <1>1, <2>5, <3>1 DEF Agree, Lapsed
  <2>7. call' \in Call \ {"none"} /\ todo' \in Seq(Query)
    BY <1>0, <1>1, SMT DEF SessionInv, ClientTypes, Query, Call
  <2>8. "protocolversion" \in Sent /\ FALSE \in BOOLEAN
    BY DEF Sent, Query
  <2> QED
    BY <1>0, <1>1, <2>4, <2>5, <2>6, <2>7, <2>8, Zero, NewEventsIs, ClientFacts, Requested
<1>2. CASE /\ (Unexpected({Activated}) /\ Consume) \/ Expire
           /\ BeginRecovery
           /\ UNCHANGED <<job, fields, events>>
  <2>1. toHost' = toHost \/ (toHost # <<>> /\ toHost' = Tail(toHost))
    BY <1>2 DEF Unexpected, Received, Consume, Expire
  <2> QED
    BY <1>0, <1>2, <2>1, AskingFails DEF ControllerStays
<1> QED
  BY <1>1, <1>2 DEF Activate

\* A part of the answer.
LEMMA ReadPartStep == ASSUME SessionInv, ReadPart PROVE SessionInv'
<1>0. /\ step = "request" /\ ControllerStays /\ UNCHANGED <<faults, toController>>
      /\ UNCHANGED <<session, protected, step, call, todo, request, nextId>>
      /\ toHost # <<>> /\ toHost' = Tail(toHost)
      /\ \/ Head(toHost).kind = "event" /\ events' = Observe(Head(toHost).sequence)
         \/ events' = events
  BY DEF ReadPart, Elsewhere, axes, ControllerStays, Received, Consume
<1>1. /\ toHost' \in Seq(HostLine)
      /\ \A S : All(toHost, S) => Head(toHost) \in S /\ All(toHost', S)
      /\ \A S : Ends(toHost, S) => Ends(toHost', S)
  BY <1>0, ClientFacts, Consumed
<1>2. LineTypes'
  BY <1>0, <1>1, ClientFacts, LinesStay
<1>3. events' \in [last : 0..MaxSequence, resync : BOOLEAN]
  <2>1. events \in [last : 0..MaxSequence, resync : BOOLEAN]
    BY ClientFacts
  <2>2. CASE Head(toHost).kind = "event" /\ events' = Observe(Head(toHost).sequence)
    <3>1. Head(toHost) \in HostLine
      BY <1>0, ClientFacts, SMT
    <3>2. Head(toHost) \in Event
      BY <2>2, <3>1, Kinds DEF HostLine, Quiet
    <3>3. Head(toHost).sequence \in 1..MaxSequence
      BY <3>2, Kinds
    <3>4. Head(toHost).sequence \in 0..MaxSequence
      BY <3>3, SMT
    <3> QED
      BY <2>1, <2>2, <3>4 DEF Observe
  <2> QED
    BY <1>0, <2>1, <2>2
<1>4. ClientTypes'
  BY <1>0, <1>3 DEF SessionInv, ClientTypes
<1>5. Requesting'
  <2>1. /\ session = "v2"
        /\ Exchange(Frame(request.id, request.command, protected))
        /\ All(toHost, Meets(request.id))
        /\ Ends(toHost, Spoken \cup Final)
        /\ (active = 0 /\ toController = <<>>) \/ All(toHost, HostLine \ (Spoken \cup Final))
        /\ active # 0 => job.own /\ request.command \notin Boundary
        /\ request.command \notin Boundary \/ toController # <<>> => Agree
        /\ request.command \in Boundary =>
             \/ Lapsed \/ Crossed(request.command, mode, crc)
             \/ All(toHost, HostLine \ Done)
    BY <1>0 DEF SessionInv, Requesting
  <2>2. Exchange(Frame(request.id, request.command, protected))'
    BY <1>0, <1>1, <2>1 DEF Exchange, ControllerStays
  <2>3. /\ Agree => Agree'
        /\ Lapsed => Lapsed'
        /\ Crossed(request.command, mode, crc) => Crossed(request.command, mode, crc)'
    BY <1>0 DEF Agree, Lapsed, Crossed, ControllerStays
  <2> QED
    BY <1>0, <1>1, <2>1, <2>2, <2>3 DEF Requesting, ControllerStays
<1> QED
  BY <1>0, <1>2, <1>4, <1>5, Silent DEF SessionInv

\* What is still on its way to the controller belongs to the request.
LEMMA RequestOnLine ==
  ASSUME SessionInv, step = "request"
  PROVE  /\ NoActivation(toController) /\ All(toController, ControllerLine \ {Legacy("ping")})
         /\ request.command \in Motion =>
              All(toController, {Noise} \cup {f \in Framed : f.command \in Motion})
<1> DEFINE f == Frame(request.id, request.command, protected)
<1>1. f \in Framed /\ f.command = request.command
  BY DEF SessionInv, ClientTypes, Framed, Frame
<1>2. Exchange(f)
  BY DEF SessionInv, Requesting
<1> HIDE DEF f
<1>3. /\ f \in ControllerLine \ {Legacy("ping")} /\ f \in ControllerLine \ {Legacy("protocol:2")}
      /\ Noise \in ControllerLine \ {Legacy("ping")}
      /\ Noise \in ControllerLine \ {Legacy("protocol:2")}
  BY <1>1, BareIs, NoiseIs DEF ControllerLine
<1>4. \A S : f \in S /\ Noise \in S => All(toController, S)
  <2>1. toController = <<f>> \/ toController = <<Noise>> \/ toController = <<>>
    BY <1>2 DEF Exchange
  <2>2. \A S : f \in S /\ Noise \in S => All(<<f>>, S) /\ All(<<Noise>>, S) /\ All(<<>>, S)
    BY AllEmpty, List1
  <2> QED
    BY <2>1, <2>2
<1> QED
  BY <1>1, <1>3, <1>4 DEF NoActivation

\* Of the lines a request meets, none is a stop's or a ping's answer.
LEMMA MeetsIs ==
  ASSUME NEW id, NEW s, All(s, Meets(id))
  PROVE  All(s, HostLine \ Stopped) /\ All(s, HostLine \ Pong)
<1>1. \A l \in Meets(id) : l \in HostLine \ Stopped /\ l \in HostLine \ Pong
  <2>1. \A l \in Response : l \notin Stopped /\ l \notin Pong /\ l \in HostLine
    BY LinesApart DEF HostLine, Stopped, Pong, Spoken
  <2> QED
    BY <2>1, QuietIs DEF Meets, HostLine
<1> QED
  BY <1>1, AllWeaken

\* request ends without its terminal.
LEMMA RequestUnsafeStep == ASSUME SessionInv, RequestUnsafe PROVE SessionInv'
<1>0. /\ step = "request" /\ ControllerStays /\ UNCHANGED <<faults, call, events>> /\ BeginRecovery
      /\ toHost' = toHost \/ (toHost # <<>> /\ toHost' = Tail(toHost))
  BY DEF RequestUnsafe, Elsewhere, axes, ControllerStays, Received, Consume, Expire
<1>1. All(toHost, Meets(request.id))
  BY <1>0 DEF SessionInv, Requesting
<1>2. toHost' \in Seq(HostLine) /\ All(toHost', Meets(request.id))
  BY <1>0, <1>1, ClientFacts, Consumed
<1>3. All(toHost', HostLine \ Pong)
  BY <1>2, MeetsIs
<1>4. call' \in Call \ {"none"}
  BY <1>0 DEF SessionInv, ClientTypes
<1> QED
  BY <1>0, <1>2, <1>3, <1>4, ClientFacts, RequestOnLine, RecoveryBegun

\* A movement is interrupted by a stop.
LEMMA InterruptStep == ASSUME SessionInv, Interrupt PROVE SessionInv'
<1>0. /\ step = "request" /\ ControllerStays /\ UNCHANGED <<faults, toHost, events>>
      /\ request.command \in Motion /\ Write(Legacy("stop"), "stop") /\ call' = "stop"
      /\ request' = NoRequest /\ UNCHANGED <<session, protected, todo, nextId>>
  BY DEF Interrupt, Elsewhere, axes, ControllerStays
<1>1. /\ All(toHost, Meets(request.id)) /\ session = "v2"
      /\ request.command \notin Boundary => Agree
  BY <1>0 DEF SessionInv, Requesting
<1>2. request.command \notin Boundary
  BY <1>0 DEF Motion, Home, Boundary
<1>3. Agree'
  BY <1>0, <1>1, <1>2 DEF Agree, Lapsed, ControllerStays
<1>4. All(toHost', HostLine \ Stopped) /\ All(toHost', HostLine \ Pong)
  BY <1>0, <1>1, MeetsIs
<1>5. session' \in {"v1", "v2"} /\ (session' = "v1" => ~protected')
  BY <1>0, <1>1
<1> QED
  BY <1>0, <1>3, <1>4, <1>5, ClientFacts, RequestOnLine, StopBegun

\* The terminal of the request: the controller is done with it, and only quiet
\* lines follow.
LEMMA TerminalIs ==
  ASSUME SessionInv, step = "request", toHost # <<>>, Terminal(Head(toHost)),
         toHost' = Stale(Tail(toHost))
  PROVE  /\ Head(toHost) \in Final /\ Head(toHost).id = request.id
         /\ active = 0 /\ job = NoJob /\ toController = <<>>
         /\ toHost' \in Seq(HostLine) /\ All(toHost', Quiet)
         /\ request.command \notin Boundary => Agree
         /\ request.command \in Boundary /\ Head(toHost).body = "done" =>
              Lapsed \/ Crossed(request.command, mode, crc)
<1>1. /\ toHost \in Seq(HostLine) /\ Ends(toHost, Spoken \cup Final)
      /\ (active = 0 /\ toController = <<>>) \/ All(toHost, HostLine \ (Spoken \cup Final))
      /\ request.command \notin Boundary => Agree
      /\ request.command \in Boundary =>
             \/ Lapsed \/ Crossed(request.command, mode, crc)
             \/ All(toHost, HostLine \ Done)
  BY ClientFacts DEF SessionInv, Requesting
<1>2. Head(toHost) \in HostLine /\ Tail(toHost) \in Seq(HostLine)
  BY <1>1, SMT
<1>3. /\ Head(toHost).kind = "response" /\ Head(toHost).id = request.id
      /\ Head(toHost).body \in {"done", "error"}
  BY DEF Terminal, Correlates
<1>4. Head(toHost) \in Response
  BY <1>2, <1>3, Kinds DEF HostLine, Quiet
<1>5. Head(toHost) \in Final
  BY <1>3, <1>4 DEF Final
<1>6. \A S : All(toHost, S) => Head(toHost) \in S
  BY <1>1, AllTail
<1>7. All(Tail(toHost), Quiet)
  BY <1>1, <1>5, EndsTail
<1>8. toHost' \in Seq(HostLine) /\ All(toHost', Quiet)
  BY <1>2, <1>7, StaleQuiet
<1>9. active = 0 /\ toController = <<>>
  BY <1>1, <1>5, <1>6
<1>10. job = NoJob
  BY <1>9 DEF SessionInv, LineTypes, ControllerTypes
<1>11. request.command \in Boundary /\ Head(toHost).body = "done" =>
              Lapsed \/ Crossed(request.command, mode, crc)
  BY <1>1, <1>4, <1>6 DEF Done
<1> QED
  BY <1>1, <1>3, <1>5, <1>8, <1>9, <1>10, <1>11

\* After the terminal: nothing moves, the line is quiet, and the client's mode and
\* checksum setting are those of the controller.
Settled ==
    /\ step = "request" /\ active = 0 /\ job = NoJob /\ toController = <<>>
    /\ toHost' \in Seq(HostLine) /\ All(toHost', Quiet)
    /\ UNCHANGED <<mode, crc, active, feedHomed, sortHomed, sequence, restarted, faults>>

\* _execute_item with a result.
LEMMA CommandReturnsIs ==
  ASSUME SessionInv, Settled, CommandReturns,
         session' \in {"v1", "v2"}, session' = "v1" => ~protected', protected' \in BOOLEAN, Agree',
         request.command \in Motion => session' = "v2" /\ protected' = protected,
         events' \in [last : 0..MaxSequence, resync : BOOLEAN]
  PROVE  SessionInv'
<1>0. /\ faults' \in Nat /\ toController = <<>> /\ active = 0 /\ nextId \in 1..MaxId
      /\ toHost' \in Seq(HostLine) /\ All(toHost', Quiet) /\ todo \in Seq(Query)
      /\ protected \in BOOLEAN
  BY ClientFacts DEF Settled
<1>1. CASE /\ Write(Legacy("stop"), "stop") /\ call' = "stop" /\ request' = NoRequest
           /\ UNCHANGED <<todo, nextId, job, fields>>
  <2>1. ControllerStays
    BY <1>1 DEF Settled, ControllerStays
  <2>2. All(toHost', HostLine \ Stopped) /\ All(toHost', HostLine \ Pong)
    BY <1>0, QuietIs, AllWeaken
  <2>3. All(toController, {Noise} \cup {f \in Framed : f.command \in Motion})
    BY <1>0, AllEmpty
  <2>4. nextId' \in 1..MaxId /\ todo' \in Seq(Query)
    BY <1>0, <1>1
  <2> QED
    BY <1>0, <1>1, <2>1, <2>2, <2>3, <2>4, StopBegun
<1>2. CASE /\ request.command \in Motion
           /\ StartRequestAs(nextId, "capabilities", protected)
           /\ call' = "profile" /\ todo' = <<"status">>
  <2>1. "capabilities" \in Sent /\ todo' \in Seq(Query) /\ call' \in Call \ {"none"}
    BY <1>2, SMT DEF Sent, Query, Call
  <2>2. UNCHANGED <<mode, crc, active, feedHomed, sortHomed, sequence, restarted>>
    BY DEF Settled
  <2> QED
    BY <1>0, <1>2, <2>1, <2>2, Requested
<1>3. CASE Return /\ UNCHANGED <<nextId, toController, job, fields>>
  <2>1. step' = "idle" /\ call' = "none" /\ todo' = <<>> /\ request' = NoRequest
        /\ toController' = <<>> /\ nextId' = nextId
    BY <1>0, <1>3 DEF Return
  <2>2. ControllerStays /\ todo' \in Seq(Query)
    BY <1>3, <2>1, SMT DEF Settled, ControllerStays
  <2> QED
    BY <1>0, <2>1, <2>2, Returned
<1> QED
  BY <1>1, <1>2, <1>3 DEF CommandReturns

\* Recovery after a terminal.
LEMMA SettledRecovery ==
  ASSUME SessionInv, Settled, BeginRecovery, UNCHANGED <<job, call, events>>
  PROVE  SessionInv'
<1>1. ControllerStays /\ toHost' \in Seq(HostLine) /\ toController = <<>>
  BY DEF Settled, ControllerStays
<1>2. All(toHost', HostLine \ Pong)
  BY QuietIs, AllWeaken DEF Settled
<1>3. NoActivation(toController) /\ All(toController, ControllerLine \ {Legacy("ping")})
  BY <1>1, AllEmpty DEF NoActivation
<1>4. call' \in Call \ {"none"} /\ faults' \in Nat
  BY ClientFacts DEF SessionInv, ClientTypes, Settled
<1> QED
  BY <1>1, <1>2, <1>3, <1>4, ClientFacts, RecoveryBegun

\* The terminal of a query, of a boundary command, and of any other command.
LEMMA ReadTerminalStep == ASSUME SessionInv, ReadTerminal PROVE SessionInv'
<1>0. /\ step = "request" /\ toHost # <<>> /\ Terminal(Head(toHost))
      /\ toHost' = Stale(Tail(toHost))
      /\ UNCHANGED <<mode, crc, active, feedHomed, sortHomed, sequence, restarted, faults>>
  BY DEF ReadTerminal, Received, Elsewhere, axes
<1>1. /\ active = 0 /\ job = NoJob /\ toController = <<>>
      /\ toHost' \in Seq(HostLine) /\ All(toHost', Quiet)
      /\ request.command \notin Boundary => Agree
      /\ request.command \in Boundary /\ Head(toHost).body = "done" =>
           Lapsed \/ Crossed(request.command, mode, crc)
  BY <1>0, TerminalIs
<1>2. Settled
  BY <1>0, <1>1 DEF Settled
<1>3. /\ session = "v2" /\ protected \in BOOLEAN /\ nextId \in 1..MaxId /\ todo \in Seq(Query)
      /\ events \in [last : 0..MaxSequence, resync : BOOLEAN] /\ faults' \in Nat
      /\ call \in Call \ {"none"}
  BY <1>0, ClientFacts DEF SessionInv, Requesting, ClientTypes
<1>4. /\ \A c \in Boundary : c \notin Motion
      /\ \A c \in Query : c \notin Motion /\ c \notin Boundary /\ c \in Sent
  BY DEF Boundary, Motion, Home, Query, Sent
<1>5. request.command \notin Boundary /\ UNCHANGED <<session, protected>> => Agree'
  BY <1>0, <1>1 DEF Agree, Lapsed
<1>6. CASE request.command \in Query /\ QueryReturns
  <2>1. /\ UNCHANGED <<session, protected>>
        /\ events' = [events EXCEPT !.resync = @ /\ request.command # "status"]
    BY <1>6 DEF QueryReturns
  <2>2. events' \in [last : 0..MaxSequence, resync : BOOLEAN]
    BY <1>3, <2>1
  <2>3. /\ Agree' /\ session' = "v2" /\ session' \in {"v1", "v2"} /\ protected' \in BOOLEAN
        /\ session' = "v1" => ~protected'
    BY <1>3, <1>4, <1>5, <1>6, <2>1
  <2>4. CASE CommandReturns
    BY <1>2, <2>1, <2>2, <2>3, <2>4, CommandReturnsIs
  <2>5. CASE Return /\ UNCHANGED <<nextId, toController, job, fields>>
    <3>1. step' = "idle" /\ call' = "none" /\ todo' = <<>> /\ request' = NoRequest
          /\ toController' = <<>> /\ nextId' = nextId
      BY <1>1, <2>5 DEF Return
    <3>2. ControllerStays /\ todo' \in Seq(Query)
      BY <1>0, <2>5, <3>1, SMT DEF ControllerStays
    <3> QED
      BY <1>1, <1>3, <2>2, <2>3, <3>1, <3>2, Returned
  <2>6. CASE /\ call # "command" /\ todo # <<>>
             /\ StartRequestAs(nextId, Head(todo), protected)
             /\ todo' = Tail(todo) /\ UNCHANGED call
    <3>1. Head(todo) \in Query /\ todo' \in Seq(Query)
      BY <1>3, <2>6, SMT
    <3>2. Head(todo) \in Sent /\ call' \in Call \ {"none"}
      BY <1>3, <1>4, <2>6, <3>1
    <3>3. protected' = protected /\ session' = "v2"
      BY <2>1, <2>3
    <3> QED
      BY <1>0, <1>1, <1>3, <2>2, <2>3, <2>6, <3>1, <3>2, <3>3, Requested
  <2> QED
    BY <1>6, <2>4, <2>5, <2>6 DEF QueryReturns
<1>7. CASE request.command \in Query /\ QueryFails
  <2>1. CASE BeginRecovery /\ UNCHANGED <<call, job, events>>
    BY <1>2, <2>1, SettledRecovery
  <2>2. CASE Abandon /\ UNCHANGED <<toController, job, events>>
    <3>1. LineTypes'
      BY <1>0, <1>1, <1>3, <2>2, ClientFacts, LinesStay DEF ControllerStays
    <3> QED
      BY <2>2, <3>1, Abandoned
  <2> QED
    BY <1>7, <2>1, <2>2 DEF QueryFails
<1>8. CASE request.command \in Boundary /\ BoundaryReturns(Head(toHost).body = "done")
  <2>1. CASE Head(toHost).body = "done"
    <3>1. /\ protected' = (request.command = "crc:on")
          /\ session' = IF request.command = "protocol:1" THEN "v1" ELSE session
          /\ events' = IF request.command = "protocol:1" THEN NewEvents ELSE events
          /\ CommandReturns
      BY <1>8, <2>1 DEF BoundaryReturns
    <3>2. events' \in [last : 0..MaxSequence, resync : BOOLEAN]
      BY <1>3, <3>1, NewEventsIs
    <3>3. protected' \in BOOLEAN
      BY <3>1
    <3>4. session' \in {"v1", "v2"}
      BY <1>3, <3>1
    <3>5. session' = "v1" => ~protected'
      <4>1. session' = "v1" => request.command = "protocol:1"
        BY <1>3, <3>1
      <4> QED
        BY <3>1, <4>1
    <3>6. Agree'
      <4>1. CASE Lapsed
        BY <1>0, <4>1 DEF Agree, Lapsed
      <4>2. CASE Crossed(request.command, mode, crc)
        <5>1. session' = mode
          BY <1>3, <3>1, <4>2 DEF Crossed
        <5>2. protected' = crc
          BY <3>1, <4>2 DEF Crossed
        <5> QED
          BY <1>0, <5>1, <5>2 DEF Agree
      <4> QED
        BY <1>1, <1>8, <2>1, <4>1, <4>2
    <3> QED
      BY <1>2, <1>4, <1>8, <3>1, <3>2, <3>3, <3>4, <3>5, <3>6, CommandReturnsIs
  <2>2. CASE Head(toHost).body # "done"
    <3>1. BeginRecovery /\ UNCHANGED <<call, job, events>>
      BY <1>8, <2>2 DEF BoundaryReturns
    <3> QED
      BY <1>2, <3>1, SettledRecovery
  <2> QED
    BY <2>1, <2>2
<1>9. CASE /\ request.command \notin Query \cup Boundary
           /\ CommandReturns /\ UNCHANGED <<session, protected, events, view>>
  <2>1. /\ Agree' /\ session' = "v2" /\ session' \in {"v1", "v2"} /\ protected' \in BOOLEAN
        /\ session' = "v1" => ~protected'
    BY <1>3, <1>5, <1>9
  <2> QED
    BY <1>2, <1>3, <1>9, <2>1, CommandReturnsIs
<1> QED
  BY <1>6, <1>7, <1>8, <1>9 DEF ReadTerminal

\* out_of_band_stop
LEMMA AwaitStoppedStep == ASSUME SessionInv, AwaitStopped PROVE SessionInv'
<1>0. step = "stop" /\ ControllerStays /\ UNCHANGED <<faults, events>>
  BY DEF AwaitStopped, Elsewhere, axes, ControllerStays
<1>1. /\ All(toController, {Noise, Legacy("stop")} \cup {f \in Framed : f.command \in Motion})
      /\ StopLast
      /\ (active = 0 /\ toController = <<>>) \/ All(toHost, HostLine \ Stopped)
      /\ All(toHost, HostLine \ Pong)
      /\ Ends(toHost, Stopped)
      /\ session # "uncertain" /\ (session = "v1" => ~protected) /\ Agree
      /\ call = "stop" /\ request = NoRequest
  BY <1>0 DEF SessionInv, Halting, ClientTypes
<1>2. Agree /\ UNCHANGED <<session, protected>> => Agree'
  BY <1>0 DEF Agree, Lapsed, ControllerStays
<1>3. CASE /\ Expect({"stopped"}) /\ Consume
           /\ ForgetRequests /\ step' = "idle" /\ call' = "none"
           /\ UNCHANGED <<toController, session, protected, todo>>
  <2>1. toHost # <<>> /\ Head(toHost) \in Stopped /\ toHost' = Tail(toHost)
    BY <1>3 DEF Expect, Received, Consume, Stopped
  <2>2. /\ toHost' \in Seq(HostLine) /\ All(toHost', Quiet)
        /\ \A S : All(toHost, S) => Head(toHost) \in S
    BY <1>1, <2>1, ClientFacts, Consumed
  <2>3. active = 0 /\ toController = <<>> /\ toController' = <<>>
    BY <1>1, <1>3, <2>1, <2>2
  <2>4. request' = NoRequest /\ nextId' \in 1..MaxId
    BY <1>3, Zero DEF ForgetRequests
  <2>5. session' \in {"v1", "v2"} /\ (session' = "v1" => ~protected') /\ protected' \in BOOLEAN
    BY <1>1, <1>3, ClientFacts
  <2> QED
    BY <1>0, <1>1, <1>2, <1>3, <2>2, <2>3, <2>4, <2>5, ClientFacts, Returned
<1>4. CASE /\ Unexpected({"stopped"}) /\ Consume
           /\ UNCHANGED <<toController, session, protected, step, call, todo, request, nextId>>
  <2>1. toHost # <<>> /\ toHost' = Tail(toHost)
    BY <1>4 DEF Unexpected, Received, Consume
  <2>2. /\ toHost' \in Seq(HostLine) /\ \A S : All(toHost, S) => All(toHost', S)
        /\ Ends(toHost', Stopped)
    BY <1>1, <2>1, ClientFacts, Consumed
  <2>3. LineTypes'
    BY <1>0, <1>4, <2>2, ClientFacts, LinesStay
  <2>4. ClientTypes'
    BY <1>0, <1>4 DEF SessionInv, ClientTypes
  <2>5. Halting'
    BY <1>0, <1>1, <1>2, <1>4, <2>2 DEF Halting, StopLast, ControllerStays
  <2> QED
    BY <1>0, <1>4, <2>3, <2>4, <2>5, Silent DEF SessionInv
<1>5. CASE /\ (Received /\ Head(toHost) = Noise /\ Consume) \/ Expire
           /\ BeginRecovery /\ UNCHANGED call
  <2>1. toHost' = toHost \/ (toHost # <<>> /\ toHost' = Tail(toHost))
    BY <1>5 DEF Received, Consume, Expire
  <2>2. toHost' \in Seq(HostLine)
    BY <2>1, ClientFacts, Consumed
  <2>3. NoActivation(toController)
    <3>1. \A l \in {Noise, Legacy("stop")} \cup {f \in Framed : f.command \in Motion} :
            l \in ControllerLine \ {Legacy("protocol:2")}
      BY BareIs, NoiseIs DEF ControllerLine, Bare
    <3> QED
      BY <1>1, <3>1, AllWeaken DEF NoActivation
  <2>4. call' \in Call \ {"none"} /\ call' \notin {"command", "profile"}
    BY <1>1, <1>5 DEF Call
  <2> QED
    BY <1>0, <1>5, <2>2, <2>3, <2>4, ClientFacts, RecoveryBegun
<1> QED
  BY <1>3, <1>4, <1>5 DEF AwaitStopped

\* recover_to_v1 up to the reset.
LEMMA AwaitRecoveryStopStep == ASSUME SessionInv, AwaitRecoveryStop PROVE SessionInv'
<1>0. /\ step = "recover_stop" /\ step' \in {"recover_stop", "recover_reset"} /\ ControllerStays
      /\ UNCHANGED <<faults, toController, session, protected, call, todo, request, nextId, events>>
  BY DEF AwaitRecoveryStop, Elsewhere, axes, ControllerStays
<1>1. /\ NoActivation(toController) \/ Activation
      /\ call \in {"command", "profile"} =>
         All(toController, ControllerLine \ {Legacy("ping")}) /\ All(toHost, HostLine \ Pong)
      /\ call \in Call \ {"none"} /\ request = NoRequest
  BY <1>0 DEF SessionInv, Recovering, ClientTypes
<1>2. toHost' = toHost \/ (toHost # <<>> /\ toHost' = Tail(toHost))
  BY DEF AwaitRecoveryStop, Unexpected, Received, Consume, Expire
<1>3. toHost' \in Seq(HostLine) /\ \A S : All(toHost, S) => All(toHost', S)
  BY <1>2, ClientFacts, Consumed
<1>4. LineTypes'
  BY <1>0, <1>3, ClientFacts, LinesStay
<1>5. ClientTypes'
  BY <1>0, <1>1 DEF SessionInv, ClientTypes, Step
<1>6. Activation => Activation'
  BY <1>0, <1>3 DEF Activation, NoFrame
<1>7. Recovering'
  BY <1>0, <1>1, <1>3, <1>6 DEF Recovering
<1> QED
  BY <1>0, <1>4, <1>5, <1>7, Silent DEF SessionInv

\* The reset hook of recover_to_v1.
LEMMA ResetStep == ASSUME SessionInv, Reset PROVE SessionInv'
<1>0. step = "recover_reset" /\ UNCHANGED <<faults, protected, events>>
  BY DEF Reset
<1>1. /\ NoActivation(toController) \/ Activation
      /\ call \in {"command", "profile"} =>
         All(toController, ControllerLine \ {Legacy("ping")}) /\ All(toHost, HostLine \ Pong)
      /\ call \in Call \ {"none"} /\ request = NoRequest
  BY <1>0 DEF SessionInv, Recovering, ClientTypes
<1>2. Plain("Ready") \in HostLine \ Pong
  <2>1. Plain("Ready") \in Quiet
    BY DEF Quiet
  <2> QED
    BY <2>1, QuietIs
<1>3. CASE /\ Boot(toController, toHost) /\ step' = "recover_ready"
           /\ UNCHANGED <<session, call, todo, request, nextId>>
  <2>1. /\ Fresh' /\ ControllerTypes' /\ toController' = toController /\ toHost' \in Seq(HostLine)
        /\ \A S : All(toHost, S) /\ Plain("Ready") \in S => All(toHost', S)
    BY <1>3, ClientFacts, BootIs
  <2>2. All(toHost, HostLine \ Pong) => All(toHost', HostLine \ Pong)
    BY <1>2, <2>1
  <2>3. Activation => Activation'
    BY <2>1, <2>2 DEF Activation, NoFrame
  <2>4. Recovering'
    BY <1>1, <1>3, <2>1, <2>2, <2>3 DEF Recovering, Fresh
  <2>5. LineTypes'
    BY <1>0, <2>1, ClientFacts DEF LineTypes
  <2> QED
    BY <1>0, <1>1, <1>3, <2>4, <2>5, Silent, ClientFacts DEF SessionInv, ClientTypes, Step
<1>4. CASE /\ Boot(<<>>, <<>>) /\ step' = "recover_ready"
           /\ UNCHANGED <<session, call, todo, request, nextId>>
  <2>1. /\ Fresh' /\ ControllerTypes' /\ toController' = <<>> /\ toHost' \in Seq(HostLine)
        /\ \A S : All(<<>>, S) /\ Plain("Ready") \in S => All(toHost', S)
    <3>1. <<>> \in Seq(ControllerLine) /\ <<>> \in Seq(HostLine)
      BY SMT
    <3> QED
      BY <1>4, <3>1, BootIs
  <2>2. /\ All(toHost', HostLine \ Pong) /\ NoActivation(toController')
        /\ All(toController', ControllerLine \ {Legacy("ping")})
    BY <1>2, <2>1, AllEmpty DEF NoActivation
  <2>3. Recovering'
    BY <1>4, <2>1, <2>2 DEF Recovering, Fresh
  <2>4. LineTypes'
    BY <1>0, <2>1, ClientFacts, SMT DEF LineTypes
  <2> QED
    BY <1>0, <1>1, <1>4, <2>3, <2>4, Silent, ClientFacts DEF SessionInv, ClientTypes, Step
<1>5. CASE Abandon /\ UNCHANGED <<controller, unreadable, restarted, toController, toHost>>
  <2>1. ControllerStays
    BY <1>5 DEF controller, axes, ControllerStays
  <2>2. LineTypes'
    BY <1>0, <1>5, <2>1, ClientFacts, LinesStay
  <2> QED
    BY <1>0, <1>5, <2>2, Abandoned
<1> QED
  BY <1>3, <1>4, <1>5 DEF Reset

\* recover_to_v1 after the reset.
LEMMA VerifyReadyStep == ASSUME SessionInv, VerifyReady PROVE SessionInv'
<1>0. step = "recover_ready" /\ ControllerStays /\ UNCHANGED <<faults, events, protected>>
  BY DEF VerifyReady, Elsewhere, axes, ControllerStays
<1>1. toHost' = toHost \/ (toHost # <<>> /\ toHost' = Tail(toHost))
  BY DEF VerifyReady, Unexpected, Expect, Received, Consume, Expire
<1>2. toHost' \in Seq(HostLine) /\ \A S : All(toHost, S) => All(toHost', S)
  BY <1>1, ClientFacts, Consumed
<1>3. CASE /\ Write(Legacy("ping"), "recover_ping")
           /\ UNCHANGED <<session, call, todo, request, nextId>>
  <2>0. toController' = Append(toController, Legacy("ping")) /\ step' = "recover_ping"
    BY <1>3 DEF Write, Send
  <2>1. /\ Legacy("ping") \in ControllerLine /\ Legacy("ping") \in ControllerLine \ Framed
        /\ Legacy("ping") \in ControllerLine \ {Legacy("protocol:2")}
    BY BareIs DEF ControllerLine, Bare
  <2>2. /\ toController' \in Seq(ControllerLine) /\ toController' # <<>>
        /\ \A S : All(toController, S) /\ Legacy("ping") \in S => All(toController', S)
        /\ All(toController, ControllerLine \ {Legacy("ping")}) => OnlyLast(toController', Legacy("ping"))
        /\ toController # <<>> => Tail(toController') = Append(Tail(toController), Legacy("ping"))
    BY <2>0, <2>1, ClientFacts, Written
  <2>3. NoActivation(toController) => NoActivation(toController')
    BY <2>1, <2>2 DEF NoActivation
  <2>4. NoFrame => NoFrame'
    BY <2>1, <2>2 DEF NoFrame
  <2>5. Activation => Activation'
    <3> SUFFICES ASSUME Activation PROVE Activation'
      OBVIOUS
    <3>1. Tail(toController) \in Seq(ControllerLine) /\ toController # <<>>
      BY ClientFacts, SMT DEF Activation
    <3>2. All(Append(Tail(toController), Legacy("ping")), ControllerLine \ {Legacy("protocol:2")})
      BY <2>1, <3>1, AllAppend DEF Activation, NoActivation
    <3> QED
      BY <1>2, <2>2, <2>4, <3>1, <3>2 DEF Activation, NoActivation
  <2>6. /\ ~crc /\ active = 0
        /\ \/ mode = "v1" /\ NoActivation(toController)
           \/ mode = "v1" /\ Activation
           \/ mode = "v2" /\ NoActivation(toController) /\ NoFrame /\ All(toHost, HostLine \ Pong)
        /\ call \in {"command", "profile"} =>
             All(toController, ControllerLine \ {Legacy("ping")}) /\ All(toHost, HostLine \ Pong)
    BY <1>0 DEF SessionInv, Recovering
  <2>7. All(toHost', HostLine \ Pong) => Ends(toHost', Pong)
    BY EndsNone
  <2>8. Recovering'
    BY <1>0, <1>2, <1>3, <2>0, <2>2, <2>3, <2>4, <2>5, <2>6, <2>7 DEF Recovering, ControllerStays
  <2>9. LineTypes'
    BY <1>0, <1>2, <2>2, ClientFacts, LinesStay
  <2>10. ClientTypes'
    BY <1>0, <1>3, <2>0 DEF SessionInv, ClientTypes, Step
  <2> QED
    BY <2>0, <2>8, <2>9, <2>10, Silent DEF SessionInv
<1>4. CASE Abandon /\ UNCHANGED toController
  <2>1. LineTypes'
    BY <1>0, <1>2, <1>4, ClientFacts, LinesStay
  <2> QED
    BY <1>0, <1>4, <2>1, Abandoned
<1> QED
  BY <1>3, <1>4 DEF VerifyReady

\* A ping answered during recovery: the controller is in v1, and after a command or
\* a profile nothing else is on the line.
LEMMA PingVerified ==
  ASSUME SessionInv, step = "recover_ping", Expect({PingAnswer})
  PROVE  /\ Fresh
         /\ call \in {"command", "profile"} => toController = <<>> /\ All(Tail(toHost), Quiet)
<1>1. toHost # <<>> /\ Head(toHost) \in Pong /\ toHost \in Seq(HostLine)
  BY ClientFacts DEF Expect, Received, Pong
<1>2. ~All(toHost, HostLine \ Pong)
  BY <1>1, AllTail
<1>3. Fresh
  BY <1>2 DEF SessionInv, Recovering, Activation, Fresh
<1>4. call \in {"command", "profile"} => toController = <<>> /\ Ends(toHost, Pong)
  BY <1>2 DEF SessionInv, Recovering
<1>5. Ends(toHost, Pong) => All(Tail(toHost), Quiet)
  BY <1>1, EndsTail
<1> QED
  BY <1>3, <1>4, <1>5

\* The end of recover_to_v1.
LEMMA VerifyPingStep == ASSUME SessionInv, VerifyPing PROVE SessionInv'
<1>0. step = "recover_ping" /\ ControllerStays /\ UNCHANGED faults
  BY DEF VerifyPing, Elsewhere, axes, ControllerStays
<1>1. toHost' = toHost \/ (toHost # <<>> /\ toHost' = Tail(toHost))
  BY DEF VerifyPing, Unexpected, Expect, Received, Consume, Expire
<1>2. toHost' \in Seq(HostLine)
  BY <1>1, ClientFacts, Consumed
<1>3. CASE /\ Expect({PingAnswer}) /\ Consume
           /\ session' = "v1" /\ protected' = FALSE /\ ForgetRequests /\ events' = NewEvents
           /\ IF call \in {"command", "profile"} /\ ~(call = "command" /\ stopping)
              THEN /\ Write(Legacy("protocol:2?"), "discover")
                   /\ call' = "reactivate" /\ retried' = FALSE
              ELSE /\ step' = AfterFailure /\ call' = "none"
                   /\ UNCHANGED <<toController, retried>>
           /\ UNCHANGED todo
  <2>1. /\ Fresh' /\ toHost' = Tail(toHost)
        /\ call \in {"command", "profile"} => toController = <<>> /\ All(toHost', Quiet)
    BY <1>0, <1>3, PingVerified DEF Fresh, ControllerStays, Consume
  <2>2. request' = NoRequest /\ nextId' \in 1..MaxId /\ protected' \in BOOLEAN
    BY <1>3, Zero DEF ForgetRequests
  <2>3. todo' \in Seq(Query) /\ events' \in [last : 0..MaxSequence, resync : BOOLEAN]
    BY <1>3, NewEventsIs, ClientFacts
  <2>4. CASE /\ call \in {"command", "profile"}
             /\ Write(Legacy("protocol:2?"), "discover") /\ call' = "reactivate"
    <3>1. toController' = <<Legacy("protocol:2?")>> /\ step' = "discover"
      <4>1. toController = <<>>
        BY <2>1, <2>4
      <4> QED
        BY <2>4, <4>1, SMT DEF Write, Send
    <3>2. toController' \in Seq(ControllerLine)
      BY <3>1, SMT DEF ControllerLine, Bare
    <3>3. LineTypes'
      BY <1>0, <1>2, <3>2, ClientFacts, LinesStay
    <3> QED
      BY <1>3, <2>1, <2>2, <2>3, <2>4, <3>1, <3>3, Asked
  <2>5. CASE step' = AfterFailure /\ call' = "none" /\ UNCHANGED toController
    <3>1. LineTypes'
      BY <1>0, <1>2, <2>5, ClientFacts, LinesStay
    <3>2. step' \in {"closed", "failed"}
      BY <2>5 DEF AfterFailure
    <3> QED
      BY <1>3, <2>2, <2>3, <2>5, <3>1, <3>2, GivenUp
  <2> QED
    BY <1>3, <2>4, <2>5
<1>4. CASE Abandon /\ UNCHANGED <<toController, retried, events>>
  <2>1. LineTypes'
    BY <1>0, <1>2, <1>4, ClientFacts, LinesStay
  <2> QED
    BY <1>4, <2>1, Abandoned
<1> QED
  BY <1>3, <1>4 DEF VerifyPing

\* submit_priority_stop only leaves its mark.
LEMMA RequestStopStep == ASSUME SessionInv, RequestStop PROVE SessionInv'
<1>1. /\ ControllerStays /\ UNCHANGED <<toController, toHost, faults>>
      /\ UNCHANGED <<session, protected, step, call, todo, request, nextId, events>>
  BY DEF RequestStop, controller, axes, ControllerStays
<1>2. LineTypes'
  BY <1>1, ClientFacts, LinesStay
<1>3. ClientTypes'
  BY <1>1 DEF SessionInv, ClientTypes
<1>4. Greeting' /\ Idle'
  BY <1>1 DEF SessionInv, Greeting, Idle, Fresh, Agree, Lapsed, ControllerStays
<1>5. Asking'
  BY <1>1 DEF SessionInv, Asking, Fresh, Exchange, ControllerStays
<1>6. Requesting'
  BY <1>1 DEF SessionInv, Requesting, Exchange, Crossed, Agree, Lapsed, ControllerStays
<1>7. Halting'
  BY <1>1 DEF SessionInv, Halting, StopLast, Agree, Lapsed, ControllerStays
<1>8. Recovering'
  BY <1>1 DEF SessionInv, Recovering, Activation, NoFrame, ControllerStays
<1> QED
  BY <1>2, <1>3, <1>4, <1>5, <1>6, <1>7, <1>8 DEF SessionInv

\* _execute_stop
LEMMA ExecuteStopStep == ASSUME SessionInv, ExecuteStop PROVE SessionInv'
<1>0. /\ step = "idle" /\ ControllerStays /\ UNCHANGED <<faults, toHost, events>>
      /\ Write(Legacy("stop"), "stop") /\ call' = "stop"
      /\ UNCHANGED <<session, protected, todo, request, nextId>>
  BY DEF ExecuteStop, Elsewhere, axes, ControllerStays
<1>1. /\ toController = <<>> /\ All(toHost, Quiet) /\ request = NoRequest
      /\ session # "uncertain" /\ (session = "v1" => ~protected) /\ Agree
  BY <1>0 DEF SessionInv, Idle, ClientTypes
<1>2. Agree'
  BY <1>0, <1>1 DEF Agree, Lapsed, ControllerStays
<1>3. All(toHost', HostLine \ Stopped) /\ All(toHost', HostLine \ Pong)
  BY <1>0, <1>1, QuietIs, AllWeaken
<1>4. All(toController, {Noise} \cup {f \in Framed : f.command \in Motion})
  BY <1>1, AllEmpty
<1>5. session' \in {"v1", "v2"} /\ (session' = "v1" => ~protected') /\ protected' \in BOOLEAN
  BY <1>0, <1>1, ClientFacts
<1> QED
  BY <1>0, <1>1, <1>2, <1>3, <1>4, <1>5, ClientFacts, StopBegun

\* _execute_item writes a command, or fails to.
LEMMA SubmitStep == ASSUME SessionInv, NEW c \in Command, Submit(c) PROVE SessionInv'
<1>0. /\ step = "idle" /\ session = "v2" /\ call' = "command" /\ events' = events
      /\ UNCHANGED <<mode, crc, active, feedHomed, sortHomed, sequence, restarted>>
  BY DEF Submit, axes
<1>1. active = 0 /\ toController = <<>> /\ All(toHost, Quiet) /\ Agree
  BY <1>0 DEF SessionInv, Idle
<1>2. call' \in Call \ {"none"} /\ c \in Sent
  BY <1>0, ProtocolAssumption DEF Call, Sent
<1>3. CASE /\ StartRequestAs(nextId, c, protected)
           /\ toHost' = Stale(toHost)
           /\ UNCHANGED <<session, protected, todo, faults>>
  <2>1. toHost' = toHost
    BY <1>1, <1>3, StaleQuiet, ClientFacts
  <2>2. Agree'
    BY <1>0, <1>1, <1>3 DEF Agree, Lapsed
  <2> QED
    BY <1>0, <1>1, <1>2, <1>3, <2>1, <2>2, ClientFacts, Requested
<1>4. CASE faults' = faults + 1 /\ BeginRecovery /\ UNCHANGED <<toHost, job, fields>>
  <2>1. ControllerStays /\ faults' \in Nat
    BY <1>0, <1>4, ClientFacts, SMT DEF ControllerStays
  <2>2. All(toHost', HostLine \ Pong)
    BY <1>1, <1>4, QuietIs, AllWeaken
  <2>3. NoActivation(toController) /\ All(toController, ControllerLine \ {Legacy("ping")})
    BY <1>1, AllEmpty DEF NoActivation
  <2> QED
    BY <1>0, <1>2, <1>4, <2>1, <2>2, <2>3, ClientFacts, RecoveryBegun
<1> QED
  BY <1>3, <1>4 DEF Submit

\* A host tool enters v2 again.
LEMMA ActivateAgainStep == ASSUME SessionInv, ActivateAgain PROVE SessionInv'
<1>0. /\ step = "idle" /\ session = "v1" /\ ControllerStays /\ UNCHANGED <<faults, toHost, events>>
      /\ Write(Legacy("protocol:2?"), "discover") /\ call' = "reactivate"
      /\ UNCHANGED <<session, protected, todo, request, nextId>>
  BY DEF ActivateAgain, Elsewhere, axes, ControllerStays
<1>1. /\ active = 0 /\ toController = <<>> /\ All(toHost, Quiet) /\ request = NoRequest
      /\ ~protected /\ Agree
  BY <1>0 DEF SessionInv, Idle, ClientTypes
<1>2. Fresh'
  <2>1. mode = "v1" /\ ~crc
    BY <1>0, <1>1, SMT DEF Agree, Lapsed
  <2> QED
    BY <1>0, <1>1, <2>1 DEF Fresh, ControllerStays
<1>3. toController' = <<Legacy("protocol:2?")>> /\ step' = "discover"
  BY <1>0, <1>1, SMT DEF Write, Send
<1>4. toController' \in Seq(ControllerLine)
  BY <1>3, SMT DEF ControllerLine, Bare
<1>5. LineTypes'
  BY <1>0, <1>4, ClientFacts, LinesStay
<1> QED
  BY <1>0, <1>1, <1>2, <1>3, <1>5, ClientFacts, Asked

-----------------------------------------------------------------------------
(* The invariant holds *)

\* A fresh transport: the controller has started, and the client waits for it.
LEMMA SessionInit == Init => SessionInv
<1> SUFFICES ASSUME Init PROVE SessionInv
  OBVIOUS
<1>1. /\ Fresh /\ job = NoJob /\ crc = FALSE /\ feedHomed = FALSE /\ sortHomed = FALSE
      /\ sequence = 0 /\ active = 0 /\ faults = 0
      /\ toController = <<>> /\ toHost = <<Plain("Ready")>>
  BY DEF Init, ControllerInit, Booted, Fresh
<1>2. Plain("Ready") \in Quiet /\ Plain("Ready") \in HostLine
  BY DEF Quiet, HostLine
<1>3. toHost \in Seq(HostLine) /\ All(toHost, Quiet) /\ toController \in Seq(ControllerLine)
  BY <1>1, <1>2, List1, SMT
<1>4. crc \in BOOLEAN /\ feedHomed \in BOOLEAN /\ sortHomed \in BOOLEAN
  BY <1>1
<1>5. LineTypes
  BY <1>1, <1>3, <1>4, Zero, JobIs DEF LineTypes, ControllerTypes, Fresh
<1>6. ClientTypes
  <2>a. protected = FALSE /\ todo = <<>> /\ nextId = 1
    BY DEF Init
  <2>1. protected \in BOOLEAN
    BY <2>a
  <2>2. todo \in Seq(Query) /\ nextId \in 1..MaxId
    BY <2>a, Zero, SMT
  <2> QED
    BY <2>1, <2>2, NewEventsIs DEF Init, ClientTypes, Step, Call
<1>7. step = "ready"
  BY DEF Init
<1> QED
  BY <1>1, <1>3, <1>5, <1>6, <1>7
     DEF SessionInv, Greeting, Asking, Requesting, Idle, Halting, Recovering

\* Every step preserves the invariant.
LEMMA SessionStep == SessionInv /\ [Next]_vars => SessionInv'
<1> SUFFICES ASSUME SessionInv, [Next]_vars PROVE SessionInv'
  OBVIOUS
<1>1. CASE UNCHANGED vars
  <2>1. /\ ControllerStays /\ UNCHANGED <<toController, toHost, faults>>
        /\ UNCHANGED <<session, protected, step, call, todo, request, nextId, events>>
    BY <1>1 DEF vars, client, controller, axes, ControllerStays
  <2>2. LineTypes'
    BY <2>1, ClientFacts, LinesStay
  <2>3. ClientTypes'
    BY <2>1 DEF SessionInv, ClientTypes
  <2>4. Greeting' /\ Idle'
    BY <2>1 DEF SessionInv, Greeting, Idle, Fresh, Agree, Lapsed, ControllerStays
  <2>5. Asking'
    BY <2>1 DEF SessionInv, Asking, Fresh, Exchange, ControllerStays
  <2>6. Requesting'
    BY <2>1 DEF SessionInv, Requesting, Exchange, Crossed, Agree, Lapsed, ControllerStays
  <2>7. Halting'
    BY <2>1 DEF SessionInv, Halting, StopLast, Agree, Lapsed, ControllerStays
  <2>8. Recovering'
    BY <2>1 DEF SessionInv, Recovering, Activation, NoFrame, ControllerStays
  <2> QED
    BY <2>2, <2>3, <2>4, <2>5, <2>6, <2>7, <2>8 DEF SessionInv
<1>2. CASE ControllerNext /\ UNCHANGED client
  BY <1>2, ControllerStep
<1>3. CASE ClientNext
  <2>1. CASE Connect \/ GiveUp \/ WaitReady \/ PingBarrier \/ Discover \/ Activate
    BY <2>1, ConnectStep, GiveUpStep, WaitReadyStep, PingBarrierStep, DiscoverStep, ActivateStep
  <2>2. CASE ReadPart \/ ReadTerminal \/ RequestUnsafe \/ Interrupt
    BY <2>2, ReadPartStep, ReadTerminalStep, RequestUnsafeStep, InterruptStep
  <2>3. CASE AwaitStopped \/ AwaitRecoveryStop \/ Reset \/ VerifyReady \/ VerifyPing \/ ExecuteStop
    BY <2>3, AwaitStoppedStep, AwaitRecoveryStopStep, ResetStep, VerifyReadyStep, VerifyPingStep,
       ExecuteStopStep
  <2> QED
    BY <1>3, <2>1, <2>2, <2>3 DEF ClientNext
<1>4. CASE RequestStop \/ (\E c \in Command : Submit(c)) \/ ActivateAgain
  BY <1>4, RequestStopStep, SubmitStep, ActivateAgainStep
<1> QED
  BY <1>1, <1>2, <1>3, <1>4 DEF Next

\* The invariant holds of every reachable state.
THEOREM SessionInvariant == Spec => []SessionInv
BY SessionInit, SessionStep, PTL DEF Spec

-----------------------------------------------------------------------------
(* What it implies *)

\* ProtocolClient and the controller keep to their state spaces: the request ID is
\* there exactly while a request is outstanding, the worker's call exactly while one
\* is served, and a movement has an ID exactly while it is scheduled.
THEOREM ProtocolTypes == Spec => []ProtocolTypeOK
<1>1. SessionInv => ProtocolTypeOK
  <2> SUFFICES ASSUME SessionInv PROVE ProtocolTypeOK
    OBVIOUS
  <2>1. /\ mode \in {"v1", "v2"} /\ crc \in BOOLEAN /\ active \in 0..MaxId
        /\ (active = 0) = (job = NoJob)
    BY DEF SessionInv, LineTypes, ControllerTypes
  <2>2. /\ session \in {"v1", "v2", "uncertain"} /\ protected \in BOOLEAN
        /\ step \in Step /\ call \in Call
        /\ (step \in {"idle", "closed", "failed"}) = (call = "none")
        /\ nextId \in 1..MaxId
    BY SMT DEF SessionInv, ClientTypes
  <2>3. (step = "request") = (request # NoRequest) /\ request.id \in 0..MaxId
    <3>1. CASE step = "request"
      <4>1. request \in [id : 1..MaxId, command : Sent]
        BY <3>1 DEF SessionInv, ClientTypes
      <4>2. request.id \in 0..MaxId /\ request.id # 0
        BY <4>1, SMT
      <4> QED
        BY <3>1, <4>2, SMT DEF NoRequest
    <3>2. CASE step # "request"
      BY <3>2, Zero, SMT DEF SessionInv, ClientTypes, NoRequest
    <3> QED
      BY <3>1, <3>2
  <2>4. events.last \in 0..MaxSequence
    BY DEF SessionInv, ClientTypes
  <2> QED
    BY <2>1, <2>2, <2>3, <2>4 DEF ProtocolTypeOK
<1> QED
  BY <1>1, SessionInvariant, PTL

\* RequestTracker.observe: although IDs start again at 1 after every stop and recovery
\* and wrap at MaxId, a terminal with the outstanding ID is the answer to that request.
THEOREM CompletionsAreOwn == Spec => []CompletionIsOwn
<1>1. SessionInv => CompletionIsOwn
  <2> SUFFICES ASSUME SessionInv, step = "request", Received, Terminal(Head(toHost))
               PROVE  Head(toHost).own
    BY DEF CompletionIsOwn
  <2>1. toHost # <<>> /\ toHost \in Seq(HostLine) /\ All(toHost, Meets(request.id))
    BY ClientFacts DEF Received, SessionInv, Requesting
  <2>2. Head(toHost) \in Meets(request.id)
    BY <2>1, AllTail
  <2>3. Head(toHost).kind = "response" /\ Head(toHost).id = request.id
    BY DEF Terminal, Correlates
  <2>4. Head(toHost) \notin Quiet /\ Head(toHost) \notin Spoken
    BY <2>3, Kinds DEF Quiet
  <2> QED
    BY <2>2, <2>3, <2>4 DEF Meets
<1> QED
  BY <1>1, SessionInvariant, PTL

\* out_of_band_stop: the exact terminal is only read when nothing moves and no line of
\* the client's is left that could start a movement.
THEOREM StopsAreTrusted == Spec => []StopIsTrusted
<1>1. SessionInv => StopIsTrusted
  <2> SUFFICES ASSUME SessionInv, step = "stop", Expect({"stopped"})
               PROVE  active = 0 /\ toController = <<>>
    BY DEF StopIsTrusted
  <2>1. toHost # <<>> /\ toHost \in Seq(HostLine) /\ Head(toHost) \in Stopped
    BY ClientFacts DEF Expect, Received, Stopped
  <2>2. ~All(toHost, HostLine \ Stopped)
    BY <2>1, AllTail
  <2> QED
    BY <2>2 DEF SessionInv, Halting
<1> QED
  BY <1>1, SessionInvariant, PTL

\* recover_to_v1: when its ping is answered the controller is in v1, without checksums,
\* and nothing moves, although lines and answers from before the reset may arrive after.
THEOREM VerificationIsSound == Spec => []VerifiedIsV1
<1>1. SessionInv => VerifiedIsV1
  BY PingVerified DEF VerifiedIsV1, Fresh
<1> QED
  BY <1>1, SessionInvariant, PTL

\* The client never guesses the active parser: whenever it is idle its mode and its
\* checksum setting are the controller's, unless the controller restarted by itself.
THEOREM ParsersAlwaysAgree == Spec => []ParsersAgree
<1>1. SessionInv => ParsersAgree
  BY DEF SessionInv, Idle, Agree, Lapsed, ParsersAgree
<1> QED
  BY <1>1, SessionInvariant, PTL

\* Between two calls of a session in use nothing is under way at the controller, no line
\* of the client's is unread, and no answer is left on the line that a later exchange
\* could take for its own.
CallsAreOver ==
    step = "idle" => active = 0 /\ job = NoJob /\ toController = <<>> /\ All(toHost, Quiet)

\* With any number of faults, a call of ProtocolSession that returns and keeps the
\* session leaves nothing behind; every other call ends closed or failed.
THEOREM ReturnedIsOver == Spec => []CallsAreOver
<1>1. SessionInv => CallsAreOver
  BY DEF SessionInv, LineTypes, ControllerTypes, Idle, CallsAreOver
<1> QED
  BY <1>1, SessionInvariant, PTL

-----------------------------------------------------------------------------
(* A session that was given up *)

\* A client whose verification is under way faces a controller that keeps still.
LEMMA RecoveringIsStill ==
  ASSUME SessionInv, step \in {"recover_ready", "recover_ping"} PROVE Still
BY DEF SessionInv, Recovering, Still, Activation

\* The controller, the line's faults and the power supply start no movement where
\* nothing on the line can.
LEMMA StillController ==
  ASSUME SessionInv, Still, ControllerNext
  PROVE  Still'
<1>0. LineTypes
  BY DEF SessionInv
<1>1. CASE Brownout
  <2>1. toController' = <<>> /\ active' = 0
    BY <1>1 DEF Brownout, Boot, Booted
  <2> QED
    BY <2>1, AllEmpty DEF Still, NoFrame
<1>2. CASE LineFault
  <2>1. UNCHANGED <<active, mode>>
    BY <1>2 DEF LineFault, controller
  <2>2. CASE UNCHANGED toController
    BY <2>1, <2>2 DEF Still, NoFrame
  <2>3. CASE /\ toController # <<>>
             /\ toController' = Tail(toController) \/ toController' = <<Noise>> \o Tail(toController)
    <3>1. toController \in Seq(ControllerLine) /\ Noise \in ControllerLine
      BY <1>0, NoiseIs DEF LineTypes
    <3>2. \A S : Noise \in S /\ All(toController, S) => All(toController', S)
      BY <2>3, <3>1, FaultedLine
    <3>3. Noise \in ControllerLine \ Framed /\ Noise \in ControllerLine \ {Legacy("protocol:2")}
      BY NoiseIs
    <3> QED
      BY <2>1, <3>2, <3>3 DEF Still, NoFrame, NoActivation
  <2> QED
    BY <1>2, <2>2, <2>3 DEF LineFault
<1>3. CASE Progress \/ Complete \/ FailMotion
  BY <1>0, <1>3, CallbackIs DEF Still
<1>4. CASE HandleLine \/ HandleAdversely
  <2> DEFINE x == Head(toController)
  <2>1. toController # <<>> /\ toController' = Tail(toController) /\ Handled(x)
    BY <1>0, <1>4, LineHandled
  <2>2. /\ active = 0 /\ (mode = "v1" \/ x \notin Framed) => active' = 0
        /\ x \notin Framed /\ x # Legacy("protocol:2") => mode' = mode
        /\ x \in Framed /\ mode = "v1" => mode' = mode
    <3>1. mode \in {"v1", "v2"}
      BY <1>0 DEF LineTypes, ControllerTypes
    <3> QED
      BY <2>1, <3>1 DEF Handled
  <2>3. toController \in Seq(ControllerLine)
    BY <1>0 DEF LineTypes
  <2>4. \A S : All(toController, S) => x \in S /\ All(toController', S)
    BY <2>1, <2>3, AllTail
  <2>5. CASE active = 0 /\ NoFrame
    <3>1. x \notin Framed /\ NoFrame'
      BY <2>4, <2>5 DEF NoFrame
    <3> QED
      BY <2>2, <2>5, <3>1 DEF Still
  <2>6. CASE active = 0 /\ mode = "v1" /\ NoActivation(toController)
    <3>1. x # Legacy("protocol:2") /\ NoActivation(toController')
      BY <2>4, <2>6 DEF NoActivation
    <3> QED
      BY <2>2, <2>6, <3>1 DEF Still
  <2> QED
    BY <2>5, <2>6 DEF Still
<1> QED
  BY <1>1, <1>2, <1>3, <1>4 DEF ControllerNext

\* Where the client gives a session up, nothing moves and nothing can start to, or the
\* reset failed and the client is uncertain.
LEMMA GivesUp ==
  ASSUME SessionInv, ClientNext, step' \in {"closed", "failed"}
  PROVE  \/ session' = "uncertain" /\ step = "recover_reset"
         \/ Still /\ UNCHANGED <<active, mode, toController>>
         \/ step = "closed" /\ UNCHANGED <<active, mode, toController, session>>
<1>0. toController = <<>> /\ active = 0 => Still
  BY AllEmpty DEF Still, NoFrame
<1>1. ~BeginRecovery
  BY DEF BeginRecovery, Write
<1>2. CASE Connect \/ ReadPart \/ Interrupt \/ ExecuteStop
  BY <1>2 DEF Connect, ReadPart, Interrupt, ExecuteStop, Write
<1>3. CASE GiveUp
  BY <1>3 DEF GiveUp, Elsewhere
<1>4. CASE WaitReady
  <2>1. step = "ready" /\ UNCHANGED <<active, mode, toController>>
    BY <1>4 DEF WaitReady, Elsewhere, Write
  <2> QED
    BY <1>0, <2>1 DEF SessionInv, Greeting, Fresh
<1>5. CASE PingBarrier \/ Activate \/ RequestUnsafe \/ AwaitStopped \/ AwaitRecoveryStop
  BY <1>1, <1>5 DEF PingBarrier, Activate, RequestUnsafe, AwaitStopped, AwaitRecoveryStop,
                    Write, StartRequestAs
<1>6. CASE Discover
  <2>1. /\ UNCHANGED <<active, mode, toController>>
        /\ Expect({"ok"}) /\ Consume
    BY <1>1, <1>6 DEF Discover, Elsewhere, Write
  <2>2. toHost # <<>> /\ Head(toHost) \in Spoken /\ toHost' = Tail(toHost)
    BY <2>1, ExpectSpoken DEF Spoken, Consume
  <2>3. active = 0 /\ toController = <<>>
    BY <1>6, <2>2, AnswerTaken DEF Discover
  <2> QED
    BY <1>0, <2>1, <2>3
<1>7. CASE ReadTerminal
  <2>1. /\ step = "request" /\ toHost # <<>> /\ Terminal(Head(toHost))
        /\ toHost' = Stale(Tail(toHost)) /\ UNCHANGED <<active, mode>>
    BY <1>7 DEF ReadTerminal, Received, Elsewhere
  <2>2. active = 0 /\ toController = <<>>
    BY <2>1, TerminalIs
  <2>3. ~CommandReturns
    BY DEF CommandReturns, Write, StartRequestAs, Return
  <2>4. UNCHANGED toController
    BY <1>1, <1>7, <2>3
       DEF ReadTerminal, QueryReturns, QueryFails, BoundaryReturns, Return, StartRequestAs
  <2> QED
    BY <1>0, <2>1, <2>2, <2>4
<1>8. CASE Reset
  BY <1>8 DEF Reset, Abandon
<1>9. CASE VerifyReady \/ VerifyPing
  <2>1. /\ step \in {"recover_ready", "recover_ping"} /\ UNCHANGED <<active, mode, toController>>
    BY <1>9 DEF VerifyReady, VerifyPing, Elsewhere, Write
  <2> QED
    BY <2>1, RecoveringIsStill
<1> QED
  BY <1>2, <1>3, <1>4, <1>5, <1>6, <1>7, <1>8, <1>9 DEF ClientNext

\* Every step keeps a session that was given up as it was left.
LEMMA GivenUpStep == SessionInv /\ GivenUpStill /\ [Next]_vars => GivenUpStill'
<1> SUFFICES ASSUME SessionInv, GivenUpStill, [Next]_vars, step' \in {"closed", "failed"}
             PROVE  session' = "uncertain" \/ Still'
  BY DEF GivenUpStill
<1>0. UNCHANGED <<active, mode, toController>> => (Still => Still')
  BY DEF Still, NoFrame
<1>1. CASE UNCHANGED vars \/ RequestStop
  <2>1. UNCHANGED <<active, mode, toController, session, step>>
    BY <1>1 DEF vars, client, controller, RequestStop
  <2> QED
    BY <1>0, <2>1 DEF GivenUpStill
<1>2. CASE ControllerNext /\ UNCHANGED client
  BY <1>2, StillController DEF GivenUpStill, client
<1>3. CASE ClientNext
  BY <1>0, <1>3, GivesUp DEF GivenUpStill
<1>4. CASE ActivateAgain \/ \E c \in Command : Submit(c)
  BY <1>4 DEF ActivateAgain, Submit, StartRequestAs, BeginRecovery, Write
<1> QED
  BY <1>1, <1>2, <1>3, <1>4 DEF Next

\* "Fail closed", for any number of faults: a session is given up with a movement going on
\* only where the reset hook failed, and the client is then uncertain.
THEOREM SessionsFailClosed == Spec => FailsClosed
<1> DEFINE closed == step' \in {"closed", "failed"} /\ active' # 0 =>
                       session' = "uncertain" /\ step \in {"recover_reset", "closed", "failed"}
<1>1. Init => GivenUpStill
  BY DEF Init, GivenUpStill
<1>2. ASSUME SessionInv, GivenUpStill, GivenUpStill', [Next]_vars
      PROVE  [closed]_vars
  <2> SUFFICES ASSUME step' \in {"closed", "failed"}, active' # 0
               PROVE  session' = "uncertain" /\ step \in {"recover_reset", "closed", "failed"}
    OBVIOUS
  <2>1. session' = "uncertain"
    BY <1>2 DEF GivenUpStill, Still
  <2>2. CASE step' = step
    BY <2>1, <2>2
  <2>3. CASE ClientNext
    BY <1>2, <2>1, <2>3, GivesUp DEF Still
  <2>4. CASE ActivateAgain \/ \E c \in Command : Submit(c)
    BY <2>4 DEF ActivateAgain, Submit, StartRequestAs, BeginRecovery, Write
  <2>5. UNCHANGED vars \/ RequestStop \/ (ControllerNext /\ UNCHANGED client) => step' = step
    BY DEF vars, client, RequestStop
  <2> QED
    BY <1>2, <2>1, <2>2, <2>3, <2>4, <2>5 DEF Next
<1>3. SessionInv /\ GivenUpStill /\ GivenUpStill' /\ [Next]_vars => [closed]_vars
  BY <1>2
<1> QED
  BY <1>1, <1>3, GivenUpStep, SessionInvariant, PTL DEF Spec, FailsClosed
=============================================================================
