------------------------- MODULE ProtocolInvariant -------------------------
(***************************************************************************)
(* The inductive invariant of ProtocolSession, and that the controller,    *)
(* the line's faults and the power supply preserve it.                     *)
(*                                                                         *)
(* The invariant says, for each step of the client, which lines can be on  *)
(* their way.  Its core is that a line which ends an exchange (a v1        *)
(* answer, a terminal, the exact stop) is followed by quiet lines only,    *)
(* and is not there while the client's own line still is: then no answer   *)
(* of an earlier exchange is left when the next one begins, which is why   *)
(* request IDs may start again at 1.                                       *)
(***************************************************************************)
EXTENDS ProtocolSession, TLAPS

\* Zenon proves most leaves; those that need arithmetic or sequences cite SMT.
USE Zenon

-----------------------------------------------------------------------------
(* Lines *)

\* Lines that answer nothing.
Event == [kind : {"event"}, sequence : 1..MaxSequence, crc : BOOLEAN]
Quiet == Event \cup {Noise, Plain("Ready")}

\* The v1 answers.
Spoken == {Plain(t) : t \in {PingAnswer, "ok", InvalidCommand, "error:busy",
                             Available, Activated, "stopped"}}

\* The correlated responses.
Response == [kind : {"response"}, id : 0..MaxId,
             body : {"accepted", "progress", "data", "done", "error"},
             value : BOOLEAN, crc : BOOLEAN, own : BOOLEAN]
\* Every line to the host.
HostLine == Quiet \cup Spoken \cup Response

\* The responses after which none follows.
Final == {r \in Response : r.body \in {"done", "error"}}

\* The responses that say a boundary was crossed.
Done == {r \in Response : r.body = "done"}

\* What the client sends: commands, as bare lines or in frames.
Sent == Query \cup Motion \cup Boundary \cup {"stop", "ping"}
Bare == {Legacy(t) : t \in {"ping", "protocol:2?", "protocol:2", "stop"}}
Framed == [kind : {"frame"}, id : 1..MaxId, command : Sent, crc : BOOLEAN, own : BOOLEAN]
ControllerLine == {Noise} \cup Bare \cup Framed

\* Every line of s is in S.
All(s, S) == \A i \in DOMAIN s : s[i] \in S

\* After a line in S only quiet ones follow.
Ends(s, S) == \A i, j \in DOMAIN s : i < j /\ s[i] \in S => s[j] \in Quiet

\* The line x is only ever the last one.
OnlyLast(s, x) == \A i \in DOMAIN s : s[i] = x => i = Len(s)

\* The answers to a ping and to the bare stop.
Pong == {Plain(PingAnswer)}
Stopped == {Plain("stopped")}

-----------------------------------------------------------------------------
(* The inductive invariant *)

\* The movement that is scheduled, if any.
Job == [command : Motion, stage : {"first", "last", "failing"}, own : BOOLEAN] \cup {NoJob}

\* The controller: a request ID is active exactly while its movement is scheduled.
ControllerTypes ==
    /\ mode \in {"v1", "v2"} /\ crc \in BOOLEAN /\ active \in 0..MaxId /\ job \in Job
    /\ active = 0 <=> job = NoJob
    /\ feedHomed \in BOOLEAN /\ sortHomed \in BOOLEAN /\ sequence \in 0..MaxSequence

\* The controller and the line.
LineTypes ==
    /\ ControllerTypes
    /\ toController \in Seq(ControllerLine) /\ toHost \in Seq(HostLine)
    /\ faults \in Nat

\* The client: a request is outstanding exactly in step "request".
ClientTypes ==
    /\ session \in {"v1", "v2", "uncertain"} /\ protected \in BOOLEAN
    /\ step \in Step /\ call \in Call
    /\ step \in {"idle", "closed", "failed"} <=> call = "none"
    /\ step \in {"ready", "barrier", "discover", "activate"} => call \in {"connect", "reactivate"}
    /\ step = "stop" => call = "stop"
    /\ step = "request" => request \in [id : 1..MaxId, command : Sent]
    /\ step # "request" => request = NoRequest
    /\ nextId \in 1..MaxId /\ todo \in Seq(Query)
    /\ events \in [last : 0..MaxSequence, resync : BOOLEAN]

\* A fresh v1 session.
Fresh == mode = "v1" /\ ~crc /\ active = 0

\* One line was written: it is on its way and nothing has come back, or it is off
\* the line.
Exchange(line) ==
    \/ toController \in {<<line>>, <<Noise>>} /\ All(toHost, Quiet) /\ active = 0
    \/ toController = <<>>

\* The client knows the controller's parser, but for a controller that restarted
\* by itself and is back in v1.
Lapsed == restarted /\ mode = "v1" /\ ~crc
Agree == Lapsed \/ (session = mode /\ protected = crc)

\* wait_ready: the startup marker is all that is on the line.
Greeting == step = "ready" => Fresh /\ toController = <<>> /\ All(toHost, Quiet)

\* The v1 exchanges: one question, and after its answer only quiet lines.
Asking ==
    /\ step = "barrier" => Fresh /\ Exchange(Legacy("ping"))
    /\ step = "discover" => Fresh /\ Exchange(Legacy("protocol:2?"))
    /\ step = "activate" =>
         /\ active = 0 /\ ~crc /\ Exchange(Legacy("protocol:2"))
         /\ toController # <<>> => mode = "v1"
         /\ restarted \/ mode = "v2" \/ All(toHost, HostLine \ {Plain(Activated)})
    /\ step \in {"barrier", "discover", "activate"} =>
         All(toHost, Quiet \cup (Spoken \ Stopped)) /\ Ends(toHost, Spoken)

\* What a boundary command leaves behind at the controller.
Crossed(command, newMode, newCrc) ==
    /\ newMode = IF command = "protocol:1" THEN "v1" ELSE "v2"
    /\ newCrc = (command = "crc:on")

\* What a request may meet: of the responses with its ID, only its own.
Meets(id) == Quiet \cup (Spoken \ (Stopped \cup Pong)) \cup {r \in Response : r.own \/ r.id # id}

\* A correlated request: whatever could be taken for its terminal is its own answer, and
\* is sent once the controller is done with it.
Requesting ==
    step = "request" =>
        /\ session = "v2"
        /\ Exchange(Frame(request.id, request.command, protected))
        /\ All(toHost, Meets(request.id))
        /\ Ends(toHost, Spoken \cup Final)
        /\ (active = 0 /\ toController = <<>>) \/ All(toHost, HostLine \ (Spoken \cup Final))
        /\ active # 0 => job.own /\ request.command \notin Boundary
        /\ request.command \notin Boundary \/ toController # <<>> => Agree
        /\ request.command \in Boundary =>
             \/ Lapsed \/ Crossed(request.command, mode, crc)
             \/ All(toHost, HostLine \ Done)

\* Between calls the line is quiet and the two ends agree.
Idle ==
    step = "idle" =>
        /\ active = 0 /\ toController = <<>> /\ All(toHost, Quiet)
        /\ session # "uncertain" /\ (session = "v1" => ~protected) /\ Agree

\* The stop is the last line.
StopLast == OnlyLast(toController, Legacy("stop"))

\* out_of_band_stop: the exact terminal is sent when the stop, the last line, is handled.
Halting ==
    step = "stop" =>
        /\ All(toController, {Noise, Legacy("stop")} \cup {f \in Framed : f.command \in Motion})
        /\ StopLast
        /\ (active = 0 /\ toController = <<>>) \/ All(toHost, HostLine \ Stopped)
        /\ All(toHost, HostLine \ Pong)
        /\ Ends(toHost, Stopped)
        /\ session # "uncertain" /\ (session = "v1" => ~protected) /\ Agree

\* Nothing on the line activates v2; nothing on the line is a frame.
NoActivation(s) == All(s, ControllerLine \ {Legacy("protocol:2")})
NoFrame == All(toController, ControllerLine \ Framed)

\* An activation on the line is the first line, and nothing was answered before it.
Activation ==
    /\ toController # <<>> /\ NoActivation(Tail(toController))
    /\ NoFrame /\ All(toHost, HostLine \ Pong)

\* recover_to_v1: the controller is in v1 after the reset, unless an activation overtook
\* the ping, and then no ping is answered.
Recovering ==
    /\ step \in {"recover_stop", "recover_reset"} => NoActivation(toController) \/ Activation
    /\ step \in {"recover_ready", "recover_ping"} =>
         /\ ~crc /\ active = 0
         /\ \/ mode = "v1" /\ NoActivation(toController)
            \/ mode = "v1" /\ Activation
            \/ mode = "v2" /\ NoActivation(toController) /\ NoFrame /\ All(toHost, HostLine \ Pong)
    /\ step \in {"recover_stop", "recover_reset", "recover_ready"} /\ call \in {"command", "profile"} =>
         All(toController, ControllerLine \ {Legacy("ping")}) /\ All(toHost, HostLine \ Pong)
    /\ step = "recover_ping" /\ call \in {"command", "profile"} =>
         /\ OnlyLast(toController, Legacy("ping"))
         /\ toController = <<>> \/ All(toHost, HostLine \ Pong)
         /\ Ends(toHost, Pong)

\* The inductive invariant.
SessionInv ==
    LineTypes /\ ClientTypes /\ Greeting /\ Asking /\ Requesting /\ Idle /\ Halting /\ Recovering

-----------------------------------------------------------------------------
(* A session that was given up *)

\* Nothing moves and nothing on the line can start a movement.
Still == active = 0 /\ (NoFrame \/ (mode = "v1" /\ NoActivation(toController)))

\* A client that was given up and does not say it is uncertain left the controller still.
GivenUpStill == step \in {"closed", "failed"} => session = "uncertain" \/ Still

-----------------------------------------------------------------------------
(* Sequences of lines *)

\* Of no lines anything holds.
LEMMA AllEmpty == ASSUME NEW S PROVE All(<<>>, S) /\ Ends(<<>>, S)
BY SMT DEF All, Ends

\* What holds of every line holds of the next one and of the rest.
LEMMA AllTail ==
  ASSUME NEW T, NEW S, NEW s \in Seq(T), s # <<>>, All(s, S)
  PROVE  Head(s) \in S /\ All(Tail(s), S)
<1>1. /\ Len(s) \in Nat /\ Len(s) # 0 /\ DOMAIN s = 1..Len(s)
      /\ Head(s) = s[1] /\ DOMAIN Tail(s) = 1..(Len(s) - 1)
      /\ \A i \in 1..(Len(s) - 1) : Tail(s)[i] = s[i + 1]
  BY SMT
<1> QED
  BY <1>1, SMT DEF All

\* What holds of every line of two parts holds of the whole.
LEMMA AllConcat ==
  ASSUME NEW T, NEW S, NEW s \in Seq(T), NEW t \in Seq(T), All(s, S), All(t, S)
  PROVE  All(s \o t, S)
<1> DEFINE u == s \o t
<1>1. /\ Len(s) \in Nat /\ Len(t) \in Nat /\ DOMAIN s = 1..Len(s) /\ DOMAIN t = 1..Len(t)
      /\ DOMAIN u = 1..(Len(s) + Len(t))
      /\ \A i \in 1..(Len(s) + Len(t)) : u[i] = IF i <= Len(s) THEN s[i] ELSE t[i - Len(s)]
  BY SMT
<1> HIDE DEF u
<1>2. ASSUME NEW i \in 1..(Len(s) + Len(t)) PROVE u[i] \in S
  <2>1. CASE i <= Len(s)
    BY <1>1, <2>1, SMT DEF All
  <2>2. CASE i > Len(s)
    <3>1. i - Len(s) \in 1..Len(t) /\ u[i] = t[i - Len(s)]
      BY <1>1, <2>2, SMT
    <3> QED
      BY <1>1, <3>1 DEF All
  <2> QED
    BY <1>1, <2>1, <2>2, SMT
<1>3. All(u, S)
  BY <1>1, <1>2 DEF All
<1> QED
  BY <1>3 DEF u

\* The same with one line more.
LEMMA AllAppend ==
  ASSUME NEW T, NEW S, NEW s \in Seq(T), NEW x \in T, All(s, S), x \in S
  PROVE  All(Append(s, x), S)
<1> DEFINE u == Append(s, x)
<1>1. /\ Len(s) \in Nat /\ DOMAIN s = 1..Len(s) /\ DOMAIN u = 1..(Len(s) + 1)
      /\ u[Len(s) + 1] = x /\ \A i \in 1..Len(s) : u[i] = s[i]
  BY SMT
<1> HIDE DEF u
<1>2. \A i \in 1..(Len(s) + 1) : i \in 1..Len(s) \/ i = Len(s) + 1
  BY <1>1, SMT
<1>3. All(u, S)
  BY <1>1, <1>2 DEF All
<1> QED
  BY <1>3 DEF u

\* Behind a line of S only quiet ones are left.
LEMMA EndsTail ==
  ASSUME NEW T, NEW S, NEW s \in Seq(T), s # <<>>, Ends(s, S)
  PROVE  Ends(Tail(s), S) /\ (Head(s) \in S => All(Tail(s), Quiet))
<1>1. /\ Len(s) \in Nat /\ Len(s) # 0 /\ DOMAIN s = 1..Len(s)
      /\ Head(s) = s[1] /\ DOMAIN Tail(s) = 1..(Len(s) - 1)
      /\ \A i \in 1..(Len(s) - 1) : Tail(s)[i] = s[i + 1]
  BY SMT
<1>2. \A i \in 1..(Len(s) - 1) : i + 1 \in 1..Len(s) /\ 1 \in 1..Len(s) /\ 1 < i + 1
  BY <1>1, SMT
<1>3. \A i, j \in 1..(Len(s) - 1) : i < j => i + 1 < j + 1
  BY SMT
<1> QED
  BY <1>1, <1>2, <1>3 DEF All, Ends

\* Quiet lines may follow.
LEMMA EndsMore ==
  ASSUME NEW T, NEW S, NEW s \in Seq(T), NEW t \in Seq(T), Ends(s, S),
         (All(t, Quiet) /\ Ends(t, S)) \/ (All(s, T \ S) /\ Ends(t, S))
  PROVE  Ends(s \o t, S)
<1> DEFINE u == s \o t
<1>1. /\ Len(s) \in Nat /\ Len(t) \in Nat /\ DOMAIN s = 1..Len(s) /\ DOMAIN t = 1..Len(t)
      /\ DOMAIN u = 1..(Len(s) + Len(t))
      /\ \A i \in 1..(Len(s) + Len(t)) : u[i] = IF i <= Len(s) THEN s[i] ELSE t[i - Len(s)]
  BY SMT
<1> HIDE DEF u
<1>2. ASSUME NEW i \in DOMAIN u, NEW j \in DOMAIN u, i < j, u[i] \in S PROVE u[j] \in Quiet
  <2>1. CASE j <= Len(s)
    BY <1>1, <1>2, <2>1, SMT DEF Ends
  <2>2. CASE j > Len(s)
    <3>1. j - Len(s) \in 1..Len(t) /\ u[j] = t[j - Len(s)]
      BY <1>1, <2>2, SMT
    <3>2. CASE i <= Len(s)
      <4>1. u[i] = s[i] /\ i \in 1..Len(s)
        BY <1>1, <3>2, SMT
      <4>2. CASE All(t, Quiet)
        BY <1>1, <3>1, <4>2 DEF All
      <4>3. CASE All(s, T \ S)
        BY <1>1, <1>2, <4>1, <4>3 DEF All
      <4> QED
        BY <4>2, <4>3
    <3>3. CASE i > Len(s)
      <4>1. i - Len(s) \in 1..Len(t) /\ u[i] = t[i - Len(s)] /\ i - Len(s) < j - Len(s)
        BY <1>1, <1>2, <3>3, SMT
      <4> QED
        BY <1>1, <1>2, <3>1, <4>1 DEF Ends
    <3> QED
      BY <1>1, <3>2, <3>3, SMT
  <2> QED
    BY <1>1, <2>1, <2>2, SMT
<1>3. Ends(u, S)
  BY <1>2 DEF Ends
<1> QED
  BY <1>3 DEF u

\* The last line is still the last one of the rest.
LEMMA OnlyLastTail ==
  ASSUME NEW T, NEW x, NEW s \in Seq(T), s # <<>>, OnlyLast(s, x)
  PROVE  OnlyLast(Tail(s), x) /\ (Head(s) = x => Tail(s) = <<>>)
<1>1. /\ Len(s) \in Nat /\ Len(s) # 0 /\ DOMAIN s = 1..Len(s)
      /\ Head(s) = s[1] /\ DOMAIN Tail(s) = 1..(Len(s) - 1) /\ Len(Tail(s)) = Len(s) - 1
      /\ Tail(s) \in Seq(T)
      /\ \A i \in 1..(Len(s) - 1) : Tail(s)[i] = s[i + 1]
  BY SMT
<1>a. \A n \in Nat : \A i \in 1..(n - 1) : i + 1 \in 1..n /\ (i + 1 = n => i = n - 1)
  BY SMT
<1>2. \A i \in 1..(Len(s) - 1) : i + 1 \in 1..Len(s) /\ (i + 1 = Len(s) => i = Len(s) - 1)
  BY <1>1, <1>a
<1>3. 1 \in 1..Len(s) /\ (Len(s) = 1 => Tail(s) = <<>>)
  BY <1>1, SMT
<1> QED
  BY <1>1, <1>2, <1>3 DEF OnlyLast

\* A line that is not there yet is the last one when it is appended.
LEMMA OnlyLastAppend ==
  ASSUME NEW T, NEW x, NEW y \in T, NEW s \in Seq(T), All(s, T \ {x})
  PROVE  OnlyLast(Append(s, y), x)
<1> DEFINE u == Append(s, y)
<1>1. /\ Len(s) \in Nat /\ DOMAIN s = 1..Len(s) /\ DOMAIN u = 1..(Len(s) + 1)
      /\ Len(u) = Len(s) + 1
      /\ u[Len(s) + 1] = y /\ \A i \in 1..Len(s) : u[i] = s[i]
  BY SMT
<1> HIDE DEF u
<1>2. \A i \in 1..(Len(s) + 1) : i \in 1..Len(s) \/ i = Len(s) + 1
  BY <1>1, SMT
<1>3. OnlyLast(u, x)
  BY <1>1, <1>2 DEF All, OnlyLast
<1> QED
  BY <1>3 DEF u

\* The first line is lost or garbled.
LEMMA FaultedLine ==
  ASSUME NEW T, Noise \in T, NEW s \in Seq(T), s # <<>>,
         NEW t, t = Tail(s) \/ t = <<Noise>> \o Tail(s)
  PROVE  /\ t \in Seq(T)
         /\ \A S : Noise \in S /\ All(s, S) => All(t, S)
         /\ \A S : Noise \notin S /\ Ends(s, S) => Ends(t, S)
         /\ \A x : x # Noise /\ OnlyLast(s, x) => OnlyLast(t, x)
<1>0. Tail(s) \in Seq(T) /\ <<Noise>> \in Seq(T)
  BY SMT
<1>a. <<Noise>> \o Tail(s) \in Seq(T)
  BY <1>0, SMT
<1>1. t \in Seq(T)
  BY <1>0, <1>a
<1>2. ASSUME NEW S, Noise \in S, All(s, S) PROVE All(t, S)
  <2>1. All(<<Noise>>, S)
    BY <1>2, SMT DEF All
  <2>2. All(Tail(s), S)
    BY <1>2, AllTail
  <2>3. All(<<Noise>> \o Tail(s), S)
    BY <1>0, <2>1, <2>2, AllConcat
  <2> QED
    BY <2>2, <2>3
<1>3. ASSUME NEW S, Noise \notin S, Ends(s, S) PROVE Ends(t, S)
  <2>1. All(<<Noise>>, T \ S) /\ Ends(<<Noise>>, S)
    BY <1>3, SMT DEF All, Ends
  <2>2. Ends(Tail(s), S)
    BY <1>3, EndsTail
  <2>3. Ends(<<Noise>> \o Tail(s), S)
    BY <1>0, <2>1, <2>2, EndsMore
  <2> QED
    BY <2>2, <2>3
<1>4. ASSUME NEW x, x # Noise, OnlyLast(s, x) PROVE OnlyLast(t, x)
  <2>1. OnlyLast(Tail(s), x)
    BY <1>4, OnlyLastTail
  <2> DEFINE u == <<Noise>> \o Tail(s)
  <2>2. /\ Len(s) \in Nat /\ Len(s) # 0 /\ Len(Tail(s)) = Len(s) - 1
        /\ DOMAIN Tail(s) = 1..(Len(s) - 1) /\ DOMAIN u = 1..Len(s) /\ Len(u) = Len(s)
        /\ u[1] = Noise /\ \A i \in 2..Len(s) : u[i] = Tail(s)[i - 1]
    BY SMT
  <2> HIDE DEF u
  <2>3. \A i \in 1..Len(s) : i = 1 \/ (i \in 2..Len(s) /\ i - 1 \in 1..(Len(s) - 1))
    BY <2>2, SMT
  <2>a. \A n \in Nat : \A i \in 2..n : i - 1 = n - 1 => i = n
    BY SMT
  <2>4. \A i \in 2..Len(s) : i - 1 = Len(s) - 1 => i = Len(s)
    BY <2>2, <2>a
  <2>5. OnlyLast(u, x)
    BY <1>4, <2>1, <2>2, <2>3, <2>4, ZenonT(30) DEF OnlyLast
  <2> QED
    BY <2>1, <2>5 DEF u
<1> QED
  BY <1>1, <1>2, <1>3, <1>4

-----------------------------------------------------------------------------
(* Lines *)

\* Every sort of line is told by its kind.
LEMMA Kinds ==
  /\ \A l \in Event : l.kind = "event" /\ l.sequence \in 1..MaxSequence
  /\ \A l \in Spoken : l.kind = "plain"
  /\ \A l \in Response : l.kind = "response"
  /\ \A l \in Bare : l.kind = "legacy"
  /\ \A l \in Framed : l.kind = "frame"
  /\ Noise.kind = "noise" /\ Plain("Ready").kind = "plain"
<1>1. \A l \in Event : l.kind = "event" /\ l.sequence \in 1..MaxSequence
  BY DEF Event
<1>p. \A a : Plain(a).kind = "plain"
  BY DEF Plain
<1>2. \A l \in Spoken : l.kind = "plain"
  BY <1>p DEF Spoken
<1>3. \A l \in Response : l.kind = "response"
  BY DEF Response
<1>4. \A l \in Bare : l.kind = "legacy"
  BY SMT DEF Bare, Legacy
<1>5. \A l \in Framed : l.kind = "frame"
  BY DEF Framed
<1> QED
  BY <1>1, <1>2, <1>3, <1>4, <1>5 DEF Noise, Plain

\* The exact v1 texts differ.
LEMMA Texts ==
  /\ PingAnswer \notin {"ok", InvalidCommand, "error:busy", Available, Activated, "stopped", "Ready"}
  /\ Activated \notin {"ok", InvalidCommand, "error:busy", Available, "stopped", "Ready"}
  /\ Available \notin {"ok", InvalidCommand, "error:busy", "stopped", "Ready"}
  /\ InvalidCommand \notin {"ok", "error:busy", "stopped", "Ready"}
BY DEF PingAnswer, Activated, Available, InvalidCommand

\* Plain lines differ as their texts do.
LEMMA PlainIs == \A a, b : Plain(a) = Plain(b) => a = b
<1>1. \A a : Plain(a).text = a
  BY DEF Plain
<1> QED
  BY <1>1, SMT

\* Bare commands differ as their texts do.
LEMMA LegacyIs ==
  /\ \A a, b : Legacy(a) = Legacy(b) => a = b
  /\ \A a : Legacy(a).kind = "legacy" /\ Legacy(a).text = a
<1>1. \A a : Legacy(a).kind = "legacy" /\ Legacy(a).text = a
  BY DEF Legacy
<1> QED
  BY <1>1, SMT

\* The sorts of lines are disjoint.
LEMMA LinesApart ==
  /\ \A l \in Quiet : l \notin Spoken /\ l \notin Response
  /\ \A l \in Spoken : l \notin Response
  /\ Noise \notin Bare /\ Noise \notin Framed /\ \A l \in Bare : l \notin Framed
  /\ Noise \notin Spoken /\ Noise \notin Response /\ Noise \in Quiet
<1>1. Plain("Ready") \notin Spoken
  BY PlainIs, Texts DEF Spoken
<1> QED
  BY <1>1, Kinds DEF Quiet

\* One line.
LEMMA List1 ==
  ASSUME NEW T, NEW a \in T
  PROVE  /\ <<a>> \in Seq(T)
         /\ \A S : a \in S => All(<<a>>, S)
         /\ \A S : Ends(<<a>>, S)
BY SMT DEF All, Ends

\* Two lines.
LEMMA List2 ==
  ASSUME NEW T, NEW a \in T, NEW b \in T
  PROVE  /\ <<a, b>> \in Seq(T)
         /\ \A S : a \in S /\ b \in S => All(<<a, b>>, S)
         /\ \A S : (a \in S => b \in Quiet) => Ends(<<a, b>>, S)
BY SMT DEF All, Ends

\* Three lines.
LEMMA List3 ==
  ASSUME NEW T, NEW a \in T, NEW b \in T, NEW c \in T
  PROVE  /\ <<a, b, c>> \in Seq(T)
         /\ \A S : a \in S /\ b \in S /\ c \in S => All(<<a, b, c>>, S)
         /\ \A S : (a \in S => b \in Quiet /\ c \in Quiet) /\ (b \in S => c \in Quiet)
              => Ends(<<a, b, c>>, S)
BY SMT DEF All, Ends

\* The counters start in their ranges.
LEMMA Zero == 0 \in 0..MaxId /\ 0 \in 0..MaxSequence /\ 1 \in 1..MaxId
BY ControllerAssumption, SMT

\* An event is a quiet line, with a sequence number in range.
LEMMA NoticeIs ==
  ASSUME crc \in BOOLEAN, NEW n \in 0..MaxSequence
  PROVE  /\ NextSequence(n) \in 1..MaxSequence /\ NextSequence(n) \in 0..MaxSequence
         /\ Notice(NextSequence(n)) \in Quiet /\ Notice(NextSequence(n)) \in HostLine
<1>1. NextSequence(n) \in 1..MaxSequence
  BY ControllerAssumption, SMT DEF NextSequence
<1>2. NextSequence(n) \in 0..MaxSequence
  BY <1>1, SMT
<1>3. Notice(NextSequence(n)) \in Event
  BY <1>1 DEF Notice, Event
<1> QED
  BY <1>1, <1>2, <1>3 DEF Quiet, HostLine

\* A scheduled movement is a proper record.
LEMMA JobIs ==
  /\ NoJob \in Job /\ NoJob.stage = "none" /\ ~NoJob.own
  /\ \A j \in Job : j.own \in BOOLEAN
  /\ \A j \in Job : j # NoJob => j \in [command : Motion, stage : {"first", "last", "failing"}, own : BOOLEAN]
<1>1. NoJob.stage = "none" /\ NoJob.own = FALSE
  BY DEF NoJob
<1>2. ASSUME NEW j \in [command : Motion, stage : {"first", "last", "failing"}, own : BOOLEAN]
      PROVE  j.own \in BOOLEAN
  OBVIOUS
<1> QED
  BY <1>1, <1>2 DEF Job

-----------------------------------------------------------------------------
(* What the controller answers *)

\* What handling a request of the host emits.
Answered(f) ==
    /\ ControllerTypes'
    /\ f.command \notin Boundary => mode' = mode /\ crc' = crc
    /\ f.command \notin Motion => active' = 0 \/ active' = active
    /\ \E out \in Seq(HostLine) :
         /\ toHost' = toHost \o out
         /\ All(out, Quiet \cup Response)
         /\ f.own /\ active = 0 =>
              /\ All(out, Quiet \cup {r \in Response : r.own \/ r.id # f.id})
              /\ Ends(out, Spoken \cup Final)
              /\ active' = 0 \/ (job'.own /\ All(out, HostLine \ (Spoken \cup Final)))
              /\ f.command \in Boundary =>
                   Crossed(f.command, mode', crc') \/ All(out, HostLine \ Done)

\* A request as the controller sees it, framed or bare.
IsRequest(f) ==
    /\ f.id \in 0..MaxId /\ f.own \in BOOLEAN
    /\ f.command \in Motion => f.id # 0

\* _respond: a terminal that changes nothing.
LEMMA RespondIs ==
  ASSUME LineTypes, NEW f, IsRequest(f), NEW body \in {"done", "error"},
         body = "done" => f.command \notin Boundary, Respond(f, body)
  PROVE  Answered(f)
<1> DEFINE r == Reply(f.id, body, FALSE, f.own)
<1>a. /\ crc \in BOOLEAN /\ f.id \in 0..MaxId /\ f.own \in BOOLEAN
      /\ body \in {"accepted", "progress", "data", "done", "error"}
  BY DEF LineTypes, ControllerTypes, IsRequest
<1>b. r \in Response
  BY <1>a DEF Reply, Response
<1>0. r \in Response /\ r \in HostLine /\ r.own = f.own /\ r.body = body
  BY <1>a, <1>b DEF Reply, HostLine
<1>1. toHost' = toHost \o <<r>> /\ UNCHANGED <<mode, crc, active, job, feedHomed, sortHomed, sequence>>
  BY DEF Respond, Emit, controller, axes
<1> HIDE DEF r
<1>2. /\ <<r>> \in Seq(HostLine) /\ All(<<r>>, Quiet \cup Response) /\ Ends(<<r>>, Spoken \cup Final)
      /\ f.own => All(<<r>>, Quiet \cup {x \in Response : x.own \/ x.id # f.id})
      /\ f.command \in Boundary => All(<<r>>, HostLine \ Done)
  BY <1>0, List1 DEF Done
<1>3. ControllerTypes'
  BY <1>1 DEF LineTypes, ControllerTypes
<1> QED
  BY <1>1, <1>2, <1>3 DEF Answered

\* _emit_event: a rejected line costs an event.
LEMMA RejectIs ==
  ASSUME LineTypes, NEW f, Reject
  PROVE  /\ Answered(f) /\ UNCHANGED <<mode, crc, active, job>>
         /\ \E n \in Quiet : n \in HostLine /\ toHost' = toHost \o <<n>>
<1> DEFINE n == Notice(NextSequence(sequence))
<1>0. n \in Quiet /\ n \in HostLine /\ NextSequence(sequence) \in 0..MaxSequence
  BY NoticeIs DEF LineTypes, ControllerTypes
<1>1. toHost' = toHost \o <<n>> /\ sequence' = NextSequence(sequence)
      /\ UNCHANGED <<mode, crc, active, job, feedHomed, sortHomed>>
  BY DEF Reject, Emit, axes
<1> HIDE DEF n
<1>2. /\ <<n>> \in Seq(HostLine) /\ Ends(<<n>>, Spoken \cup Final)
      /\ \A S : n \in S => All(<<n>>, S)
  BY <1>0, List1
<1>3. n \in HostLine \ Done /\ n \in Quiet \cup Response
      /\ n \in Quiet \cup {x \in Response : x.own \/ x.id # f.id}
  BY <1>0, LinesApart DEF Done
<1>4. ControllerTypes'
  BY <1>0, <1>1 DEF LineTypes, ControllerTypes
<1>5. /\ All(<<n>>, HostLine \ Done) /\ All(<<n>>, Quiet \cup Response)
      /\ All(<<n>>, Quiet \cup {x \in Response : x.own \/ x.id # f.id})
  BY <1>2, <1>3
<1> QED
  BY <1>0, <1>1, <1>2, <1>4, <1>5 DEF Answered
\* _handle_correlated_stop ends the movement, whose error comes before the terminal.
LEMMA CorrelatedStopIs ==
  ASSUME LineTypes, NEW f, IsRequest(f), f.command = "stop", CorrelatedStop(f)
  PROVE  Answered(f)
<1> DEFINE r == Reply(f.id, "done", FALSE, f.own)
           n == Notice(NextSequence(sequence))
           c == Reply(active, "error", FALSE, job.own)
<1>a. /\ crc \in BOOLEAN /\ f.id \in 0..MaxId /\ f.own \in BOOLEAN /\ active \in 0..MaxId
      /\ job.own \in BOOLEAN /\ f.command \notin Boundary \cup Motion
  BY JobIs DEF LineTypes, ControllerTypes, IsRequest, Boundary, Motion, Home
<1>b. r \in Response /\ c \in Response
  BY <1>a DEF Reply, Response
<1>0. r \in HostLine /\ r.own = f.own /\ c \in HostLine
  BY <1>a, <1>b DEF Reply, HostLine
<1>1. n \in Quiet /\ n \in HostLine /\ NextSequence(sequence) \in 0..MaxSequence
  BY NoticeIs DEF LineTypes, ControllerTypes
<1>2. /\ toHost' = toHost \o ((IF active = 0 THEN <<>> ELSE <<c>>) \o <<n, r>>)
      /\ active' = 0 /\ job' = NoJob /\ feedHomed' = FALSE /\ sortHomed' = FALSE
      /\ sequence' = NextSequence(sequence) /\ UNCHANGED <<mode, crc>>
  BY DEF CorrelatedStop, Halt, Emit
<1> HIDE DEF r, n, c
<1>c. /\ mode' \in {"v1", "v2"} /\ crc' \in BOOLEAN /\ feedHomed' \in BOOLEAN
      /\ sortHomed' \in BOOLEAN
  BY <1>2 DEF LineTypes, ControllerTypes
<1>d. active' \in 0..MaxId /\ sequence' \in 0..MaxSequence
  BY <1>1, <1>2, ControllerAssumption, SMT
<1>e. job' \in Job
  BY <1>2, JobIs
<1>3. ControllerTypes'
  BY <1>2, <1>c, <1>d, <1>e DEF ControllerTypes
<1>4. /\ <<n, r>> \in Seq(HostLine) /\ All(<<n, r>>, Quiet \cup Response)
      /\ f.own => All(<<n, r>>, Quiet \cup {x \in Response : x.own \/ x.id # f.id})
      /\ Ends(<<n, r>>, Spoken \cup Final)
  <2>1. n \notin Spoken \cup Final
    BY <1>1, LinesApart DEF Final
  <2> QED
    BY <1>0, <1>1, <1>b, <2>1, List2, SMT
<1>5. CASE active = 0
  <2>1. toHost' = toHost \o <<n, r>>
    BY <1>2, <1>4, <1>5, SMT
  <2> QED
    BY <1>2, <1>3, <1>4, <1>a, <2>1 DEF Answered
<1>6. CASE active # 0
  <2> DEFINE out == <<c>> \o <<n, r>>
  <2>1. toHost' = toHost \o out
    BY <1>2, <1>6
  <2>2. <<c>> \in Seq(HostLine) /\ All(<<c>>, Quiet \cup Response)
    BY <1>0, <1>b, List1
  <2>3. out \in Seq(HostLine)
    BY <1>4, <2>2, SMT
  <2>4. All(out, Quiet \cup Response)
    BY <1>4, <2>2, AllConcat
  <2> HIDE DEF out
  <2> QED
    BY <1>2, <1>3, <1>6, <1>a, <2>1, <2>3, <2>4 DEF Answered
<1> QED
  BY <1>5, <1>6

\* _respond_data: the data, then the terminal.
LEMMA AnswerQueryIs ==
  ASSUME LineTypes, NEW f, IsRequest(f), f.command \in Query, AnswerQuery(f)
  PROVE  Answered(f)
<1> DEFINE d == Reply(f.id, "data", f.command = "status" /\ sortHomed, f.own)
           r == Reply(f.id, "done", FALSE, f.own)
<1>a. /\ crc \in BOOLEAN /\ f.id \in 0..MaxId /\ f.own \in BOOLEAN /\ sortHomed \in BOOLEAN
      /\ f.command \notin Boundary \cup Motion
  BY DEF LineTypes, ControllerTypes, IsRequest, Query, Boundary, Motion, Home
<1>b. r \in Response /\ d \in Response
  BY <1>a DEF Reply, Response
<1>0. r \in HostLine /\ r.own = f.own /\ d \in HostLine /\ d.own = f.own /\ d.body = "data"
  BY <1>a, <1>b DEF Reply, HostLine
<1>2. /\ toHost' = toHost \o <<d, r>>
      /\ UNCHANGED <<mode, crc, active, job, feedHomed, sortHomed, sequence>>
  BY DEF AnswerQuery, Emit, controller, axes
<1> HIDE DEF r, d
<1>3. ControllerTypes'
  BY <1>2 DEF LineTypes, ControllerTypes
<1>4. d \notin Spoken \cup Final
  BY <1>0, <1>b, LinesApart DEF Final
<1>5. /\ <<d, r>> \in Seq(HostLine) /\ All(<<d, r>>, Quiet \cup Response)
      /\ f.own => All(<<d, r>>, Quiet \cup {x \in Response : x.own \/ x.id # f.id})
      /\ Ends(<<d, r>>, Spoken \cup Final)
  BY <1>0, <1>b, <1>4, List2, SMT
<1> QED
  BY <1>2, <1>3, <1>5, <1>a DEF Answered

\* _enable_crc, _disable_crc and protocol:1 say done exactly when they cross the boundary.
LEMMA BoundaryIs ==
  ASSUME LineTypes, NEW f, IsRequest(f), mode = "v2",
         \/ f.command = "crc:on" /\ EnableCrc(f)
         \/ f.command = "crc:off" /\ DisableCrc(f)
         \/ f.command = "protocol:1" /\ LeaveV2(f)
  PROVE  Answered(f)
<1> DEFINE r == Reply(f.id, "done", FALSE, f.own)
           p == [Reply(f.id, "done", FALSE, f.own) EXCEPT !.crc = TRUE]
<1>a. /\ crc \in BOOLEAN /\ f.id \in 0..MaxId /\ f.own \in BOOLEAN
      /\ f.command \in Boundary /\ f.command \notin Motion
  BY DEF LineTypes, ControllerTypes, IsRequest, Boundary, Motion, Home
<1>b. r \in Response /\ p \in Response
  BY <1>a DEF Reply, Response
<1>0. r \in HostLine /\ r.own = f.own /\ p \in HostLine /\ p.own = f.own
  BY <1>a, <1>b DEF Reply, HostLine
<1>1. CASE EnableCrc(f) /\ ~CrcAvailable
  BY <1>1, RespondIs DEF EnableCrc
<1>2. ASSUME NEW x \in {r, p}, toHost' = toHost \o <<x>>, Crossed(f.command, mode', crc'),
             crc' \in BOOLEAN, mode' \in {"v1", "v2"},
             UNCHANGED <<active, job, feedHomed, sortHomed>>, sequence' \in {0, sequence}
      PROVE  Answered(f)
  <2>0. x \in Response /\ x \in HostLine /\ x.own = f.own
    BY <1>0, <1>b
  <2> HIDE DEF r, p
  <2>1. ControllerTypes'
    BY <1>2, ControllerAssumption, SMT DEF LineTypes, ControllerTypes
  <2>2. /\ <<x>> \in Seq(HostLine) /\ All(<<x>>, Quiet \cup Response)
        /\ f.own => All(<<x>>, Quiet \cup {y \in Response : y.own \/ y.id # f.id})
        /\ Ends(<<x>>, Spoken \cup Final)
    BY <2>0, List1
  <2> QED
    BY <1>2, <1>a, <2>1, <2>2 DEF Answered
<1>3. CASE f.command = "crc:on" /\ EnableCrc(f) /\ CrcAvailable
  BY <1>2, <1>3 DEF EnableCrc, Emit, Crossed, axes
<1>4. CASE f.command = "crc:off" /\ DisableCrc(f)
  BY <1>2, <1>4 DEF DisableCrc, Emit, Crossed, axes
<1>5. CASE f.command = "protocol:1" /\ LeaveV2(f)
  BY <1>2, <1>5 DEF LeaveV2, Emit, Crossed, axes
<1> QED
  BY <1>1, <1>3, <1>4, <1>5
\* _start_operation: the movement belongs to the request, and no terminal is sent yet.
LEMMA StartOperationIs ==
  ASSUME LineTypes, NEW f, IsRequest(f), f.command \in Motion, active = 0,
         NEW stage \in {"first", "last", "failing"}, StartOperation(f, stage)
  PROVE  Answered(f)
<1> DEFINE a == Reply(f.id, "accepted", FALSE, f.own)
           n == Notice(NextSequence(sequence))
           p == Reply(f.id, "progress", FALSE, f.own)
           rest == IF stage = "first" THEN <<p>> ELSE <<>>
           out == <<a, n>> \o rest
<1>a. /\ crc \in BOOLEAN /\ f.id \in 0..MaxId /\ f.own \in BOOLEAN /\ f.id # 0
      /\ f.command \notin Boundary
  BY DEF LineTypes, ControllerTypes, IsRequest, Boundary, Motion, Home
<1>b. a \in Response /\ p \in Response
  BY <1>a DEF Reply, Response
<1>0. /\ a \in HostLine /\ a.own = f.own /\ a.body = "accepted"
      /\ p \in HostLine /\ p.own = f.own /\ p.body = "progress"
  BY <1>a, <1>b DEF Reply, HostLine
<1>1. n \in Quiet /\ n \in HostLine /\ NextSequence(sequence) \in 0..MaxSequence
  BY NoticeIs DEF LineTypes, ControllerTypes
<1>2. /\ toHost' = toHost \o out
      /\ active' = f.id /\ job' = [command |-> f.command, own |-> f.own, stage |-> stage]
      /\ sequence' = NextSequence(sequence) /\ UNCHANGED <<mode, crc, feedHomed, sortHomed>>
  BY DEF StartOperation, Emit, axes
<1> HIDE DEF a, n, p
<1>3. job' \in Job /\ job' # NoJob /\ job'.own = f.own
  <2>1. job'.command # "none" /\ job'.own = f.own
    BY <1>2 DEF Motion, Home
  <2>2. NoJob.command = "none"
    BY DEF NoJob
  <2>3. job' \in [command : Motion, stage : {"first", "last", "failing"}, own : BOOLEAN]
    BY <1>2, <1>a
  <2> QED
    BY <2>1, <2>2, <2>3 DEF Job
<1>4. ControllerTypes'
  BY <1>1, <1>2, <1>3, <1>a DEF LineTypes, ControllerTypes
<1>5. /\ a \in HostLine \ (Spoken \cup Final) /\ n \in HostLine \ (Spoken \cup Final)
      /\ p \in HostLine \ (Spoken \cup Final)
  BY <1>0, <1>1, <1>b, LinesApart DEF Final
<1>6. /\ rest \in Seq(HostLine) /\ All(rest, Quiet \cup Response)
      /\ All(rest, HostLine \ (Spoken \cup Final)) /\ Ends(rest, Spoken \cup Final)
      /\ f.own => All(rest, Quiet \cup {x \in Response : x.own \/ x.id # f.id})
  <2>1. CASE stage = "first"
    BY <1>0, <1>5, <1>b, <2>1, List1
  <2>2. CASE stage # "first"
    BY <2>2, AllEmpty, SMT
  <2> QED
    BY <2>1, <2>2
<1>7. /\ <<a, n>> \in Seq(HostLine) /\ All(<<a, n>>, Quiet \cup Response)
      /\ All(<<a, n>>, HostLine \ (Spoken \cup Final)) /\ Ends(<<a, n>>, Spoken \cup Final)
      /\ f.own => All(<<a, n>>, Quiet \cup {x \in Response : x.own \/ x.id # f.id})
  BY <1>0, <1>1, <1>5, <1>b, List2, SMT
<1> HIDE DEF rest
<1>8. out \in Seq(HostLine)
  BY <1>6, <1>7, SMT
<1>9. /\ All(out, Quiet \cup Response) /\ All(out, HostLine \ (Spoken \cup Final))
      /\ f.own => All(out, Quiet \cup {x \in Response : x.own \/ x.id # f.id})
  BY <1>6, <1>7, AllConcat
<1>10. Ends(out, Spoken \cup Final)
  BY <1>6, <1>7, EndsMore
<1> HIDE DEF out
<1> QED
  BY <1>2, <1>3, <1>4, <1>8, <1>9, <1>10, <1>a DEF Answered

\* The adverse scenarios send no terminal that could be taken for another request's.
LEMMA AnswerAdverselyIs ==
  ASSUME LineTypes, NEW f, IsRequest(f), f.command \in {"ping", "sortto"},
         NEW scenario \in {"disconnect", "event-gap", "malformed", "mismatch", "timeout"},
         AnswerAdversely(f, scenario)
  PROVE  Answered(f)
<1> DEFINE r == Reply(f.id, "done", FALSE, f.own)
           other == IF f.id = MaxId THEN 1 ELSE f.id + 1
           w == Reply(other, "done", FALSE, FALSE)
           m == Notice(NextSequence(sequence))
           n == Notice(NextSequence(NextSequence(NextSequence(sequence))))
<1>a. /\ crc \in BOOLEAN /\ f.id \in 0..MaxId /\ f.own \in BOOLEAN
      /\ f.command \notin Boundary /\ other \in 0..MaxId /\ other # f.id
  BY ControllerAssumption, SMT DEF LineTypes, ControllerTypes, IsRequest, Boundary
<1> HIDE DEF other
<1>b. r \in Response /\ w \in Response
  BY <1>a DEF Reply, Response
<1>0. /\ r \in HostLine /\ r.own = f.own
      /\ w \in HostLine /\ w.id = other
  BY <1>a, <1>b DEF Reply, HostLine
<1>1. /\ NextSequence(sequence) \in 0..MaxSequence
      /\ NextSequence(NextSequence(NextSequence(sequence))) \in 0..MaxSequence
      /\ m \in Quiet /\ m \in HostLine /\ n \in Quiet /\ n \in HostLine
  BY NoticeIs DEF LineTypes, ControllerTypes
<1>2. /\ UNCHANGED <<mode, crc, active, job, feedHomed, sortHomed>>
      /\ sequence' \in {sequence, NextSequence(NextSequence(NextSequence(sequence)))}
  BY DEF AnswerAdversely, axes
<1>c. \/ toHost' = toHost
      \/ toHost' = toHost \o <<Noise>>
      \/ toHost' = toHost \o <<w>>
      \/ toHost' = toHost \o <<m, n, r>>
  BY DEF AnswerAdversely, Emit, other
<1> HIDE DEF r, w, m, n
<1>3. ControllerTypes'
  BY <1>1, <1>2 DEF LineTypes, ControllerTypes
<1>4. ASSUME NEW out \in Seq(HostLine), toHost' = toHost \o out, All(out, Quiet \cup Response),
             f.own => All(out, Quiet \cup {x \in Response : x.own \/ x.id # f.id}),
             Ends(out, Spoken \cup Final)
      PROVE  Answered(f)
  BY <1>2, <1>3, <1>4, <1>a DEF Answered
<1>5. CASE toHost' = toHost
  <2>1. <<>> \in Seq(HostLine) /\ toHost' = toHost \o <<>>
    BY <1>5, SMT DEF LineTypes
  <2>2. \A S : All(<<>>, S) /\ Ends(<<>>, S)
    BY AllEmpty
  <2> QED
    BY <1>4, <2>1, <2>2
<1>6. CASE toHost' = toHost \o <<Noise>>
  <2>1. Noise \in HostLine /\ Noise \in Quiet
    BY DEF HostLine, Quiet
  <2>2. /\ <<Noise>> \in Seq(HostLine) /\ Ends(<<Noise>>, Spoken \cup Final)
        /\ All(<<Noise>>, Quiet \cup Response)
        /\ All(<<Noise>>, Quiet \cup {x \in Response : x.own \/ x.id # f.id})
    BY <2>1, List1
  <2> QED
    BY <1>4, <1>6, <2>2
<1>7. CASE toHost' = toHost \o <<w>>
  <2>1. /\ <<w>> \in Seq(HostLine) /\ Ends(<<w>>, Spoken \cup Final)
        /\ All(<<w>>, Quiet \cup Response)
        /\ All(<<w>>, Quiet \cup {x \in Response : x.own \/ x.id # f.id})
    BY <1>0, <1>a, <1>b, List1
  <2> QED
    BY <1>4, <1>7, <2>1
<1>8. CASE toHost' = toHost \o <<m, n, r>>
  <2>0. m \notin Spoken \cup Final /\ n \notin Spoken \cup Final
    BY <1>1, LinesApart DEF Final
  <2>1. /\ <<m, n, r>> \in Seq(HostLine) /\ Ends(<<m, n, r>>, Spoken \cup Final)
        /\ All(<<m, n, r>>, Quiet \cup Response)
        /\ f.own => All(<<m, n, r>>, Quiet \cup {x \in Response : x.own \/ x.id # f.id})
    BY <1>0, <1>1, <1>b, <2>0, List3, SMT
  <2> QED
    BY <1>4, <1>8, <2>1
<1> QED
  BY <1>5, <1>6, <1>7, <1>8, <1>c

\* _handle_v2 answers the request it was given.
LEMMA HandleFrameIs ==
  ASSUME LineTypes, NEW f, IsRequest(f), mode = "v2", HandleFrame(f)
  PROVE  Answered(f)
<1>1. CASE f.id # 0 /\ f.id = active
  <2>1. Reject
    BY <1>1 DEF HandleFrame
  <2> QED
    BY <2>1, RejectIs
<1>2. CASE ~(f.id # 0 /\ f.id = active) /\ f.command \in Motion \cup Boundary /\ active # 0
  <2>1. Respond(f, "error")
    BY <1>2 DEF HandleFrame
  <2> QED
    BY <2>1, RespondIs
<1>3. CASE ~(f.id # 0 /\ f.id = active) /\ ~(f.command \in Motion \cup Boundary /\ active # 0)
  <2>1. \/ f.command = "stop" /\ CorrelatedStop(f)
        \/ f.command \in Query /\ AnswerQuery(f)
        \/ f.command = "ping" /\ Respond(f, "done")
        \/ f.command = "crc:on" /\ EnableCrc(f)
        \/ f.command = "crc:off" /\ DisableCrc(f)
        \/ f.command = "protocol:1" /\ LeaveV2(f)
        \/ f.command \in Motion /\ StartMotion(f)
        \/ Respond(f, "error")
    BY <1>3 DEF HandleFrame
  <2>2. "ping" \notin Boundary
    BY DEF Boundary
  <2>3. CASE f.command \in Motion /\ StartMotion(f)
    <3>1. active = 0
      BY <1>3, <2>3
    <3>2. \/ Respond(f, "error") \/ StartOperation(f, "first") \/ StartOperation(f, "last")
      BY <2>3 DEF StartMotion
    <3> QED
      BY <2>3, <3>1, <3>2, RespondIs, StartOperationIs
  <2>4. CASE f.command = "ping" /\ Respond(f, "done")
    BY <2>2, <2>4, RespondIs
  <2>5. CASE Respond(f, "error")
    BY <2>5, RespondIs
  <2> QED
    BY <2>1, <2>3, <2>4, <2>5, CorrelatedStopIs, AnswerQueryIs, BoundaryIs
<1> QED
  BY <1>1, <1>2, <1>3

\* _inject_adverse_scenario does so too.
LEMMA InjectAdverseIs ==
  ASSUME LineTypes, NEW f, IsRequest(f), NEW scenario \in Scenario \ {"busy"},
         InjectAdverse(f, scenario)
  PROVE  Answered(f)
<1>1. f.command \in {"ping", "sortto"} /\ "sortto" \in Motion
  BY DEF InjectAdverse, Motion
<1>2. CASE scenario = "fault"
  <2>1. f.command \in Motion /\ StartFault(f)
    BY <1>1, <1>2 DEF InjectAdverse
  <2> QED
    BY <2>1, RespondIs, StartOperationIs DEF StartFault
<1>3. CASE scenario # "fault"
  <2>1. AnswerAdversely(f, scenario)
    BY <1>3 DEF InjectAdverse
  <2>2. scenario \in {"disconnect", "event-gap", "malformed", "mismatch", "timeout"}
    BY <1>3, ControllerAssumption
  <2> QED
    BY <1>1, <2>1, <2>2, AnswerAdverselyIs
<1> QED
  BY <1>2, <1>3
\* A larger set.
LEMMA AllWeaken ==
  ASSUME NEW s, NEW S, NEW U, All(s, S), \A x \in S : x \in U
  PROVE  All(s, U)
BY DEF All

\* Without a line of S there is nothing to follow one.
LEMMA EndsNone ==
  ASSUME NEW s, NEW T, NEW S, All(s, T \ S)
  PROVE  Ends(s, S)
BY DEF All, Ends

\* What the controller does with the next line x.
Handled(x) ==
    /\ ControllerTypes'
    /\ x = Legacy("stop") => active' = 0
    /\ active = 0 /\ (mode = "v1" \/ x \notin Framed \/ x.command \notin Motion) => active' = 0
    /\ ~crc /\ (mode = "v1" \/ x \notin Framed) => ~crc'
    /\ x \notin Framed /\ (mode = "v2" \/ x # Legacy("protocol:2")) => mode' = mode /\ crc' = crc
    /\ x \in Framed /\ (mode = "v1" \/ x.command \notin Boundary) => mode' = mode /\ crc' = crc
    /\ \E out \in Seq(HostLine) :
         /\ toHost' = toHost \o out
         /\ x # Legacy("stop") => All(out, HostLine \ Stopped)
         /\ x # Legacy("ping") \/ mode = "v2" => All(out, HostLine \ Pong)
         /\ Ends(out, Stopped) /\ Ends(out, Pong)
         /\ x # Legacy("stop") /\ mode = "v1" =>
              /\ All(out, Spoken) /\ Ends(out, Spoken) /\ Ends(out, Spoken \cup Final)
              /\ mode' = "v2" \/ All(out, HostLine \ {Plain(Activated)})
         /\ x = Noise /\ mode = "v2" => All(out, Quiet)
         /\ x \in Framed /\ mode = "v2" /\ x.own /\ active = 0 =>
              /\ All(out, Quiet \cup {r \in Response : r.own \/ r.id # x.id})
              /\ Ends(out, Spoken \cup Final)
              /\ active' = 0 \/ (job'.own /\ All(out, HostLine \ (Spoken \cup Final)))
              /\ x.command \in Boundary =>
                   Crossed(x.command, mode', crc') \/ All(out, HostLine \ Done)

\* _handle_priority_stop: nothing moves, and the exact terminal is sent.
LEMMA StopHandled ==
  ASSUME LineTypes, PriorityStop
  PROVE  Handled(Legacy("stop"))
<1> DEFINE n == Notice(NextSequence(sequence))
           s == Plain("stopped")
<1>1. n \in Quiet /\ n \in HostLine /\ NextSequence(sequence) \in 0..MaxSequence
  BY NoticeIs DEF LineTypes, ControllerTypes
<1>2. s \in Spoken /\ s \in HostLine /\ s \notin Pong /\ s \in Stopped
  BY PlainIs, Texts DEF Spoken, HostLine, Pong, Stopped
<1>3. /\ active' = 0 /\ job' = NoJob /\ feedHomed' = FALSE /\ sortHomed' = FALSE
      /\ sequence' \in {sequence, NextSequence(sequence)} /\ UNCHANGED <<mode, crc>>
      /\ \/ toHost' = toHost \o <<n, s>> \/ toHost' = toHost \o <<s>>
  BY DEF PriorityStop, Halt, Emit
<1> HIDE DEF n, s
<1>4. ControllerTypes'
  <2>1. /\ mode' \in {"v1", "v2"} /\ crc' \in BOOLEAN /\ feedHomed' \in BOOLEAN
        /\ sortHomed' \in BOOLEAN
    BY <1>3 DEF LineTypes, ControllerTypes
  <2>2. active' \in 0..MaxId /\ sequence' \in 0..MaxSequence
    BY <1>1, <1>3, ControllerAssumption, SMT DEF LineTypes, ControllerTypes
  <2>3. job' \in Job
    BY <1>3, JobIs
  <2> QED
    BY <1>3, <2>1, <2>2, <2>3 DEF ControllerTypes
<1>5. Legacy("stop") \notin Framed /\ Legacy("stop") # Noise
  BY LegacyIs, Kinds
<1>6. n \notin Stopped /\ n \notin Pong
  BY <1>1, LinesApart DEF Stopped, Pong, Spoken
<1>7. /\ <<s>> \in Seq(HostLine) /\ All(<<s>>, HostLine \ Pong) /\ Ends(<<s>>, Stopped)
      /\ Ends(<<s>>, Pong)
  BY <1>2, List1
<1>8. /\ <<n, s>> \in Seq(HostLine) /\ All(<<n, s>>, HostLine \ Pong) /\ Ends(<<n, s>>, Stopped)
      /\ Ends(<<n, s>>, Pong)
  BY <1>1, <1>2, <1>6, List2, SMT
<1> QED
  BY <1>3, <1>4, <1>5, <1>7, <1>8 DEF Handled

\* _handle_v1: one plain line, and v2 only after the activation.
LEMMA V1Handled ==
  ASSUME LineTypes, NEW x \in ControllerLine, x # Legacy("stop"), mode = "v1", HandleV1(x)
  PROVE  Handled(x)
<1>0. /\ UNCHANGED <<active, job, feedHomed, sortHomed>>
      /\ \E t \in {PingAnswer, "ok", InvalidCommand, "error:busy", Available,
                    Activated} :
           /\ toHost' = toHost \o <<Plain(t)>>
           /\ \/ /\ x = Legacy("protocol:2") /\ mode' = "v2" /\ crc' = FALSE /\ sequence' = 0
                 /\ t # PingAnswer
              \/ /\ UNCHANGED <<mode, crc, sequence>> /\ t # Activated
                 /\ t = PingAnswer => x = Legacy("ping")
  BY Texts, LegacyIs DEF HandleV1, Emit, controller, axes
<1>1. PICK t \in {PingAnswer, "ok", InvalidCommand, "error:busy", Available,
                  Activated} :
           /\ toHost' = toHost \o <<Plain(t)>>
           /\ \/ /\ x = Legacy("protocol:2") /\ mode' = "v2" /\ crc' = FALSE /\ sequence' = 0
                 /\ t # PingAnswer
              \/ /\ UNCHANGED <<mode, crc, sequence>> /\ t # Activated
                 /\ t = PingAnswer => x = Legacy("ping")
  BY <1>0
<1> DEFINE y == Plain(t)
<1>2. /\ y \in Spoken /\ y \in HostLine /\ y \notin Stopped
      /\ y \in Pong => t = PingAnswer
      /\ y = Plain(Activated) => t = Activated
  BY PlainIs, Texts DEF Spoken, HostLine, Pong, Stopped
<1> HIDE DEF y
<1>3. toHost' = toHost \o <<y>>
  BY <1>1 DEF y
<1>a. crc' \in BOOLEAN /\ (~crc => ~crc')
  <2>1. CASE crc' = FALSE
    BY <2>1
  <2>2. CASE crc' = crc
    BY <2>2 DEF LineTypes, ControllerTypes
  <2> QED
    BY <1>1, <2>1, <2>2
<1>b. mode' \in {"v1", "v2"} /\ sequence' \in 0..MaxSequence
  <2>1. (mode' = "v2" /\ sequence' = 0) \/ (mode' = mode /\ sequence' = sequence)
    BY <1>1
  <2>2. mode \in {"v1", "v2"} /\ sequence \in 0..MaxSequence
    BY DEF LineTypes, ControllerTypes
  <2>3. 0 \in 0..MaxSequence
    BY Zero
  <2> QED
    BY <2>1, <2>2, <2>3
<1>4. ControllerTypes'
  BY <1>0, <1>a, <1>b DEF LineTypes, ControllerTypes
<1>5. Legacy("protocol:2") \notin Framed /\ Legacy("ping") # Legacy("protocol:2")
  BY LegacyIs, Kinds
<1>6. /\ <<y>> \in Seq(HostLine) /\ All(<<y>>, HostLine \ Stopped) /\ All(<<y>>, Spoken)
      /\ y \notin Pong => All(<<y>>, HostLine \ Pong)
      /\ t # Activated => All(<<y>>, HostLine \ {Plain(Activated)})
      /\ \A S : Ends(<<y>>, S)
  BY <1>2, List1
<1>c. x # Legacy("protocol:2") => mode' = mode /\ crc' = crc
  BY <1>1
<1>d. x # Legacy("ping") => y \notin Pong
  BY <1>1, <1>2
<1>e. mode' = "v2" \/ t # Activated
  BY <1>1
<1>7. /\ active' = active /\ (~crc => ~crc')
      /\ x # Legacy("protocol:2") => mode' = mode /\ crc' = crc
      /\ x \in Framed => mode' = mode /\ crc' = crc
      /\ x # Legacy("ping") => y \notin Pong
      /\ mode' = "v2" \/ t # Activated
  BY <1>0, <1>5, <1>a, <1>c, <1>d, <1>e
<1> QED
  BY <1>3, <1>4, <1>6, <1>7 DEF Handled

\* A bare command is a request that moves nothing.
LEMMA AsFrameIs ==
  ASSUME NEW x \in ControllerLine, x # Noise, x # Legacy("stop")
  PROVE  /\ IsRequest(AsFrame(x))
         /\ x \in Framed => AsFrame(x) = x
         /\ x \notin Framed => AsFrame(x).command \notin Boundary \cup Motion
<1>1. CASE x \in Framed
  <2>1. x.kind = "frame" /\ x.id \in 1..MaxId /\ x.own \in BOOLEAN
    BY <1>1 DEF Framed
  <2>2. AsFrame(x) = x
    BY <2>1 DEF AsFrame
  <2>3. x.id \in 0..MaxId /\ x.id # 0
    BY <2>1, SMT
  <2> QED
    BY <1>1, <2>1, <2>2, <2>3 DEF IsRequest
<1>2. CASE x \in Bare
  <2>1. x.kind = "legacy" /\ x.text \in {"ping", "protocol:2?", "protocol:2"}
    BY <1>2, LegacyIs DEF Bare
  <2>2. AsFrame(x).id = 0 /\ AsFrame(x).own = FALSE /\ AsFrame(x).command = x.text
    BY <2>1 DEF AsFrame, Frame
  <2>3. x \notin Framed
    BY <1>2, LinesApart
  <2>4. x.text \notin Boundary \cup Motion
    BY <2>1 DEF Boundary, Motion, Home
  <2>5. 0 \in 0..MaxId
    BY ControllerAssumption, SMT
  <2>6. AsFrame(x).own \in BOOLEAN
    BY <2>2
  <2> QED
    BY <2>2, <2>3, <2>4, <2>5, <2>6 DEF IsRequest
<1> QED
  BY <1>1, <1>2 DEF ControllerLine

\* _handle_v2, and the scenarios injected into it.
LEMMA V2Handled ==
  ASSUME LineTypes, NEW x \in ControllerLine, x # Legacy("stop"), mode = "v2",
         \/ HandleV2(x)
         \/ x # Noise /\ \E scenario \in Scenario \ {"busy"} : InjectAdverse(AsFrame(x), scenario)
  PROVE  Handled(x)
<1>0. \A l \in Quiet \cup Response : l \in HostLine \ Stopped /\ l \in HostLine \ Pong
  BY LinesApart DEF HostLine, Stopped, Pong, Spoken
<1>1. CASE Reject
  <2>1. ControllerTypes' /\ UNCHANGED <<mode, crc, active, job>>
    BY <1>1, RejectIs DEF Answered
  <2>2. PICK n \in Quiet : n \in HostLine /\ toHost' = toHost \o <<n>>
    BY <1>1, RejectIs
  <2>3. n \notin Final /\ n \notin Done /\ n \notin Spoken /\ n \in HostLine \ Done
    BY <2>2, LinesApart DEF Final, Done
  <2>4. /\ <<n>> \in Seq(HostLine) /\ All(<<n>>, Quiet) /\ All(<<n>>, HostLine \ Done)
        /\ \A S : Ends(<<n>>, S)
    BY <2>2, <2>3, List1
  <2>5. /\ All(<<n>>, HostLine \ Stopped) /\ All(<<n>>, HostLine \ Pong)
        /\ All(<<n>>, Quiet \cup {r \in Response : r.own \/ r.id # x.id})
    BY <1>0, <2>4, AllWeaken, SMT
  <2> QED
    BY <2>1, <2>2, <2>4, <2>5 DEF Handled
<1>2. CASE x # Noise /\ Answered(AsFrame(x))
  <2> DEFINE f == AsFrame(x)
  <2>0. /\ x \in Framed => f = x
        /\ x \notin Framed => f.command \notin Boundary /\ f.command \notin Motion
    BY <1>2, AsFrameIs
  <2>1. PICK out \in Seq(HostLine) :
         /\ toHost' = toHost \o out
         /\ All(out, Quiet \cup Response)
         /\ f.own /\ active = 0 =>
              /\ All(out, Quiet \cup {r \in Response : r.own \/ r.id # f.id})
              /\ Ends(out, Spoken \cup Final)
              /\ active' = 0 \/ (job'.own /\ All(out, HostLine \ (Spoken \cup Final)))
              /\ f.command \in Boundary =>
                   Crossed(f.command, mode', crc') \/ All(out, HostLine \ Done)
    BY <1>2 DEF Answered
  <2>2. /\ ControllerTypes'
        /\ f.command \notin Boundary => mode' = mode /\ crc' = crc
        /\ f.command \notin Motion => active' = 0 \/ active' = active
    BY <1>2 DEF Answered
  <2> HIDE DEF f
  <2>3. All(out, HostLine \ Stopped) /\ All(out, HostLine \ Pong)
    BY <1>0, <2>1, AllWeaken
  <2>4. Ends(out, Stopped) /\ Ends(out, Pong)
    BY <2>3, EndsNone
  <2>5. CASE x \in Framed
    BY <1>2, <2>0, <2>1, <2>2, <2>3, <2>4, <2>5 DEF Handled
  <2>6. CASE x \notin Framed
    <3>1. mode' = mode /\ crc' = crc /\ (active = 0 => active' = 0)
      BY <2>0, <2>2, <2>6
    <3>2. ~crc => ~crc'
      BY <3>1
    <3> QED
      BY <1>2, <2>1, <2>2, <2>3, <2>4, <2>6, <3>1, <3>2 DEF Handled
  <2> QED
    BY <2>5, <2>6
<1>3. CASE HandleV2(x)
  <2>1. CASE x.kind = "noise" \/ AsFrame(x).crc # crc
    BY <1>1, <1>3, <2>1 DEF HandleV2
  <2>2. CASE ~(x.kind = "noise" \/ AsFrame(x).crc # crc)
    <3>1. HandleFrame(AsFrame(x)) /\ x # Noise
      BY <1>3, <2>2, Kinds DEF HandleV2
    <3> QED
      BY <1>2, <3>1, AsFrameIs, HandleFrameIs
  <2> QED
    BY <2>1, <2>2
<1>4. CASE x # Noise /\ \E scenario \in Scenario \ {"busy"} : InjectAdverse(AsFrame(x), scenario)
  BY <1>2, <1>4, AsFrameIs, InjectAdverseIs
<1> QED
  BY <1>3, <1>4

\* The controller handles the next line, normally or adversely.
LEMMA LineHandled ==
  ASSUME LineTypes, HandleLine \/ HandleAdversely
  PROVE  /\ toController # <<>> /\ Head(toController) \in ControllerLine
         /\ toController' = Tail(toController)
         /\ Handled(Head(toController)) /\ LineTypes'
         /\ UNCHANGED restarted
         /\ faults' = faults \/ (faults < MaxFaults /\ faults' = faults + 1)
<1> DEFINE x == Head(toController)
<1>1. toController # <<>> /\ toController' = Tail(toController)
  BY DEF HandleLine, HandleAdversely, Take
<1>2. x \in ControllerLine /\ Tail(toController) \in Seq(ControllerLine)
  BY <1>1, SMT DEF LineTypes
<1>3. UNCHANGED restarted /\ (faults' = faults \/ (faults < MaxFaults /\ faults' = faults + 1))
  BY DEF HandleLine, HandleAdversely, InjectAdverse
<1>4. Handled(x)
  <2>1. CASE HandleLine
    <3>1. \/ x = Legacy("stop") /\ PriorityStop
          \/ x # Legacy("stop") /\ mode = "v1" /\ HandleV1(x)
          \/ x # Legacy("stop") /\ mode = "v2" /\ HandleV2(x)
      BY <2>1 DEF HandleLine
    <3> HIDE DEF x
    <3> QED
      BY <1>2, <3>1, StopHandled, V1Handled, V2Handled
  <2>2. CASE HandleAdversely
    <3>1. /\ x # Noise /\ x # Legacy("stop") /\ mode = "v2"
          /\ \E scenario \in Scenario \ {"busy"} : InjectAdverse(AsFrame(x), scenario)
      BY <2>2 DEF HandleAdversely
    <3> HIDE DEF x
    <3> QED
      BY <1>2, <3>1, V2Handled
  <2> QED
    BY <2>1, <2>2
<1>5. LineTypes'
  <2>1. PICK out \in Seq(HostLine) : toHost' = toHost \o out
    BY <1>4 DEF Handled
  <2>2. toHost' \in Seq(HostLine)
    BY <2>1, SMT DEF LineTypes
  <2>3. faults' \in Nat
    BY <1>3, SMT DEF LineTypes
  <2> QED
    BY <1>1, <1>2, <1>4, <2>2, <2>3 DEF LineTypes, Handled
<1> QED
  BY <1>1, <1>2, <1>3, <1>4, <1>5

\* A scheduled callback of the movement reports for the request that started it.
LEMMA CallbackIs ==
  ASSUME LineTypes, Progress \/ Complete \/ FailMotion
  PROVE  /\ active # 0 /\ LineTypes'
         /\ UNCHANGED <<mode, crc, toController, faults, restarted>>
         /\ \E out \in Seq(HostLine) :
              /\ toHost' = toHost \o out
              /\ All(out, Quiet \cup Response)
              /\ job.own => All(out, Quiet \cup {r \in Response : r.own})
              /\ Ends(out, Spoken \cup Final)
              /\ active' = 0 \/ (job'.own = job.own /\ All(out, HostLine \ (Spoken \cup Final)))
<1> DEFINE p == Reply(active, "progress", FALSE, job.own)
           d == Reply(active, "done", FALSE, job.own)
           e == Reply(active, "error", FALSE, job.own)
           n == Notice(NextSequence(sequence))
           m == Notice(NextSequence(NextSequence(sequence)))
<1>a. /\ crc \in BOOLEAN /\ active \in 0..MaxId /\ job.own \in BOOLEAN /\ job \in Job
      /\ mode \in {"v1", "v2"} /\ feedHomed \in BOOLEAN /\ sortHomed \in BOOLEAN
  BY JobIs DEF LineTypes, ControllerTypes
<1>b. p \in Response /\ d \in Response /\ e \in Response
  BY <1>a DEF Reply, Response
<1>0. /\ p \in HostLine /\ p.own = job.own /\ p.body = "progress"
      /\ d \in HostLine /\ d.own = job.own /\ e \in HostLine /\ e.own = job.own
  BY <1>a, <1>b DEF Reply, HostLine
<1>1. /\ NextSequence(sequence) \in 0..MaxSequence
      /\ NextSequence(NextSequence(sequence)) \in 0..MaxSequence
      /\ n \in Quiet /\ n \in HostLine /\ m \in Quiet /\ m \in HostLine
  BY NoticeIs DEF LineTypes, ControllerTypes
<1>2. active # 0
  <2>1. job # NoJob
    BY JobIs DEF Progress, Complete, FailMotion
  <2> QED
    BY <2>1 DEF LineTypes, ControllerTypes
<1>3. UNCHANGED <<mode, crc, toController, faults, restarted>>
  BY DEF Progress, Complete, FailMotion
<1>4. \/ /\ toHost' = toHost \o <<p, n>> /\ active' = active
         /\ job.stage = "first" /\ job' = [job EXCEPT !.stage = "last"]
         /\ sequence' = NextSequence(sequence) /\ UNCHANGED <<feedHomed, sortHomed>>
      \/ /\ toHost' = toHost \o <<n, d>> /\ active' = 0 /\ job' = NoJob
         /\ sequence' = NextSequence(sequence)
         /\ feedHomed' \in BOOLEAN /\ sortHomed' \in BOOLEAN
      \/ /\ toHost' = toHost \o <<e, n, m>> /\ active' = 0 /\ job' = NoJob
         /\ sequence' = NextSequence(NextSequence(sequence))
         /\ feedHomed' = FALSE /\ sortHomed' = sortHomed
  BY DEF Progress, Complete, FailMotion, Emit, axes
<1> HIDE DEF p, d, e, n, m
<1>c. /\ p \notin Spoken \cup Final /\ n \notin Spoken \cup Final
  BY <1>0, <1>1, <1>b, LinesApart DEF Final
<1>5. ASSUME NEW out \in Seq(HostLine), toHost' = toHost \o out, ControllerTypes' PROVE LineTypes'
  <2>1. toHost' \in Seq(HostLine)
    BY <1>5, SMT DEF LineTypes
  <2> QED
    BY <1>3, <1>5, <2>1 DEF LineTypes
<1>6. CASE /\ toHost' = toHost \o <<p, n>> /\ active' = active
           /\ job.stage = "first" /\ job' = [job EXCEPT !.stage = "last"]
           /\ sequence' = NextSequence(sequence) /\ UNCHANGED <<feedHomed, sortHomed>>
  <2>1. /\ <<p, n>> \in Seq(HostLine) /\ All(<<p, n>>, Quiet \cup Response)
        /\ job.own => All(<<p, n>>, Quiet \cup {r \in Response : r.own})
        /\ Ends(<<p, n>>, Spoken \cup Final) /\ All(<<p, n>>, HostLine \ (Spoken \cup Final))
    BY <1>0, <1>1, <1>b, <1>c, List2
  <2>2. job \in [command : Motion, stage : {"first", "last", "failing"}, own : BOOLEAN]
    BY <1>6, <1>a, JobIs
  <2>3. /\ job' \in [command : Motion, stage : {"first", "last", "failing"}, own : BOOLEAN]
        /\ job'.own = job.own /\ job'.stage = "last"
    BY <1>6, <2>2
  <2>4. job' \in Job /\ job' # NoJob
    BY <2>3, JobIs DEF Job
  <2>5. ControllerTypes'
    BY <1>1, <1>2, <1>3, <1>6, <1>a, <2>4 DEF ControllerTypes
  <2> QED
    BY <1>2, <1>3, <1>5, <1>6, <2>1, <2>3, <2>5
<1>7. CASE /\ toHost' = toHost \o <<n, d>> /\ active' = 0 /\ job' = NoJob
           /\ sequence' = NextSequence(sequence)
           /\ feedHomed' \in BOOLEAN /\ sortHomed' \in BOOLEAN
  <2>1. /\ <<n, d>> \in Seq(HostLine) /\ All(<<n, d>>, Quiet \cup Response)
        /\ job.own => All(<<n, d>>, Quiet \cup {r \in Response : r.own})
        /\ Ends(<<n, d>>, Spoken \cup Final)
    BY <1>0, <1>1, <1>b, <1>c, List2
  <2>2. ControllerTypes'
    BY <1>1, <1>3, <1>7, <1>a, Zero, JobIs DEF ControllerTypes
  <2> QED
    BY <1>2, <1>3, <1>5, <1>7, <2>1, <2>2
<1>8. CASE /\ toHost' = toHost \o <<e, n, m>> /\ active' = 0 /\ job' = NoJob
           /\ sequence' = NextSequence(NextSequence(sequence))
           /\ feedHomed' = FALSE /\ sortHomed' = sortHomed
  <2>1. /\ <<e, n, m>> \in Seq(HostLine) /\ All(<<e, n, m>>, Quiet \cup Response)
        /\ job.own => All(<<e, n, m>>, Quiet \cup {r \in Response : r.own})
        /\ Ends(<<e, n, m>>, Spoken \cup Final)
    BY <1>0, <1>1, <1>b, <1>c, List3, SMT
  <2>2. feedHomed' \in BOOLEAN /\ sortHomed' \in BOOLEAN
    BY <1>8, <1>a
  <2>3. ControllerTypes'
    BY <1>1, <1>3, <1>8, <1>a, <2>2, Zero, JobIs DEF ControllerTypes
  <2> QED
    BY <1>2, <1>3, <1>5, <1>8, <2>1, <2>3
<1> QED
  BY <1>4, <1>6, <1>7, <1>8

\* Starting the controller again.
LEMMA BootIs ==
  ASSUME NEW here \in Seq(ControllerLine), NEW there \in Seq(HostLine), Boot(here, there)
  PROVE  /\ Fresh' /\ job' = NoJob /\ ControllerTypes'
         /\ toController' = here /\ toHost' = Append(there, Plain("Ready"))
         /\ toHost' \in Seq(HostLine)
         /\ \A S : All(there, S) /\ Plain("Ready") \in S => All(toHost', S)
         /\ \A S : Ends(there, S) => Ends(toHost', S)
<1>1. /\ mode' = "v1" /\ crc' = FALSE /\ active' = 0 /\ job' = NoJob
      /\ feedHomed' = FALSE /\ sortHomed' = FALSE /\ sequence' = 0
      /\ toController' = here /\ toHost' = Append(there, Plain("Ready"))
  BY DEF Boot, Booted
<1>2. Plain("Ready") \in HostLine /\ Plain("Ready") \in Quiet
  BY DEF HostLine, Quiet
<1>3. toHost' \in Seq(HostLine)
  BY <1>1, <1>2, SMT
<1>4. crc' \in BOOLEAN /\ feedHomed' \in BOOLEAN /\ sortHomed' \in BOOLEAN /\ ~crc'
  BY <1>1
<1>5. ControllerTypes'
  BY <1>1, <1>4, Zero, JobIs DEF ControllerTypes
<1>6. ASSUME NEW S, All(there, S), Plain("Ready") \in S PROVE All(toHost', S)
  BY <1>1, <1>2, <1>6, AllAppend
<1>7. ASSUME NEW S, Ends(there, S) PROVE Ends(toHost', S)
  <2>1. <<Plain("Ready")>> \in Seq(HostLine) /\ All(<<Plain("Ready")>>, Quiet)
        /\ Ends(<<Plain("Ready")>>, S)
    BY <1>2, List1
  <2>2. Ends(there \o <<Plain("Ready")>>, S)
    BY <1>7, <2>1, EndsMore
  <2>3. there \o <<Plain("Ready")>> = Append(there, Plain("Ready"))
    BY <1>2, SMT
  <2> QED
    BY <1>1, <2>2, <2>3
<1> QED
  BY <1>1, <1>3, <1>4, <1>5, <1>6, <1>7 DEF Fresh

-----------------------------------------------------------------------------
(* The controller, the line and the power supply preserve the invariant *)

\* A quiet line is none of the lines the invariant excludes.
LEMMA QuietIs ==
  ASSUME NEW l \in Quiet
  PROVE  /\ l \in HostLine /\ l \notin Spoken /\ l \notin Final
         /\ l \in Quiet \cup (Spoken \ Stopped) /\ l \in HostLine \ Stopped
         /\ l \in HostLine \ Pong /\ l \in HostLine \ Spoken
         /\ l \in HostLine \ (Spoken \cup Final) /\ l \in HostLine \ Done
         /\ l \in HostLine \ {Plain(Activated)}
         /\ \A id : l \in Meets(id)
<1>1. l \in HostLine /\ l \notin Spoken /\ l \notin Response
  BY LinesApart DEF HostLine
<1>2. \A y \in Stopped \cup Pong \cup {Plain(Activated)} : y \in Spoken
  BY DEF Stopped, Pong, Spoken
<1> QED
  BY <1>1, <1>2 DEF Final, Done, Meets

\* The sets of answers of the invariant have no garbled line.
LEMMA NoiseIs ==
  /\ Noise \in Quiet /\ Noise \notin Spoken /\ Noise \notin Stopped /\ Noise \notin Pong
  /\ Noise \notin Spoken \cup Final /\ Noise \in HostLine
  /\ Noise \in ControllerLine /\ Noise \notin Framed
  /\ \A text : Noise # Legacy(text)
<1>1. Noise \in Quiet
  BY DEF Quiet
<1>2. Noise.kind = "noise"
  BY DEF Noise
<1>3. \A text : Noise # Legacy(text)
  BY <1>2, LegacyIs
<1>4. Noise \notin Framed
  BY <1>2, Kinds
<1> QED
  BY <1>1, <1>3, <1>4, LinesApart, QuietIs DEF ControllerLine, Stopped, Pong, Spoken

\* A controller that restarts by itself has an empty line before it, and the
\* auxiliary mark excuses the client's view of its parser.
LEMMA BrownoutStep ==
  ASSUME SessionInv, Brownout, UNCHANGED client
  PROVE  SessionInv'
<1>0. <<>> \in Seq(ControllerLine) /\ toHost \in Seq(HostLine) /\ Boot(<<>>, toHost)
      /\ restarted' = TRUE /\ faults' \in Nat
  BY SMT DEF SessionInv, LineTypes, Brownout
<1>1. /\ Fresh' /\ ControllerTypes' /\ toController' = <<>> /\ toHost' \in Seq(HostLine)
      /\ \A S : All(toHost, S) /\ Plain("Ready") \in S => All(toHost', S)
      /\ \A S : Ends(toHost, S) => Ends(toHost', S)
  BY <1>0, BootIs
<1>2. Plain("Ready") \in Quiet
  BY DEF Quiet
<1>3. /\ Plain("Ready") \in Quiet \cup (Spoken \ Stopped)
      /\ Plain("Ready") \in HostLine \ Pong
      /\ \A id : Plain("Ready") \in Meets(id)
  BY <1>2, QuietIs
<1>4. LineTypes'
  BY <1>0, <1>1 DEF LineTypes
<1>5. ClientTypes'
  BY DEF SessionInv, ClientTypes, client
<1>6. Greeting'
  BY <1>1, <1>2 DEF SessionInv, Greeting, Fresh, client
<1>7. Asking'
  BY <1>0, <1>1, <1>3 DEF SessionInv, Asking, Fresh, Exchange, client
<1>8. Requesting'
  BY <1>0, <1>1, <1>3 DEF SessionInv, Requesting, Exchange, Fresh, Agree, Lapsed, client
<1>9. Idle'
  BY <1>0, <1>1, <1>2 DEF SessionInv, Idle, Agree, Lapsed, Fresh, client
<1>10. Halting'
  BY <1>0, <1>1, <1>3, AllEmpty, SMT DEF SessionInv, Halting, Agree, Lapsed, Fresh, client, StopLast, OnlyLast
<1>11. Recovering'
  BY <1>0, <1>1, <1>3, AllEmpty, SMT DEF SessionInv, Recovering, NoActivation, Fresh, client, OnlyLast
<1> QED
  BY <1>4, <1>5, <1>6, <1>7, <1>8, <1>9, <1>10, <1>11 DEF SessionInv

\* A lost or garbled line to the host.
LEMMA HostFaultStep ==
  ASSUME SessionInv, UNCHANGED client, UNCHANGED <<controller, toController, restarted>>,
         faults' \in Nat, toHost # <<>>, toHost' = Tail(toHost) \/ toHost' = <<Noise>> \o Tail(toHost)
  PROVE  SessionInv'
<1>1. /\ toHost' \in Seq(HostLine)
      /\ \A S : Noise \in S /\ All(toHost, S) => All(toHost', S)
      /\ \A S : Noise \notin S /\ Ends(toHost, S) => Ends(toHost', S)
  <2>1. toHost \in Seq(HostLine) /\ Noise \in HostLine
    BY NoiseIs DEF SessionInv, LineTypes
  <2> QED
    BY <2>1, FaultedLine
<1>2. /\ Noise \in Quiet \cup (Spoken \ Stopped) /\ Noise \in HostLine \ Stopped
      /\ Noise \in HostLine \ Pong
      /\ Noise \in HostLine \ (Spoken \cup Final) /\ Noise \in HostLine \ Done
      /\ Noise \in HostLine \ {Plain(Activated)}
      /\ \A id : Noise \in Meets(id)
  BY NoiseIs, QuietIs
<1>3. UNCHANGED <<mode, crc, active, job, feedHomed, sortHomed, sequence>>
  BY DEF controller, axes
<1>4. LineTypes'
  BY <1>1, <1>3 DEF SessionInv, LineTypes, ControllerTypes
<1>5. ClientTypes'
  BY DEF SessionInv, ClientTypes, client
<1>6. Greeting'
  BY <1>1, <1>3, NoiseIs DEF SessionInv, Greeting, Fresh, client
<1>7. Asking'
  BY <1>1, <1>2, <1>3, NoiseIs DEF SessionInv, Asking, Fresh, Exchange, client
<1>8. Requesting'
  BY <1>1, <1>2, <1>3, NoiseIs DEF SessionInv, Requesting, Exchange, Crossed, Agree, Lapsed, client
<1>9. Idle'
  BY <1>1, <1>3, NoiseIs DEF SessionInv, Idle, Agree, Lapsed, client
<1>10. Halting'
  BY <1>1, <1>2, <1>3, NoiseIs DEF SessionInv, Halting, Agree, Lapsed, client, StopLast
<1>11. Recovering'
  BY <1>1, <1>2, <1>3, NoiseIs DEF SessionInv, Recovering, Activation, NoFrame, client
<1> QED
  BY <1>4, <1>5, <1>6, <1>7, <1>8, <1>9, <1>10, <1>11 DEF SessionInv

\* A lost or garbled line to the controller.
LEMMA ControllerFaultStep ==
  ASSUME SessionInv, UNCHANGED client, UNCHANGED <<controller, toHost, restarted>>,
         faults' \in Nat, toController # <<>>,
         toController' = Tail(toController) \/ toController' = <<Noise>> \o Tail(toController)
  PROVE  SessionInv'
<1>0. toController \in Seq(ControllerLine) /\ Noise \in ControllerLine
  BY NoiseIs DEF SessionInv, LineTypes
<1>1. /\ toController' \in Seq(ControllerLine)
      /\ \A S : Noise \in S /\ All(toController, S) => All(toController', S)
      /\ \A x : x # Noise /\ OnlyLast(toController, x) => OnlyLast(toController', x)
  BY <1>0, FaultedLine
<1>2. \A x : toController \in {<<x>>, <<Noise>>} => toController' \in {<<>>, <<Noise>>}
  <2>1. ASSUME NEW x, toController = <<x>> PROVE toController' \in {<<>>, <<Noise>>}
    <3>1. Tail(toController) = <<>>
      BY <2>1, SMT
    <3>2. <<Noise>> \o <<>> = <<Noise>>
      BY SMT
    <3> QED
      BY <3>1, <3>2
  <2> QED
    BY <2>1
<1>3. NoActivation(Tail(toController)) => NoActivation(toController')
  <2>1. ASSUME NoActivation(Tail(toController)) PROVE NoActivation(<<Noise>> \o Tail(toController))
    <3>1. <<Noise>> \in Seq(ControllerLine) /\ Tail(toController) \in Seq(ControllerLine)
      BY <1>0, SMT
    <3>2. All(<<Noise>>, ControllerLine \ {Legacy("protocol:2")})
      BY NoiseIs, List1
    <3> QED
      BY <2>1, <3>1, <3>2, AllConcat DEF NoActivation
  <2> QED
    BY <2>1
<1>a. UNCHANGED <<mode, crc, active, job, feedHomed, sortHomed, sequence>>
  BY DEF controller, axes
<1>4. LineTypes'
  BY <1>1, <1>a DEF SessionInv, LineTypes, ControllerTypes
<1>5. ClientTypes'
  BY DEF SessionInv, ClientTypes, client
<1>6. Greeting' /\ Idle'
  BY DEF SessionInv, Greeting, Idle, client
<1>7. Asking'
  BY <1>2, <1>a, SMT DEF SessionInv, Asking, Fresh, Exchange, client
<1>8. Requesting'
  BY <1>2, <1>a, SMT DEF SessionInv, Requesting, Exchange, Crossed, Agree, Lapsed, client
<1>9. Halting'
  BY <1>1, <1>a, NoiseIs DEF SessionInv, Halting, Agree, Lapsed, client, StopLast
<1>10. Recovering'
  <2>1. NoActivation(toController) \/ Activation => NoActivation(toController')
    BY <1>1, <1>3, NoiseIs DEF NoActivation, Activation
  <2>2. NoFrame => NoFrame'
    BY <1>1, NoiseIs DEF NoFrame
  <2>3. step \in {"recover_stop", "recover_reset"} => NoActivation(toController) \/ Activation
    BY DEF SessionInv, Recovering
  <2>4. step \in {"recover_ready", "recover_ping"} =>
         /\ ~crc /\ active = 0
         /\ \/ mode = "v1" /\ NoActivation(toController)
            \/ mode = "v1" /\ Activation
            \/ mode = "v2" /\ NoActivation(toController) /\ NoFrame /\ All(toHost, HostLine \ Pong)
    BY DEF SessionInv, Recovering
  <2>5. step \in {"recover_stop", "recover_reset", "recover_ready"} /\ call \in {"command", "profile"} =>
         All(toController, ControllerLine \ {Legacy("ping")}) /\ All(toHost, HostLine \ Pong)
    BY DEF SessionInv, Recovering
  <2>6. step = "recover_ping" /\ call \in {"command", "profile"} =>
         /\ OnlyLast(toController, Legacy("ping"))
         /\ toController = <<>> \/ All(toHost, HostLine \ Pong)
         /\ Ends(toHost, Pong)
    BY DEF SessionInv, Recovering
  <2> QED
    BY <1>1, <1>a, <2>1, <2>2, <2>3, <2>4, <2>5, <2>6, NoiseIs DEF Recovering, client
<1> QED
  BY <1>4, <1>5, <1>6, <1>7, <1>8, <1>9, <1>10 DEF SessionInv

\* A callback of the movement: its request is outstanding, or was given up.
LEMMA CallbackStep ==
  ASSUME SessionInv, UNCHANGED client, Progress \/ Complete \/ FailMotion
  PROVE  SessionInv'
<1>0. LineTypes /\ toHost \in Seq(HostLine)
  BY DEF SessionInv, LineTypes
<1>1. active # 0 /\ LineTypes' /\ UNCHANGED <<mode, crc, toController, faults, restarted>>
  BY <1>0, CallbackIs
<1>2. PICK out \in Seq(HostLine) :
              /\ toHost' = toHost \o out
              /\ All(out, Quiet \cup Response)
              /\ job.own => All(out, Quiet \cup {r \in Response : r.own})
              /\ Ends(out, Spoken \cup Final)
              /\ active' = 0 \/ (job'.own = job.own /\ All(out, HostLine \ (Spoken \cup Final)))
  BY <1>0, CallbackIs
<1>3. \A S : All(toHost, S) /\ All(out, S) => All(toHost', S)
  BY <1>0, <1>2, AllConcat
<1>4. All(out, HostLine \ Stopped) /\ All(out, HostLine \ Pong)
  <2>1. \A l \in Quiet \cup Response : l \in HostLine \ Stopped /\ l \in HostLine \ Pong
    BY LinesApart DEF HostLine, Stopped, Pong, Spoken
  <2> QED
    BY <1>2, <2>1, AllWeaken
<1>5. ClientTypes'
  BY DEF SessionInv, ClientTypes, client
<1>6. Greeting' /\ Asking' /\ Idle'
  BY <1>1 DEF SessionInv, Greeting, Asking, Idle, Fresh, client
<1>7. Requesting'
  <2> SUFFICES ASSUME step = "request" PROVE Requesting'
    BY DEF Requesting, client
  <2>1. /\ toController = <<>> /\ job.own /\ request.command \notin Boundary
        /\ All(toHost, HostLine \ (Spoken \cup Final)) /\ session = "v2"
        /\ All(toHost, Meets(request.id)) /\ Ends(toHost, Spoken \cup Final)
        /\ Agree
    BY <1>1 DEF SessionInv, Requesting, Exchange
  <2>2. All(out, Meets(request.id))
    <3>1. \A l \in Quiet \cup {r \in Response : r.own} : l \in Meets(request.id)
      BY DEF Meets
    <3> QED
      BY <1>2, <2>1, <3>1, AllWeaken
  <2>3. Ends(toHost', Spoken \cup Final)
    BY <1>0, <1>2, <2>1, EndsMore
  <2>4. active' = 0 \/ (job'.own /\ All(toHost', HostLine \ (Spoken \cup Final)))
    BY <1>2, <1>3, <2>1
  <2> QED
    BY <1>1, <1>3, <2>1, <2>2, <2>3, <2>4 DEF Requesting, Exchange, Agree, Lapsed, client
<1>8. Halting'
  <2> SUFFICES ASSUME step = "stop" PROVE Halting'
    BY DEF Halting, client
  <2>1. All(toHost, HostLine \ Stopped) /\ All(toHost, HostLine \ Pong)
    BY <1>1 DEF SessionInv, Halting
  <2>2. All(toHost', HostLine \ Stopped) /\ All(toHost', HostLine \ Pong)
    BY <1>3, <1>4, <2>1
  <2>3. Ends(toHost', Stopped)
    BY <2>2, EndsNone
  <2> QED
    BY <1>1, <2>2, <2>3 DEF SessionInv, Halting, StopLast, Agree, Lapsed, client
<1>9. Recovering'
  <2>1. Activation => Activation'
    BY <1>1, <1>3, <1>4 DEF Activation, NoFrame
  <2>2. step \in {"recover_stop", "recover_reset"} => NoActivation(toController) \/ Activation
    BY DEF SessionInv, Recovering
  <2>3. step \notin {"recover_ready", "recover_ping"}
    BY <1>1 DEF SessionInv, Recovering
  <2>4. step \in {"recover_stop", "recover_reset", "recover_ready"} /\ call \in {"command", "profile"} =>
         All(toController, ControllerLine \ {Legacy("ping")}) /\ All(toHost, HostLine \ Pong)
    BY DEF SessionInv, Recovering
  <2> QED
    BY <1>1, <1>3, <1>4, <2>1, <2>2, <2>3, <2>4 DEF Recovering, client
<1> QED
  BY <1>1, <1>5, <1>6, <1>7, <1>8, <1>9 DEF SessionInv

\* The line that was written last and is the only one: the client's, or garbled.
LEMMA OneLine ==
  ASSUME NEW x, toController \in {<<x>>, <<Noise>>}
  PROVE  /\ toController # <<>> /\ Tail(toController) = <<>>
         /\ Head(toController) = x \/ Head(toController) = Noise
<1>1. \A y : <<y>> # <<>> /\ Tail(<<y>>) = <<>> /\ Head(<<y>>) = y
  BY SMT
<1> QED
  BY <1>1

\* The commands of an activation are no frames, and differ.
LEMMA BareIs ==
  /\ \A t : Legacy(t) \notin Framed
  /\ \A a, b : a # b => Legacy(a) # Legacy(b)
BY LegacyIs, Kinds

\* In v1 the controller answers the client's bare command with one plain line.
LEMMA AskingHandled ==
  ASSUME LineTypes, Handled(Head(toController)), toController # <<>>,
         toController' = Tail(toController),
         step \in {"barrier", "discover", "activate"}, Asking, UNCHANGED client, UNCHANGED restarted
  PROVE  Asking'
<1> DEFINE x == Head(toController)
<1>0. toHost \in Seq(HostLine) /\ mode' \in {"v1", "v2"}
  BY DEF LineTypes, Handled, ControllerTypes
<1>1. /\ mode = "v1" /\ ~crc /\ active = 0 /\ All(toHost, Quiet) /\ Tail(toController) = <<>>
      /\ x # Legacy("stop") /\ x \notin Framed
      /\ step # "activate" => x # Legacy("protocol:2")
  BY OneLine, BareIs, NoiseIs, SMT DEF Asking, Exchange, Fresh
<1> HIDE DEF x
<1>2. active' = 0 /\ ~crc' /\ (x # Legacy("protocol:2") => mode' = "v1")
  <2>1. active' = 0 /\ ~crc'
    BY <1>1 DEF Handled, x
  <2>2. x # Legacy("protocol:2") => mode' = mode
    BY <1>1 DEF Handled, x
  <2> QED
    BY <1>1, <2>1, <2>2
<1>3. PICK out \in Seq(HostLine) :
        /\ toHost' = toHost \o out
        /\ All(out, HostLine \ Stopped) /\ All(out, Spoken) /\ Ends(out, Spoken)
        /\ mode' = "v2" \/ All(out, HostLine \ {Plain(Activated)})
  BY <1>1 DEF Handled, x
<1>4. /\ All(toHost, HostLine \ Spoken) /\ All(toHost, Quiet \cup (Spoken \ Stopped))
      /\ All(toHost, HostLine \ {Plain(Activated)})
  BY <1>1, QuietIs, AllWeaken
<1>5. All(out, Quiet \cup (Spoken \ Stopped))
  BY <1>3 DEF All
<1>6. Ends(toHost, Spoken)
  BY <1>4, EndsNone
<1>7. /\ All(toHost', Quiet \cup (Spoken \ Stopped)) /\ Ends(toHost', Spoken)
      /\ mode' = "v2" \/ All(toHost', HostLine \ {Plain(Activated)})
  <2>1. All(toHost', Quiet \cup (Spoken \ Stopped))
    BY <1>0, <1>3, <1>4, <1>5, AllConcat
  <2>2. Ends(toHost', Spoken)
    BY <1>0, <1>3, <1>4, <1>6, EndsMore
  <2>3. mode' = "v2" \/ All(toHost', HostLine \ {Plain(Activated)})
    BY <1>0, <1>3, <1>4, AllConcat
  <2> QED
    BY <2>1, <2>2, <2>3
<1> QED
  BY <1>1, <1>2, <1>7 DEF Asking, Fresh, Exchange, client

\* The controller takes the outstanding request, and answers it as its own.
LEMMA RequestHandled ==
  ASSUME LineTypes, ClientTypes, Handled(Head(toController)), toController # <<>>,
         toController' = Tail(toController),
         step = "request", Requesting, UNCHANGED client, UNCHANGED restarted
  PROVE  Requesting'
<1> DEFINE x == Head(toController)
           f == Frame(request.id, request.command, protected)
<1>0. toHost \in Seq(HostLine) /\ mode \in {"v1", "v2"} /\ ControllerTypes'
  BY DEF LineTypes, Handled, ControllerTypes
<1>a. /\ f \in Framed /\ f.own /\ f.id = request.id /\ f.command = request.command
      /\ f # Legacy("stop") /\ f # Legacy("ping")
  <2>1. request.id \in 1..MaxId /\ request.command \in Sent /\ protected \in BOOLEAN
    BY DEF ClientTypes
  <2>2. f \in Framed /\ f.own /\ f.id = request.id /\ f.command = request.command
    BY <2>1 DEF Framed, Frame
  <2> QED
    BY <2>2, BareIs
<1> HIDE DEF f
<1>1. /\ active = 0 /\ All(toHost, Quiet) /\ Tail(toController) = <<>>
      /\ x = f \/ x = Noise
      /\ session = "v2" /\ Agree
  <2>1. Exchange(f) /\ session = "v2" /\ Agree
    BY DEF Requesting, f
  <2>2. toController \in {<<f>>, <<Noise>>} /\ active = 0 /\ All(toHost, Quiet)
    BY <2>1 DEF Exchange
  <2> QED
    BY <2>1, <2>2, OneLine, SMT
<1> HIDE DEF x
<1>2. x # Legacy("stop") /\ x # Legacy("ping") /\ x # Legacy("protocol:2")
  BY <1>1, <1>a, BareIs, NoiseIs
<1>3. /\ request.command \notin Boundary \/ x = Noise \/ mode = "v1" => mode' = mode /\ crc' = crc
      /\ request.command \notin Motion => active' = 0
  BY <1>1, <1>2, <1>a, NoiseIs DEF Handled, x
<1>4. /\ \A S : (\A l \in Quiet : l \in S) => All(toHost, S)
      /\ Ends(toHost, Spoken \cup Final) /\ All(toHost, HostLine \ (Spoken \cup Final))
      /\ All(toHost, HostLine \ Done) /\ All(toHost, Meets(request.id))
  <2>1. \A S : (\A l \in Quiet : l \in S) => All(toHost, S)
    BY <1>1, AllWeaken
  <2>2. /\ All(toHost, HostLine \ (Spoken \cup Final)) /\ All(toHost, HostLine \ Done)
        /\ All(toHost, Meets(request.id))
    BY <2>1, QuietIs
  <2> QED
    BY <2>1, <2>2, EndsNone
<1>5. \E out \in Seq(HostLine) :
        /\ toHost' = toHost \o out /\ All(out, Meets(request.id))
        /\ Ends(out, Spoken \cup Final)
        /\ active' = 0 \/ (job'.own /\ All(out, HostLine \ (Spoken \cup Final)))
        /\ request.command \in Boundary =>
             Crossed(request.command, mode', crc') \/ All(out, HostLine \ Done)
  <2>1. PICK out \in Seq(HostLine) :
         /\ toHost' = toHost \o out
         /\ All(out, HostLine \ Stopped) /\ All(out, HostLine \ Pong)
         /\ mode = "v1" => All(out, Spoken) /\ Ends(out, Spoken \cup Final)
         /\ x = Noise /\ mode = "v2" => All(out, Quiet)
         /\ x \in Framed /\ mode = "v2" /\ x.own /\ active = 0 =>
              /\ All(out, Quiet \cup {r \in Response : r.own \/ r.id # x.id})
              /\ Ends(out, Spoken \cup Final)
              /\ active' = 0 \/ (job'.own /\ All(out, HostLine \ (Spoken \cup Final)))
              /\ x.command \in Boundary =>
                   Crossed(x.command, mode', crc') \/ All(out, HostLine \ Done)
    BY <1>2 DEF Handled, x
  <2>2. CASE mode = "v1"
    <3>1. active' = 0
      BY <1>1, <2>2 DEF Handled, x
    <3>2. All(out, Meets(request.id))
      BY <2>1, <2>2 DEF All, Meets
    <3>3. All(out, HostLine \ Done)
      BY <2>1, <2>2, LinesApart DEF All, Done, HostLine
    <3> QED
      BY <2>1, <2>2, <3>1, <3>2, <3>3
  <2>3. CASE mode = "v2" /\ x = Noise
    <3>1. active' = 0
      BY <1>1, <2>3, NoiseIs DEF Handled, x
    <3>2. /\ All(out, Meets(request.id)) /\ All(out, HostLine \ Done)
          /\ All(out, HostLine \ (Spoken \cup Final))
      BY <2>1, <2>3, QuietIs, AllWeaken
    <3> QED
      BY <2>1, <3>1, <3>2, EndsNone
  <2>4. CASE mode = "v2" /\ x = f
    <3>1. All(out, Quiet \cup {r \in Response : r.own \/ r.id # request.id})
      BY <1>1, <1>a, <2>1, <2>4
    <3>2. All(out, Meets(request.id))
      BY <3>1 DEF All, Meets
    <3> QED
      BY <1>1, <1>a, <2>1, <2>4, <3>2
  <2> QED
    BY <1>0, <1>1, <2>2, <2>3, <2>4
<1>6. /\ All(toHost', Meets(request.id)) /\ Ends(toHost', Spoken \cup Final)
      /\ active' = 0 \/ (job'.own /\ All(toHost', HostLine \ (Spoken \cup Final)))
      /\ request.command \in Boundary =>
           Crossed(request.command, mode', crc') \/ All(toHost', HostLine \ Done)
  BY <1>0, <1>4, <1>5, AllConcat, EndsMore
<1>7. request.command \notin Boundary => Agree'
  BY <1>1, <1>3 DEF Agree, Lapsed, client
<1>8. active' # 0 => request.command \notin Boundary
  <2>1. \A c \in Boundary : c \notin Motion
    BY DEF Boundary, Motion, Home
  <2> QED
    BY <1>3, <2>1
<1> QED
  BY <1>1, <1>6, <1>7, <1>8 DEF Requesting, Exchange, client

\* The controller works off what the client sent before its stop, and the stop.
LEMMA HaltingHandled ==
  ASSUME LineTypes, Handled(Head(toController)), toController # <<>>,
         toController' = Tail(toController),
         step = "stop", Halting, UNCHANGED client, UNCHANGED restarted
  PROVE  Halting'
<1> DEFINE x == Head(toController)
           Kept == {Noise, Legacy("stop")} \cup {f \in Framed : f.command \in Motion}
<1>0. toHost \in Seq(HostLine) /\ toController \in Seq(ControllerLine) /\ mode \in {"v1", "v2"}
  BY DEF LineTypes, ControllerTypes
<1>1. /\ All(toController, Kept) /\ StopLast
      /\ All(toHost, HostLine \ Stopped) /\ All(toHost, HostLine \ Pong)
      /\ session # "uncertain" /\ (session = "v1" => ~protected) /\ Agree
  BY DEF Halting
<1> HIDE DEF Kept
<1>2. x \in Kept /\ All(Tail(toController), Kept)
  BY <1>0, <1>1, AllTail
<1>3. /\ OnlyLast(Tail(toController), Legacy("stop"))
      /\ x = Legacy("stop") => Tail(toController) = <<>>
  BY <1>0, <1>1, OnlyLastTail DEF StopLast
<1>4. x # Legacy("ping") /\ x # Legacy("protocol:2")
      /\ (x \in Framed => x.command \notin Boundary)
  <2>1. \A c \in Boundary : c \notin Motion
    BY DEF Boundary, Motion, Home
  <2>2. CASE x \in {Noise, Legacy("stop")}
    BY <2>2, BareIs, NoiseIs
  <2>3. CASE x \in Framed /\ x.command \in Motion
    BY <2>1, <2>3, BareIs
  <2> QED
    BY <1>2, <2>2, <2>3 DEF Kept
<1> HIDE DEF x
<1>5. mode' = mode /\ crc' = crc /\ (x = Legacy("stop") => active' = 0)
  BY <1>0, <1>4 DEF Handled, x
<1>6. PICK out \in Seq(HostLine) :
         /\ toHost' = toHost \o out
         /\ x # Legacy("stop") => All(out, HostLine \ Stopped)
         /\ All(out, HostLine \ Pong) /\ Ends(out, Stopped)
  BY <1>4 DEF Handled, x
<1>7. All(toHost', HostLine \ Pong)
  BY <1>0, <1>1, <1>6, AllConcat
<1>8. x # Legacy("stop") => All(toHost', HostLine \ Stopped)
  BY <1>0, <1>1, <1>6, AllConcat
<1>9. Ends(toHost', Stopped)
  <2>1. Ends(toHost, Stopped)
    BY <1>1, EndsNone
  <2> QED
    BY <1>0, <1>1, <1>6, <2>1, EndsMore
<1>10. (active' = 0 /\ toController' = <<>>) \/ All(toHost', HostLine \ Stopped)
  BY <1>3, <1>5, <1>8
<1>11. Agree'
  BY <1>1, <1>5 DEF Agree, Lapsed, client
<1> QED
  BY <1>1, <1>2, <1>3, <1>7, <1>9, <1>10, <1>11 DEF Halting, StopLast, Kept, client

\* After a stop or a reset, a controller that an old activation may still reach
\* answers no ping before it does.
LEMMA RecoveringHandled ==
  ASSUME LineTypes, Handled(Head(toController)), toController # <<>>,
         toController' = Tail(toController), Recovering, UNCHANGED client
  PROVE  Recovering'
<1> DEFINE x == Head(toController)
           Other == ControllerLine \ {Legacy("protocol:2")}
<1>0. /\ toHost \in Seq(HostLine) /\ toController \in Seq(ControllerLine)
      /\ mode \in {"v1", "v2"} /\ mode' \in {"v1", "v2"}
  BY DEF LineTypes, ControllerTypes, Handled
<1>1. /\ step \in {"recover_stop", "recover_reset"} => NoActivation(toController) \/ Activation
      /\ step \in {"recover_ready", "recover_ping"} =>
         /\ ~crc /\ active = 0
         /\ \/ mode = "v1" /\ NoActivation(toController)
            \/ mode = "v1" /\ Activation
            \/ mode = "v2" /\ NoActivation(toController) /\ NoFrame /\ All(toHost, HostLine \ Pong)
      /\ step \in {"recover_stop", "recover_reset", "recover_ready"} /\ call \in {"command", "profile"} =>
         All(toController, ControllerLine \ {Legacy("ping")}) /\ All(toHost, HostLine \ Pong)
      /\ step = "recover_ping" /\ call \in {"command", "profile"} =>
         /\ OnlyLast(toController, Legacy("ping"))
         /\ toController = <<>> \/ All(toHost, HostLine \ Pong)
         /\ Ends(toHost, Pong)
  BY DEF Recovering
<1>2. /\ NoActivation(toController) => x # Legacy("protocol:2") /\ NoActivation(Tail(toController))
      /\ Activation => NoActivation(Tail(toController))
      /\ NoFrame => x \notin Framed /\ All(Tail(toController), ControllerLine \ Framed)
      /\ All(toController, ControllerLine \ {Legacy("ping")}) =>
           x # Legacy("ping") /\ All(Tail(toController), ControllerLine \ {Legacy("ping")})
      /\ OnlyLast(toController, Legacy("ping")) =>
           /\ OnlyLast(Tail(toController), Legacy("ping"))
           /\ x = Legacy("ping") => Tail(toController) = <<>>
  BY <1>0, AllTail, OnlyLastTail DEF NoActivation, NoFrame, Activation
<1>a. Activation => NoFrame /\ All(toHost, HostLine \ Pong)
  BY DEF Activation
<1>3. PICK out \in Seq(HostLine) :
         /\ toHost' = toHost \o out
         /\ x # Legacy("ping") \/ mode = "v2" => All(out, HostLine \ Pong)
         /\ Ends(out, Pong)
  BY DEF Handled
<1>4. All(toHost, HostLine \ Pong) /\ (x # Legacy("ping") \/ mode = "v2") =>
        All(toHost', HostLine \ Pong)
  BY <1>0, <1>3, AllConcat
<1>5. All(toHost, HostLine \ Pong) => Ends(toHost', Pong)
  <2>1. All(toHost, HostLine \ Pong) => Ends(toHost, Pong)
    BY EndsNone
  <2> QED
    BY <1>0, <1>3, <2>1, EndsMore
<1>6. /\ active = 0 /\ (mode = "v1" \/ x \notin Framed) => active' = 0
      /\ ~crc /\ (mode = "v1" \/ x \notin Framed) => ~crc'
      /\ x \notin Framed /\ (mode = "v2" \/ x # Legacy("protocol:2")) => mode' = mode
      /\ x \in Framed /\ mode = "v1" => mode' = mode
  BY DEF Handled
<1>b. Legacy("ping") # Legacy("protocol:2") /\ Legacy("ping") \notin Framed
  BY BareIs
<1> HIDE DEF x
<1>7. step \in {"recover_stop", "recover_reset"} => NoActivation(toController')
  BY <1>1, <1>2
<1>8. ASSUME step \in {"recover_ready", "recover_ping"}
      PROVE  /\ ~crc' /\ active' = 0 /\ NoActivation(toController')
             /\ mode' = "v1" \/ (NoFrame' /\ All(toHost', HostLine \ Pong))
  <2>1. ~crc /\ active = 0 /\ (mode = "v1" \/ x \notin Framed) /\ NoActivation(Tail(toController))
    BY <1>1, <1>2, <1>8
  <2>2. ~crc' /\ active' = 0
    BY <1>6, <2>1
  <2>3. CASE mode = "v1" /\ NoActivation(toController)
    BY <1>2, <1>6, <2>1, <2>2, <2>3
  <2>4. CASE mode = "v1" /\ Activation
    <3>1. All(Tail(toController), ControllerLine \ Framed) /\ x \notin Framed
      BY <1>2, <1>a, <2>4
    <3>2. CASE x = Legacy("ping")
      BY <1>6, <1>b, <2>1, <2>2, <2>4, <3>1, <3>2
    <3>3. CASE x # Legacy("ping")
      BY <1>4, <1>a, <2>1, <2>2, <2>4, <3>1, <3>3 DEF NoFrame
    <3> QED
      BY <3>2, <3>3
  <2>5. CASE mode = "v2" /\ NoActivation(toController) /\ NoFrame /\ All(toHost, HostLine \ Pong)
    BY <1>2, <1>4, <2>1, <2>2, <2>5 DEF NoFrame
  <2> QED
    BY <1>1, <1>8, <2>3, <2>4, <2>5
<1>9. step \in {"recover_stop", "recover_reset", "recover_ready"} /\ call \in {"command", "profile"} =>
         All(toController', ControllerLine \ {Legacy("ping")}) /\ All(toHost', HostLine \ Pong)
  BY <1>1, <1>2, <1>4
<1>10. step = "recover_ping" /\ call \in {"command", "profile"} =>
         /\ OnlyLast(toController', Legacy("ping"))
         /\ toController' = <<>> \/ All(toHost', HostLine \ Pong)
         /\ Ends(toHost', Pong)
  BY <1>1, <1>2, <1>4, <1>5
<1> QED
  BY <1>0, <1>7, <1>8, <1>9, <1>10 DEF Recovering, client

\* Handling a line preserves the invariant.
LEMMA HandleStep ==
  ASSUME SessionInv, UNCHANGED client, HandleLine \/ HandleAdversely
  PROVE  SessionInv'
<1>1. LineTypes
  BY DEF SessionInv
<1>2. /\ toController # <<>> /\ toController' = Tail(toController)
      /\ Handled(Head(toController)) /\ LineTypes' /\ UNCHANGED restarted
  BY <1>1, LineHandled
<1>3. ClientTypes'
  BY DEF SessionInv, ClientTypes, client
<1>4. step \notin {"ready", "idle"}
  BY <1>2 DEF SessionInv, Greeting, Idle
<1>5. Greeting' /\ Idle'
  BY <1>4 DEF Greeting, Idle, client
<1>6. Asking'
  <2>1. CASE step \in {"barrier", "discover", "activate"}
    BY <1>1, <1>2, <2>1, AskingHandled DEF SessionInv
  <2>2. CASE step \notin {"barrier", "discover", "activate"}
    BY <2>2 DEF Asking, client
  <2> QED
    BY <2>1, <2>2
<1>7. Requesting'
  <2>1. CASE step = "request"
    BY <1>1, <1>2, <2>1, RequestHandled DEF SessionInv
  <2>2. CASE step # "request"
    BY <2>2 DEF Requesting, client
  <2> QED
    BY <2>1, <2>2
<1>8. Halting'
  <2>1. CASE step = "stop"
    BY <1>1, <1>2, <2>1, HaltingHandled DEF SessionInv
  <2>2. CASE step # "stop"
    BY <2>2 DEF Halting, client
  <2> QED
    BY <2>1, <2>2
<1>9. Recovering'
  BY <1>1, <1>2, RecoveringHandled DEF SessionInv
<1> QED
  BY <1>2, <1>3, <1>5, <1>6, <1>7, <1>8, <1>9 DEF SessionInv

\* Whatever happens at the other end of the line preserves the invariant.
LEMMA ControllerStep ==
  ASSUME SessionInv, UNCHANGED client, ControllerNext
  PROVE  SessionInv'
<1>1. faults \in Nat
  BY DEF SessionInv, LineTypes
<1>2. CASE LineFault
  <2>1. faults' \in Nat /\ UNCHANGED <<controller, restarted>>
    BY <1>1, <1>2, SMT DEF LineFault
  <2>2. CASE toHost # <<>> /\ UNCHANGED toController
             /\ toHost' \in {Tail(toHost), <<Noise>> \o Tail(toHost)}
    BY <2>1, <2>2, HostFaultStep
  <2>3. CASE toController # <<>> /\ UNCHANGED toHost
             /\ toController' \in {Tail(toController), <<Noise>> \o Tail(toController)}
    BY <2>1, <2>3, ControllerFaultStep
  <2> QED
    BY <1>2, <2>2, <2>3 DEF LineFault
<1> QED
  BY <1>2, BrownoutStep, HandleStep, CallbackStep DEF ControllerNext

-----------------------------------------------------------------------------
(* What the client's steps have in common *)

\* Lines that answer nothing belong to no request, so nothing on them goes stale.
LEMMA StaleQuiet ==
  /\ Stale(<<>>) = <<>>
  /\ \A s \in Seq(HostLine) : All(s, Quiet) => Stale(s) = s
<1>1. Stale(<<>>) = <<>>
  BY SMT DEF Stale
<1>2. ASSUME NEW s \in Seq(HostLine), All(s, Quiet) PROVE Stale(s) = s
  <2>1. \A l \in Quiet : l.kind \notin {"frame", "response"}
    BY Kinds DEF Quiet
  <2>2. \A i \in DOMAIN s : s[i].kind \notin {"frame", "response"}
    BY <1>2, <2>1 DEF All
  <2>3. Stale(s) = [i \in DOMAIN s |-> s[i]]
    BY <2>2 DEF Stale
  <2> QED
    BY <2>3, SMT
<1> QED
  BY <1>1, <1>2

\* Only one of the conjuncts is about the step the client is in.
LEMMA Silent ==
  /\ step' # "ready" => Greeting'
  /\ step' \notin {"barrier", "discover", "activate"} => Asking'
  /\ step' # "request" => Requesting'
  /\ step' # "idle" => Idle'
  /\ step' # "stop" => Halting'
  /\ step' \notin {"recover_stop", "recover_reset", "recover_ready", "recover_ping"} => Recovering'
BY DEF Greeting, Asking, Requesting, Idle, Halting, Recovering

\* What a step of the client leaves alone at the other end.
ControllerStays == UNCHANGED <<mode, crc, active, job, feedHomed, sortHomed, sequence, restarted>>

\* The lines after a step of the client.
LEMMA LinesStay ==
  ASSUME LineTypes, ControllerStays, toController' \in Seq(ControllerLine),
         toHost' \in Seq(HostLine), faults' \in Nat
  PROVE  LineTypes'
BY DEF LineTypes, ControllerTypes, ControllerStays

\* One line fewer: what held of the lines to the host still does.
LEMMA Consumed ==
  ASSUME LineTypes, toHost # <<>>, toHost' = Tail(toHost)
  PROVE  /\ toHost' \in Seq(HostLine)
         /\ \A S : All(toHost, S) => Head(toHost) \in S /\ All(toHost', S)
         /\ \A S : Ends(toHost, S) => Ends(toHost', S)
         /\ \A S : Ends(toHost, S) /\ Head(toHost) \in S => All(toHost', Quiet)
<1>1. toHost \in Seq(HostLine)
  BY DEF LineTypes
<1>2. Tail(toHost) \in Seq(HostLine)
  BY <1>1, SMT
<1> QED
  BY <1>1, <1>2, AllTail, EndsTail

\* One line more to the controller.
LEMMA Written ==
  ASSUME LineTypes, NEW line \in ControllerLine, toController' = Append(toController, line)
  PROVE  /\ toController' \in Seq(ControllerLine) /\ toController' # <<>>
         /\ \A S : All(toController, S) /\ line \in S => All(toController', S)
         /\ All(toController, ControllerLine \ {line}) => OnlyLast(toController', line)
         /\ toController = <<>> => toController' = <<line>>
         /\ toController # <<>> => Tail(toController') = Append(Tail(toController), line)
<1>1. toController \in Seq(ControllerLine)
  BY DEF LineTypes
<1>2. toController' \in Seq(ControllerLine) /\ toController' # <<>>
  BY <1>1, SMT
<1>3. toController = <<>> => toController' = <<line>>
  BY SMT
<1>4. toController # <<>> => Tail(toController') = Append(Tail(toController), line)
  <2> SUFFICES ASSUME toController # <<>>
               PROVE  Tail(Append(toController, line)) = Append(Tail(toController), line)
    OBVIOUS
  <2> QED
    BY <1>1, SMT
<1> QED
  BY <1>1, <1>2, <1>3, <1>4, AllAppend, OnlyLastAppend
=============================================================================
