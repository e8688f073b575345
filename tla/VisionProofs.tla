---------------------------- MODULE VisionProofs ----------------------------
(***************************************************************************)
(* The vision service keeps its records straight for every capacity, page  *)
(* limit, routing profile and bound: a label is the closest frame, a       *)
(* suggestion is sorted once, an attempt names its own sort, a dynamic run *)
(* gives two classes two chutes, and outcomes pair sorts and suggestions.  *)
(*                                                                         *)
(* The inductive invariant has one part per loop.  FramesInv: the buffer   *)
(* is the newest stretch of everything captured, so that what it no longer *)
(* holds is older than what it holds.  AutonomyInv: an idempotency key is  *)
(* the suggestion, and a tick holds a suggestion that was not attempted.   *)
(* RoutingInv: every suggestion of the current run has its claim.          *)
(* OutcomesInv: an operation is matched only in the tick that labels it.   *)
(***************************************************************************)
EXTENDS Vision, TLAPS

\* Zenon proves most leaves; those that need arithmetic or sequences cite SMT.
USE Zenon

\* The rows of the stores, and what a tick of each loop holds.
SortRow == [created : Nat, slot : Slot, key : Nat, by : Nat,
            state : {"accepted", "succeeded", "failed"}]
SuggestionRow == [class : Slot, slot : Slot, confidence : Nat,
                  primer : {"unknown", "clear", "present"}, run : Nat, at : Nat]
RoutedTick == [stage : {"routed"}, class : Slot, slot : Slot, confidence : Nat,
               primer : {"unknown", "clear", "present"}, run : Nat]
PageTick == [stage : {"page", "label"}, page : Seq(Nat) \ {<<>>}]
DecidedTick == [stage : {"decided"}, suggestion : Nat]
ReadyTick == [stage : {"ready"}, suggestion : Nat, fresh : BOOLEAN]
AnsweredTick == [stage : {"answered"}, suggestion : Nat, operation : Nat]
AttemptRow == [suggestion : Nat, operation : Nat]

\* The types of what the properties are about.
VisionTypes ==
    /\ clock \in Nat
    /\ sorts \in Seq(SortRow)
    /\ buffer \in Seq(Nat) /\ captured \subseteq Nat
    /\ examples \subseteq [operation : Nat, frame : Nat]
    /\ suggestions \in Seq(SuggestionRow)
    /\ outcomes \subseteq AttemptRow
    /\ attempts \in Seq(AttemptRow)
    /\ profile \in Profile \cup {NoProfile}
    /\ claimed \in Seq(Slot) /\ runs \in Nat
    /\ suggester \in RoutedTick \cup {Idle}
    /\ correlator \in PageTick \cup {Idle}
    /\ autonomist \in DecidedTick \cup ReadyTick \cup AnsweredTick \cup {Idle}

\* Some frame of the buffer is the newest at or before any moment that has one.
HasClosest ==
    \A moment \in Nat :
        (\E i \in DOMAIN buffer : buffer[i] <= moment) =>
        \E i \in DOMAIN buffer :
            /\ buffer[i] <= moment
            /\ \A j \in DOMAIN buffer : buffer[j] <= moment => buffer[j] <= buffer[i]

\* The buffer is increasing and the newest stretch of what was captured.
NewestStretch ==
    /\ \A i \in DOMAIN buffer : buffer[i] \in captured
    /\ \A i, j \in DOMAIN buffer : i < j => buffer[i] < buffer[j]
    /\ \A f \in captured : \A i \in DOMAIN buffer :
          buffer[i] <= f => \E j \in DOMAIN buffer : buffer[j] = f

\* Frames and labels.
FramesInv ==
    /\ \A f \in captured : 1 <= f /\ f <= clock
    /\ NewestStretch
    /\ HasClosest
    /\ \A o \in DOMAIN sorts : sorts[o].created <= clock
    /\ correlator # Idle =>
          \A i \in DOMAIN correlator.page : correlator.page[i] \in Succeeded
    /\ LabelIsClosestFrame

\* An autonomous sort is of a suggestion that passed the gate, and is its only sort.
SortsOnce ==
    /\ \A o \in DOMAIN sorts : sorts[o].key = sorts[o].by
    /\ \A o \in DOMAIN sorts : sorts[o].by # 0 =>
          /\ sorts[o].by \in DOMAIN suggestions
          /\ MayAutonomouslySort(suggestions[sorts[o].by])
          /\ suggestions[sorts[o].by].slot = sorts[o].slot
    /\ \A o, p \in DOMAIN sorts : sorts[o].by # 0 /\ sorts[p].by = sorts[o].by => p = o

\* Autonomous sorts and their attempts.
AutonomyInv ==
    /\ SortsOnce
    /\ autonomist # Idle =>
          /\ autonomist.suggestion \in DOMAIN suggestions
          /\ MayAutonomouslySort(suggestions[autonomist.suggestion])
          /\ ~Attempted(autonomist.suggestion)
    /\ autonomist.stage = "answered" =>
          /\ autonomist.operation \in DOMAIN sorts
          /\ sorts[autonomist.operation].by = autonomist.suggestion
    /\ \A i \in DOMAIN attempts : attempts[i].operation \in DOMAIN sorts
    /\ AttemptsAreTheirSorts

\* A run with chutes claimed as classes appear.
DynamicRun == profile # NoProfile /\ profile.kind = "dynamic"

\* The class has claimed the chute in the current run.
HasClaim(class, slot) ==
    \E i \in DOMAIN claimed : claimed[i] = class /\ profile.slots[i] = slot

\* Claims and chutes.
RoutingInv ==
    /\ profile # NoProfile => runs > 0
    /\ DynamicRun => /\ Len(claimed) <= Len(profile.slots)
                  /\ \A i, j \in DOMAIN claimed : claimed[i] = claimed[j] => i = j
    /\ \A s \in DOMAIN suggestions :
          /\ suggestions[s].run <= runs
          /\ DynamicRun /\ suggestions[s].run = runs =>
                HasClaim(suggestions[s].class, suggestions[s].slot)
    /\ suggester # Idle =>
          /\ suggester.run <= runs
          /\ DynamicRun /\ suggester.run = runs => HasClaim(suggester.class, suggester.slot)
          /\ \A s \in DOMAIN suggestions :
                /\ suggester.run # 0 /\ suggestions[s].run = suggester.run
                /\ suggestions[s].slot = suggester.slot
                => suggestions[s].class = suggester.class
    /\ ChutesAreNotShared

\* Outcomes and labels.
OutcomesInv ==
    /\ \A m \in outcomes : /\ m.suggestion \in DOMAIN suggestions
                           /\ m.operation \in DOMAIN sorts
                           /\ Labelled(m.operation)
    /\ correlator.stage = "label" =>
          /\ Labelled(Head(correlator.page))
          /\ \A m \in outcomes : m.operation # Head(correlator.page)
    /\ OutcomesPairUp

\* The inductive invariant.
VisionInv == VisionTypes /\ FramesInv /\ AutonomyInv /\ RoutingInv /\ OutcomesInv

-----------------------------------------------------------------------------
(* Types *)

\* Rows are appended and changed in place within their type.
LEMMA Appended ==
    ASSUME NEW S, NEW s \in Seq(S), NEW e \in S
    PROVE  /\ Append(s, e) \in Seq(S)
           /\ Len(Append(s, e)) = Len(s) + 1
           /\ DOMAIN s = 1..Len(s)
           /\ DOMAIN Append(s, e) = DOMAIN s \cup {Len(s) + 1}
           /\ \A i \in DOMAIN s : Append(s, e)[i] = s[i]
           /\ Append(s, e)[Len(s) + 1] = e
  BY SMT

\* A page that is not empty can be held by a tick.
LEMMA Holds ==
    ASSUME NEW page \in Seq(Nat) \ {<<>>}
    PROVE  [stage |-> "page", page |-> page] \in PageTick
  <1> DEFINE Pages == Seq(Nat) \ {<<>>}
  <1>1. page \in Pages
    OBVIOUS
  <1> HIDE DEF Pages
  <1>2. [stage |-> "page", page |-> page] \in [stage : {"page", "label"}, page : Pages]
    BY <1>1
  <1> QED BY <1>2 DEF PageTick, Pages

\* The fields of the rows.
LEMMA Rows ==
    ASSUME VisionTypes
    PROVE  /\ DOMAIN sorts \subseteq Nat /\ Len(sorts) \in Nat
           /\ \A o \in DOMAIN sorts :
                 /\ sorts[o] \in SortRow /\ sorts[o].created \in Nat /\ sorts[o].slot \in Slot
                 /\ sorts[o].key \in Nat /\ sorts[o].by \in Nat
           /\ DOMAIN suggestions \subseteq Nat /\ Len(suggestions) \in Nat
           /\ \A s \in DOMAIN suggestions :
                 /\ suggestions[s].class \in Slot /\ suggestions[s].slot \in Slot
                 /\ suggestions[s].run \in Nat /\ suggestions[s].at \in Nat
  <1>1. \A o \in DOMAIN sorts : sorts[o] \in SortRow
    BY SMT DEF VisionTypes
  <1>2. \A s \in DOMAIN suggestions : suggestions[s] \in SuggestionRow
    BY SMT DEF VisionTypes
  <1>3. /\ DOMAIN sorts \subseteq Nat /\ Len(sorts) \in Nat
        /\ DOMAIN suggestions \subseteq Nat /\ Len(suggestions) \in Nat
    BY SMT DEF VisionTypes
  <1> QED BY <1>1, <1>2, <1>3 DEF SortRow, SuggestionRow

\* What is left of a page is a page, or nothing.
LEMMA Turned ==
    ASSUME NEW page \in Seq(Nat), page # <<>>
    PROVE  /\ Turn(Tail(page)) \in PageTick \cup {Idle}
           /\ Turn(Tail(page)).stage # "label"
           /\ Turn(Tail(page)) # Idle =>
                 \A i \in DOMAIN Turn(Tail(page)).page :
                    \E j \in DOMAIN page : Turn(Tail(page)).page[i] = page[j]
  <1>1. CASE Tail(page) = <<>>
    BY <1>1 DEF Turn, Idle
  <1>2. CASE Tail(page) # <<>>
    <2>1. Turn(Tail(page)) = [stage |-> "page", page |-> Tail(page)]
      BY <1>2 DEF Turn
    <2>2. Tail(page) \in Seq(Nat) \ {<<>>}
      BY <1>2, SMT
    <2>3. \A i \in DOMAIN Tail(page) : i + 1 \in DOMAIN page /\ Tail(page)[i] = page[i + 1]
      BY SMT
    <2>4. Turn(Tail(page)) \in PageTick
      BY <2>1, <2>2, Holds
    <2>5. Turn(Tail(page)).stage = "page" /\ Turn(Tail(page)).page = Tail(page)
      BY <2>1, SMT
    <2> QED BY <2>3, <2>4, <2>5
  <1> QED BY <1>1, <1>2

\* The profiles of validate_profile, apart from no profile at all.
LEMMA Profiles ==
    /\ NoProfile \notin Profile
    /\ \A p \in Profile :
          \/ /\ p.kind = "fixed" /\ p.kind # "dynamic"
             /\ p.overflow \in Slot /\ \A c \in DOMAIN p.map : p.map[c] \in Slot
          \/ /\ p.kind = "dynamic" /\ p.slots \in Seq(Slot)
             /\ \A i, j \in DOMAIN p.slots : p.slots[i] = p.slots[j] => i = j
  <1>1. \A p \in Profile : p.kind = "fixed" \/ p.kind = "dynamic"
    BY VisionAssumption
  <1>2. NoProfile.kind = "none"
    BY DEF NoProfile
  <1> QED BY <1>1, <1>2, VisionAssumption

\* RoutingSession.route's three cases.
LEMMA Routes ==
    ASSUME NEW class
    PROVE  /\ profile = NoProfile => Route(class) = {[slot |-> class, claimed |-> claimed]}
           /\ DynamicRun => Route(class) = RouteDynamically(class)
           /\ profile # NoProfile /\ ~DynamicRun =>
                 Route(class) =
                     {[slot |-> IF class \in DOMAIN profile.map THEN profile.map[class]
                                ELSE profile.overflow,
                       claimed |-> claimed]}
  <1>1. NoProfile.kind # "dynamic"
    BY DEF NoProfile
  <1>2. profile = NoProfile => Route(class) = {[slot |-> class, claimed |-> claimed]}
    BY <1>1 DEF Route
  <1>3. DynamicRun => Route(class) = RouteDynamically(class)
    BY DEF Route, DynamicRun
  <1>4. profile # NoProfile /\ ~DynamicRun =>
           Route(class) =
               {[slot |-> IF class \in DOMAIN profile.map THEN profile.map[class]
                          ELSE profile.overflow,
                 claimed |-> claimed]}
    BY DEF Route, DynamicRun
  <1> QED BY <1>2, <1>3, <1>4

\* A dynamic run gives a class the chute it claimed, or claims the next one for it.
LEMMA DynamicRoutes ==
    ASSUME VisionTypes, RoutingInv, DynamicRun, NEW class \in Slot,
           NEW way \in RouteDynamically(class)
    PROVE  /\ way.slot \in Slot /\ way.claimed \in Seq(Slot)
           /\ Len(way.claimed) <= Len(profile.slots)
           /\ DOMAIN claimed \subseteq DOMAIN way.claimed
           /\ \A i \in DOMAIN claimed : way.claimed[i] = claimed[i]
           /\ \A i, j \in DOMAIN way.claimed : way.claimed[i] = way.claimed[j] => i = j
           /\ \E i \in DOMAIN way.claimed : way.claimed[i] = class /\ profile.slots[i] = way.slot
  <1>1. profile.slots \in Seq(Slot) /\ claimed \in Seq(Slot)
    BY Profiles DEF VisionTypes, DynamicRun
  <1>2. /\ Len(claimed) <= Len(profile.slots)
        /\ \A i, j \in DOMAIN claimed : claimed[i] = claimed[j] => i = j
    BY DEF RoutingInv
  <1>3. CASE Claims(class) # {}
    <2>1. PICK i \in Claims(class) : way = [slot |-> profile.slots[i], claimed |-> claimed]
      BY <1>3 DEF RouteDynamically
    <2>2. i \in DOMAIN claimed /\ claimed[i] = class
      BY DEF Claims
    <2>3. way.slot = profile.slots[i] /\ way.claimed = claimed
      BY <2>1
    <2> QED BY <1>1, <1>2, <2>2, <2>3, SMT
  <1>4. CASE Claims(class) = {}
    <2>1. /\ Len(claimed) < Len(profile.slots)
          /\ way = [slot |-> profile.slots[Len(claimed) + 1], claimed |-> Append(claimed, class)]
      BY <1>1, <1>4, SMT DEF RouteDynamically
    <2>2. /\ way.slot = profile.slots[Len(claimed) + 1]
          /\ way.claimed = Append(claimed, class)
      BY <2>1
    <2>3. \A i \in DOMAIN claimed : claimed[i] # class
      BY <1>4 DEF Claims
    <2> QED BY <1>1, <1>2, <2>1, <2>2, <2>3, Appended, SMT
  <1> QED BY <1>3, <1>4

\* The service starts within its types.
LEMMA VisionTypesInit == Init => VisionTypes
  <1> SUFFICES ASSUME Init PROVE VisionTypes
    OBVIOUS
  <1>1. autonomist = Idle /\ correlator = Idle /\ suggester = Idle
    BY DEF Init
  <1> QED BY <1>1, SMT DEF Init, VisionTypes

\* What reviews, training, activations and rollbacks leave alone.
Elsewhere ==
    UNCHANGED <<clock, sorts, buffer, captured, examples, suggestions, outcomes, attempts,
                profile, claimed, runs, suggester, correlator, autonomist>>

\* A step is one of the loops', or is elsewhere.
LEMMA OtherSteps ==
    [Next]_vars =>
        \/ OperatorSorts \/ \E o \in DOMAIN sorts : SortEnds(o)
        \/ Capture \/ StartRouting \/ StopRouting \/ Classify \/ RecordSuggestion
        \/ Poll \/ Label \/ MatchSuggestion
        \/ Decide \/ ReadGeneration \/ SubmitSort \/ RecordAttempt \/ TickRaises
        \/ Restart \/ Elsewhere
  <1>1. ASSUME NEW i \in DOMAIN attempts, Review(i) PROVE Elsewhere
    BY <1>1 DEF Review, Elsewhere, routing, threads
  <1>2. Trigger => Elsewhere
    BY DEF Trigger, Elsewhere, store, routing
  <1>3. TrainingEnds => Elsewhere
    BY DEF TrainingEnds, Elsewhere, routing
  <1>4. ASSUME NEW v \in 1..models, Activate(v) PROVE Elsewhere
    BY <1>4 DEF Activate, Elsewhere, routing, threads
  <1>5. RollBackFrom => Elsewhere
    BY DEF RollBackFrom, Elsewhere, store, routing
  <1>6. RollBack => Elsewhere
    BY DEF RollBack, Elsewhere, routing
  <1>7. UNCHANGED vars => Elsewhere
    BY DEF vars, Elsewhere, store, routing, threads
  <1> QED BY <1>1, <1>2, <1>3, <1>4, <1>5, <1>6, <1>7 DEF Next

\* A page lists operations that succeeded.
LEMMA Paged ==
    ASSUME VisionTypes, NEW page \in Page
    PROVE  page \in Seq(Nat) /\ \A i \in DOMAIN page : page[i] \in Succeeded
  <1> DEFINE newest == {o \in Succeeded : Cardinality({p \in Succeeded : p >= o}) <= PageLimit}
  <1>1. newest \subseteq Succeeded /\ Succeeded \subseteq Nat
    BY SMT DEF Succeeded, VisionTypes
  <1>2. PICK n \in 0..PageLimit : page \in [1..n -> newest]
    BY DEF Page
  <1> HIDE DEF newest
  <1>3. n \in Nat
    BY <1>2, VisionAssumption, SMT
  <1>4. page \in [1..n -> Nat] /\ DOMAIN page = 1..n
    BY <1>1, <1>2
  <1>5. page \in Seq(Nat)
    BY <1>3, <1>4, SMT
  <1>6. \A i \in DOMAIN page : page[i] \in newest
    BY <1>2
  <1> QED BY <1>1, <1>5, <1>6

\* closest_at_or_before: no frame, or the newest one of the buffer that is not too new.
LEMMA Closest ==
    ASSUME VisionTypes, FramesInv, NEW moment \in Nat
    PROVE  \/ ClosestAtOrBefore(moment) = 0
           \/ \E i \in DOMAIN buffer :
                 /\ ClosestAtOrBefore(moment) = buffer[i] /\ buffer[i] <= moment
                 /\ \A j \in DOMAIN buffer : buffer[j] <= moment => buffer[j] <= buffer[i]
  <1> DEFINE older == {buffer[i] : i \in {j \in DOMAIN buffer : buffer[j] <= moment}}
             Newest(f) == f \in older /\ \A g \in older : g <= f
  <1>1. CASE older = {}
    BY <1>1 DEF ClosestAtOrBefore
  <1>2. CASE older # {}
    <2>1. \E i \in DOMAIN buffer : buffer[i] <= moment
      BY <1>2
    <2>2. PICK i \in DOMAIN buffer :
              /\ buffer[i] <= moment
              /\ \A j \in DOMAIN buffer : buffer[j] <= moment => buffer[j] <= buffer[i]
      BY <2>1 DEF FramesInv, HasClosest
    <2>3. Newest(buffer[i])
      BY <2>2
    <2>4. ClosestAtOrBefore(moment) = CHOOSE f \in older : \A g \in older : g <= f
      BY <1>2 DEF ClosestAtOrBefore
    <2>5. Newest(ClosestAtOrBefore(moment))
      BY <2>3, <2>4
    <2>6. PICK k \in DOMAIN buffer : ClosestAtOrBefore(moment) = buffer[k] /\ buffer[k] <= moment
      BY <2>5
    <2>7. \A j \in DOMAIN buffer : buffer[j] <= moment => buffer[j] \in older
      OBVIOUS
    <2> QED BY <2>5, <2>6, <2>7
  <1> QED BY <1>1, <1>2

\* The three answers to a submission: a replay, an admission and a refusal.
LEMMA Submissions ==
    ASSUME VisionTypes, SubmitSort
    PROVE  LET s == autonomist.suggestion
               Answered(o) == [stage |-> "answered", suggestion |-> s, operation |-> o]
           IN \/ /\ UNCHANGED <<clock, sorts>> /\ autonomist' = Idle
              \/ /\ UNCHANGED <<clock, sorts>>
                 /\ \E o \in DOMAIN sorts : sorts[o].key = s /\ autonomist' = Answered(o)
              \/ /\ \A o \in DOMAIN sorts : sorts[o].key # s
                 /\ Admit(suggestions[s].slot, s, s)
                 /\ autonomist' \in {Idle, Answered(Len(sorts) + 1)}
  <1> DEFINE known == {o \in DOMAIN sorts : sorts[o].key = autonomist.suggestion}
             chosen == CHOOSE o \in known : TRUE
  <1>1. known # {} => chosen \in known
    OBVIOUS
  <1> HIDE DEF chosen
  <1> QED BY <1>1 DEF SubmitSort, IdempotencyKey, chosen

\* Every step stays within the types.
LEMMA VisionTypesStep ==
    ASSUME VisionTypes, FramesInv, AutonomyInv, RoutingInv, [Next]_vars
    PROVE  VisionTypes'
  <1> USE DEF VisionTypes
  <1>1. CASE OperatorSorts
    <2>1. PICK s \in Slot : Admit(s, 0, 0)
      BY <1>1 DEF OperatorSorts
    <2>2. [created |-> clock', slot |-> s, key |-> 0, by |-> 0, state |-> "accepted"] \in SortRow
          /\ clock' \in Nat
      BY <2>1, SMT DEF Admit, Stamp, SortRow
    <2>3. sorts' \in Seq(SortRow)
      BY <2>1, <2>2, Appended DEF Admit
    <2>4. autonomist' \in DecidedTick \cup ReadyTick \cup AnsweredTick \cup {Idle}
      BY <1>1 DEF OperatorSorts, Outdated, DecidedTick, ReadyTick, AnsweredTick, Idle
    <2> QED BY <1>1, <2>2, <2>3, <2>4 DEF OperatorSorts, store, routing
  <1>2. ASSUME NEW o \in DOMAIN sorts, SortEnds(o)
        PROVE  VisionTypes'
    <2>1. PICK s \in {"succeeded", "failed"} : sorts' = [sorts EXCEPT ![o].state = s]
      BY <1>2 DEF SortEnds
    <2>2. [sorts[o] EXCEPT !.state = s] \in SortRow
      <3>1. sorts[o] \in SortRow
        BY <1>2, SMT
      <3> QED BY <3>1 DEF SortRow
    <2>3. sorts' \in Seq(SortRow)
      BY <2>1, <2>2, SMT
    <2>4. autonomist' \in DecidedTick \cup ReadyTick \cup AnsweredTick \cup {Idle}
      BY <1>2 DEF SortEnds, Outdated, DecidedTick, ReadyTick, AnsweredTick, Idle
    <2> QED BY <1>2, <2>3, <2>4 DEF SortEnds, store, routing
  <1>3. CASE Capture
    <2>1. clock' \in Nat
      BY <1>3, SMT DEF Capture, Stamp
    <2>2. Room \in Seq(Nat)
      BY VisionAssumption, SMT DEF Room
    <2> QED BY <1>3, <2>1, <2>2, SMT DEF Capture, store, routing, threads
  <1>4. CASE StartRouting
    BY <1>4, SMT DEF StartRouting, StartRun, store, threads
  <1>5. CASE StopRouting
    BY <1>5, SMT DEF StopRouting, store, threads
  <1>6. CASE Classify
    <2>1. PICK r \in Reading : \E way \in Route(r.class) :
              /\ claimed' = way.claimed
              /\ suggester' = [stage |-> "routed", class |-> r.class, slot |-> way.slot,
                               confidence |-> r.confidence, primer |-> r.primer,
                               run |-> IF profile # NoProfile /\ profile.kind = "dynamic"
                                       THEN runs ELSE 0]
      BY <1>6 DEF Classify
    <2>2. PICK way \in Route(r.class) :
              /\ claimed' = way.claimed
              /\ suggester' = [stage |-> "routed", class |-> r.class, slot |-> way.slot,
                               confidence |-> r.confidence, primer |-> r.primer,
                               run |-> IF profile # NoProfile /\ profile.kind = "dynamic"
                                       THEN runs ELSE 0]
      BY <2>1
    <2>3. r.class \in Slot /\ r.confidence \in Nat /\ r.primer \in {"unknown", "clear", "present"}
      BY VisionAssumption
    <2>4. way.slot \in Slot /\ way.claimed \in Seq(Slot)
      <3>1. CASE profile = NoProfile
        BY <2>3, <3>1, Routes, SMT
      <3>2. CASE DynamicRun
        BY <2>3, <3>2, Routes, DynamicRoutes, SMT
      <3>3. CASE profile # NoProfile /\ ~DynamicRun
        <4>1. way = [slot |-> IF r.class \in DOMAIN profile.map THEN profile.map[r.class]
                              ELSE profile.overflow,
                     claimed |-> claimed]
          BY <3>3, Routes
        <4>2. profile \in Profile /\ profile.kind # "dynamic"
          BY <3>3 DEF DynamicRun
        <4> QED BY <4>1, <4>2, Profiles
      <3> QED BY <3>1, <3>2, <3>3
    <2>5. suggester' \in RoutedTick
      BY <2>2, <2>3, <2>4 DEF RoutedTick
    <2> QED BY <1>6, <2>2, <2>4, <2>5 DEF Classify, store
  <1>7. CASE RecordSuggestion
    <2>1. suggester \in RoutedTick
      BY <1>7, SMT DEF RecordSuggestion, Idle
    <2>2. clock' \in Nat
      BY <1>7, SMT DEF RecordSuggestion, Stamp
    <2>3. [class |-> suggester.class, slot |-> suggester.slot,
           confidence |-> suggester.confidence, primer |-> suggester.primer,
           run |-> suggester.run, at |-> clock'] \in SuggestionRow
      BY <2>1, <2>2 DEF RoutedTick, SuggestionRow
    <2>4. suggestions' \in Seq(SuggestionRow)
      BY <1>7, <2>3, Appended DEF RecordSuggestion
    <2> QED BY <1>7, <2>2, <2>4 DEF RecordSuggestion, routing
  <1>8. CASE Poll
    <2>1. PICK page \in Page : page # <<>> /\ correlator' = [stage |-> "page", page |-> page]
      BY <1>8 DEF Poll
    <2>2. page \in Seq(Nat) \ {<<>>}
      BY <2>1, Paged
    <2> QED BY <1>8, <2>1, <2>2, Holds DEF Poll, store, routing
  <1>9. CASE Label
    <2>1. correlator \in PageTick
      BY <1>9, SMT DEF Label, Idle
    <2>2. correlator.page \in Seq(Nat) /\ correlator.page # <<>>
      BY <2>1 DEF PageTick
    <2>3. CASE correlator' = Turn(Tail(correlator.page)) /\ UNCHANGED examples
      BY <1>9, <2>2, <2>3, Turned DEF Label, routing
    <2>4. CASE /\ examples' = examples \cup {[operation |-> Head(correlator.page),
                                 frame |-> ClosestAtOrBefore(sorts[Head(correlator.page)].created)]}
               /\ correlator' = [correlator EXCEPT !.stage = "label"]
      <3>1. correlator' \in PageTick
        BY <2>1, <2>4 DEF PageTick
      <3>2. Head(correlator.page) \in Nat
        BY <2>2, SMT
      <3>3. Head(correlator.page) \in DOMAIN sorts
        BY <2>1, <2>2, SMT DEF FramesInv, Succeeded, PageTick, Idle
      <3>4. sorts[Head(correlator.page)].created \in Nat
        BY <3>3, Rows
      <3>5. ClosestAtOrBefore(sorts[Head(correlator.page)].created) \in Nat
        <4>1. \A i \in DOMAIN buffer : buffer[i] \in Nat
          BY SMT
        <4> DEFINE moment == sorts[Head(correlator.page)].created
        <4>2. \/ ClosestAtOrBefore(moment) = 0
              \/ \E i \in DOMAIN buffer : ClosestAtOrBefore(moment) = buffer[i]
          <5> HIDE DEF VisionTypes
          <5> QED BY <3>4, Closest
        <4> QED BY <4>1, <4>2, SMT
      <3>6. examples' \subseteq [operation : Nat, frame : Nat]
        BY <2>4, <3>2, <3>5, SMT
      <3> QED BY <1>9, <3>1, <3>6 DEF Label, routing
    <2> QED BY <1>9, <2>3, <2>4 DEF Label
  <1>10. CASE MatchSuggestion
    <2>1. correlator \in PageTick
      BY <1>10, SMT DEF MatchSuggestion, Idle
    <2>2. correlator.page \in Seq(Nat) /\ correlator.page # <<>>
      BY <2>1 DEF PageTick
    <2>3. DOMAIN suggestions \subseteq Nat /\ Head(correlator.page) \in Nat
      BY <2>2, SMT
    <2>4. outcomes' \subseteq AttemptRow
      <3>1. \A s \in DOMAIN suggestions :
               [suggestion |-> s, operation |-> Head(correlator.page)] \in AttemptRow
        BY <2>3 DEF AttemptRow
      <3> QED BY <1>10, <3>1 DEF MatchSuggestion, UnmatchedAtOrBefore
    <2> QED BY <1>10, <2>2, <2>4, Turned DEF MatchSuggestion, routing
  <1>11. CASE Decide
    <2>1. autonomist' \in DecidedTick
      BY <1>11, SMT DEF Decide, DecidedTick
    <2> QED BY <1>11, <2>1 DEF Decide, store, routing
  <1>12. CASE ReadGeneration
    <2>1. autonomist \in DecidedTick
      BY <1>12, SMT DEF ReadGeneration, ReadyTick, AnsweredTick, Idle
    <2>2. autonomist' \in ReadyTick
      BY <1>12, <2>1 DEF ReadGeneration, DecidedTick, ReadyTick
    <2> QED BY <1>12, <2>2 DEF ReadGeneration, store, routing
  <1>13. CASE SubmitSort
    <2>1. autonomist \in ReadyTick
      BY <1>13, SMT DEF SubmitSort, DecidedTick, AnsweredTick, Idle
    <2>2. /\ autonomist.suggestion \in Nat
          /\ autonomist.suggestion \in DOMAIN suggestions
      BY <2>1, SMT DEF ReadyTick, AutonomyInv, Idle
    <2>3. suggestions[autonomist.suggestion].slot \in Slot
      BY <2>2, Rows
    <2>4. \A o \in Nat : [stage |-> "answered", suggestion |-> autonomist.suggestion,
                          operation |-> o] \in AnsweredTick
      BY <2>2 DEF AnsweredTick
    <2>5. autonomist' \in AnsweredTick \cup {Idle}
      <3>1. DOMAIN sorts \subseteq Nat /\ Len(sorts) + 1 \in Nat
        BY SMT
      <3>2. \/ autonomist' = Idle
            \/ \E o \in Nat : autonomist' = [stage |-> "answered",
                                             suggestion |-> autonomist.suggestion, operation |-> o]
        <4> HIDE DEF VisionTypes
        <4> QED BY <1>13, <3>1, Submissions
      <3> QED BY <2>4, <3>2
    <2>6. CASE UNCHANGED <<clock, sorts>>
      BY <1>13, <2>5, <2>6 DEF SubmitSort, store, routing
    <2>7. CASE Admit(suggestions[autonomist.suggestion].slot, autonomist.suggestion,
                     autonomist.suggestion)
      <3>1. clock' \in Nat
        BY <2>7, SMT DEF Admit, Stamp
      <3>2. [created |-> clock', slot |-> suggestions[autonomist.suggestion].slot,
             key |-> autonomist.suggestion, by |-> autonomist.suggestion,
             state |-> "accepted"] \in SortRow
        BY <2>2, <2>3, <3>1 DEF SortRow
      <3>3. sorts' \in Seq(SortRow)
        BY <2>7, <3>2, Appended DEF Admit
      <3> QED BY <1>13, <2>5, <3>1, <3>3 DEF SubmitSort, store, routing
    <2> QED BY <1>13, <2>6, <2>7, Submissions
  <1>14. CASE RecordAttempt
    <2>1. autonomist \in AnsweredTick
      BY <1>14, SMT DEF RecordAttempt, DecidedTick, ReadyTick, Idle
    <2>2. [suggestion |-> autonomist.suggestion, operation |-> autonomist.operation]
             \in AttemptRow
      BY <2>1 DEF AnsweredTick, AttemptRow
    <2>3. attempts' \in Seq(AttemptRow)
      BY <1>14, <2>2, Appended DEF RecordAttempt
    <2> QED BY <1>14, <2>3 DEF RecordAttempt, routing
  <1>15. CASE TickRaises
    BY <1>15 DEF TickRaises, store, routing
  <1>16. CASE Restart
    BY <1>16, SMT DEF Restart, store
  <1>17. CASE Elsewhere
    BY <1>17 DEF Elsewhere
  <1> QED BY <1>1, <1>2, <1>3, <1>4, <1>5, <1>6, <1>7, <1>8, <1>9, <1>10, <1>11, <1>12, <1>13,
             <1>14, <1>15, <1>16, <1>17, OtherSteps

-----------------------------------------------------------------------------
(* What a step keeps *)

\* Sorts and suggestions are only added, keep what they say, and a success stays.
History ==
    /\ clock' = clock \/ clock' = clock + 1
    /\ \A o \in DOMAIN sorts :
          /\ o \in DOMAIN sorts'
          /\ sorts'[o].created = sorts[o].created /\ sorts'[o].slot = sorts[o].slot
          /\ sorts'[o].key = sorts[o].key /\ sorts'[o].by = sorts[o].by
          /\ sorts[o].state = "succeeded" => sorts'[o].state = "succeeded"
    /\ \A o \in DOMAIN sorts' \ DOMAIN sorts : sorts'[o].created = clock' /\ clock' = clock + 1
    /\ \A s \in DOMAIN suggestions :
          s \in DOMAIN suggestions' /\ suggestions'[s] = suggestions[s]

\* An admission appends one row.
LEMMA Admitted ==
    ASSUME VisionTypes, NEW slot \in Slot, NEW key \in Nat, NEW by \in Nat, Admit(slot, key, by)
    PROVE  /\ clock' = clock + 1
           /\ DOMAIN sorts' = DOMAIN sorts \cup {Len(sorts) + 1}
           /\ Len(sorts) + 1 \notin DOMAIN sorts
           /\ \A o \in DOMAIN sorts : sorts'[o] = sorts[o]
           /\ sorts'[Len(sorts) + 1].created = clock' /\ sorts'[Len(sorts) + 1].slot = slot
           /\ sorts'[Len(sorts) + 1].key = key /\ sorts'[Len(sorts) + 1].by = by
           /\ sorts'[Len(sorts) + 1].state = "accepted"
  <1>1. clock' = clock + 1 /\ clock' \in Nat
    BY SMT DEF Admit, Stamp, VisionTypes
  <1>2. [created |-> clock', slot |-> slot, key |-> key, by |-> by, state |-> "accepted"]
           \in SortRow
    BY <1>1 DEF SortRow
  <1>3. sorts \in Seq(SortRow)
    BY DEF VisionTypes
  <1>4. Len(sorts) + 1 \notin DOMAIN sorts
    BY <1>3, SMT
  <1>5. /\ DOMAIN sorts' = DOMAIN sorts \cup {Len(sorts) + 1}
        /\ \A o \in DOMAIN sorts : sorts'[o] = sorts[o]
        /\ sorts'[Len(sorts) + 1] = [created |-> clock', slot |-> slot, key |-> key,
                                     by |-> by, state |-> "accepted"]
    BY <1>2, <1>3, Appended, SMT DEF Admit
  <1> QED BY <1>1, <1>4, <1>5, SMT

\* The end of a sort changes its state alone.
LEMMA Ended ==
    ASSUME VisionTypes, NEW o \in DOMAIN sorts, SortEnds(o)
    PROVE  /\ DOMAIN sorts' = DOMAIN sorts
           /\ sorts[o].state = "accepted"
           /\ \A p \in DOMAIN sorts :
                 /\ sorts'[p].created = sorts[p].created /\ sorts'[p].slot = sorts[p].slot
                 /\ sorts'[p].key = sorts[p].key /\ sorts'[p].by = sorts[p].by
                 /\ p # o => sorts'[p] = sorts[p]
  <1>1. PICK s \in {"succeeded", "failed"} : sorts' = [sorts EXCEPT ![o].state = s]
    BY DEF SortEnds
  <1>2. sorts[o] \in SortRow
    BY Rows
  <1>3. sorts'[o] = [sorts[o] EXCEPT !.state = s]
    BY <1>1
  <1>4. /\ sorts'[o].created = sorts[o].created /\ sorts'[o].slot = sorts[o].slot
        /\ sorts'[o].key = sorts[o].key /\ sorts'[o].by = sorts[o].by
    BY <1>2, <1>3 DEF SortRow
  <1>5. \A p \in DOMAIN sorts : p # o => sorts'[p] = sorts[p]
    BY <1>1
  <1>6. DOMAIN sorts' = DOMAIN sorts
    BY <1>1
  <1> QED BY <1>4, <1>5, <1>6 DEF SortEnds

\* A recorded suggestion is one new row, of what the tick held.
LEMMA Suggested ==
    ASSUME VisionTypes, RecordSuggestion
    PROVE  /\ clock' = clock + 1 /\ suggester \in RoutedTick
           /\ DOMAIN suggestions' = DOMAIN suggestions \cup {Len(suggestions) + 1}
           /\ Len(suggestions) + 1 \notin DOMAIN suggestions
           /\ \A s \in DOMAIN suggestions : suggestions'[s] = suggestions[s]
           /\ suggestions'[Len(suggestions) + 1] =
                 [class |-> suggester.class, slot |-> suggester.slot,
                  confidence |-> suggester.confidence, primer |-> suggester.primer,
                  run |-> suggester.run, at |-> clock']
  <1>1. suggester \in RoutedTick
    BY SMT DEF RecordSuggestion, VisionTypes, Idle
  <1>2. clock' = clock + 1 /\ clock' \in Nat
    BY SMT DEF RecordSuggestion, Stamp, VisionTypes
  <1>3. [class |-> suggester.class, slot |-> suggester.slot,
         confidence |-> suggester.confidence, primer |-> suggester.primer,
         run |-> suggester.run, at |-> clock'] \in SuggestionRow
    BY <1>1, <1>2 DEF RoutedTick, SuggestionRow
  <1>4. suggestions \in Seq(SuggestionRow)
    BY DEF VisionTypes
  <1>5. Len(suggestions) + 1 \notin DOMAIN suggestions
    BY <1>4, SMT
  <1> QED BY <1>1, <1>2, <1>3, <1>4, <1>5, Appended, SMT DEF RecordSuggestion

\* No step rewrites the past.
LEMMA HistoryKept ==
    ASSUME VisionTypes, AutonomyInv, [Next]_vars
    PROVE  History
  <1> DEFINE Still == UNCHANGED <<clock, sorts, suggestions>>
  <1>1. CASE Still
    BY <1>1 DEF History
  <1>2. CASE OperatorSorts
    <2>1. PICK s \in Slot : Admit(s, 0, 0)
      BY <1>2 DEF OperatorSorts
    <2>2. UNCHANGED suggestions
      BY <1>2 DEF OperatorSorts, store
    <2>3. /\ clock' = clock + 1
          /\ DOMAIN sorts' = DOMAIN sorts \cup {Len(sorts) + 1}
          /\ \A o \in DOMAIN sorts : sorts'[o] = sorts[o]
          /\ sorts'[Len(sorts) + 1].created = clock'
      BY <2>1, Admitted
    <2> QED BY <2>2, <2>3 DEF History
  <1>3. ASSUME NEW o \in DOMAIN sorts, SortEnds(o) PROVE History
    <2>1. UNCHANGED <<clock, suggestions>>
      BY <1>3 DEF SortEnds, store
    <2> QED BY <1>3, <2>1, Ended DEF History
  <1>4. CASE SubmitSort
    <2> DEFINE s == autonomist.suggestion
    <2>1. UNCHANGED suggestions /\ autonomist \in ReadyTick
      BY <1>4, SMT DEF SubmitSort, store, VisionTypes, DecidedTick, AnsweredTick, Idle
    <2>2. CASE UNCHANGED <<clock, sorts>>
      BY <1>1, <2>1, <2>2
    <2>3. CASE Admit(suggestions[s].slot, s, s)
      <3>1. s \in DOMAIN suggestions /\ s \in Nat
        BY <2>1, SMT DEF AutonomyInv, ReadyTick, Idle
      <3>2. suggestions[s].slot \in Slot
        BY <3>1, Rows
      <3>3. /\ clock' = clock + 1
            /\ DOMAIN sorts' = DOMAIN sorts \cup {Len(sorts) + 1}
            /\ \A o \in DOMAIN sorts : sorts'[o] = sorts[o]
            /\ sorts'[Len(sorts) + 1].created = clock'
        BY <2>3, <3>1, <3>2, Admitted
      <3> QED BY <2>1, <3>3 DEF History
    <2> QED BY <1>4, <2>2, <2>3, Submissions
  <1>5. CASE RecordSuggestion
    <2>1. UNCHANGED sorts
      BY <1>5 DEF RecordSuggestion
    <2> QED BY <1>5, <2>1, Suggested DEF History
  <1>6. CASE Capture
    BY <1>6 DEF Capture, Stamp, store, History
  <1>7. StartRouting \/ StopRouting => Still
    BY DEF StartRouting, StopRouting, store
  <1>8. Classify \/ Poll \/ Label \/ MatchSuggestion => Still
    BY DEF Classify, Poll, Label, MatchSuggestion, store
  <1>9. Decide \/ ReadGeneration \/ RecordAttempt \/ TickRaises => Still
    BY DEF Decide, ReadGeneration, RecordAttempt, TickRaises, store
  <1>10. Restart \/ Elsewhere => Still
    BY DEF Restart, Elsewhere, store
  <1> QED BY <1>1, <1>2, <1>3, <1>4, <1>5, <1>6, <1>7, <1>8, <1>9, <1>10, OtherSteps

-----------------------------------------------------------------------------
(* Frames and labels *)

\* Who writes the buffer, the correlator's tick and the examples.
LEMMA FramesFootprint ==
    ASSUME [Next]_vars
    PROVE  /\ Capture \/ Restart \/ UNCHANGED <<buffer, captured>>
           /\ Poll \/ Label \/ MatchSuggestion \/ correlator' \in {correlator, Idle}
           /\ Label \/ UNCHANGED examples
  <1> DEFINE Others == UNCHANGED <<buffer, captured, examples>> /\ correlator' \in {correlator, Idle}
  <1>1. OperatorSorts => Others
    BY DEF OperatorSorts, store
  <1>2. (\E o \in DOMAIN sorts : SortEnds(o)) => Others
    BY DEF SortEnds, store
  <1>3. Capture => UNCHANGED <<examples, correlator>>
    BY DEF Capture, store, threads
  <1>4. StartRouting \/ StopRouting => Others
    BY DEF StartRouting, StopRouting, store, threads
  <1>5. Classify \/ RecordSuggestion => Others
    BY DEF Classify, RecordSuggestion, store
  <1>6. Poll \/ MatchSuggestion => UNCHANGED <<buffer, captured, examples>>
    BY DEF Poll, MatchSuggestion, store
  <1>7. Label => UNCHANGED <<buffer, captured>>
    BY DEF Label
  <1>8. Decide \/ ReadGeneration \/ SubmitSort \/ RecordAttempt => Others
    BY DEF Decide, ReadGeneration, SubmitSort, RecordAttempt, store
  <1>9. TickRaises => Others
    BY DEF TickRaises, store
  <1>10. Restart => UNCHANGED examples /\ correlator' = Idle
    BY DEF Restart, store
  <1>11. Elsewhere => Others
    BY DEF Elsewhere
  <1> QED BY <1>1, <1>2, <1>3, <1>4, <1>5, <1>6, <1>7, <1>8, <1>9, <1>10, <1>11, OtherSteps

\* Making room keeps the newest stretch: what leaves is the oldest.
LEMMA RoomIsMade ==
    ASSUME VisionTypes, FramesInv
    PROVE  /\ Room \in Seq(Nat)
           /\ \A i \in DOMAIN Room : \E j \in DOMAIN buffer : Room[i] = buffer[j]
           /\ \A i, j \in DOMAIN Room : i < j => Room[i] < Room[j]
           /\ \A f \in captured : \A i \in DOMAIN Room :
                 Room[i] <= f => \E j \in DOMAIN Room : Room[j] = f
           /\ \A moment \in Nat :
                 (\E i \in DOMAIN Room : Room[i] <= moment) =>
                 \E i \in DOMAIN Room :
                    /\ Room[i] <= moment
                    /\ \A j \in DOMAIN Room : Room[j] <= moment => Room[j] <= Room[i]
  <1>1. CASE Len(buffer) # Capacity
    BY <1>1 DEF Room, VisionTypes, FramesInv, NewestStretch, HasClosest
  <1>2. CASE Len(buffer) = Capacity
    <2>1. buffer \in Seq(Nat) /\ captured \subseteq Nat /\ Len(buffer) \in Nat \ {0}
      BY <1>2, VisionAssumption DEF VisionTypes
    <2>2. Room = Tail(buffer)
      BY <1>2 DEF Room
    <2>3. /\ Room \in Seq(Nat) /\ DOMAIN Room = 1..(Len(buffer) - 1)
          /\ DOMAIN buffer = 1..Len(buffer)
          /\ \A i \in DOMAIN Room : Room[i] = buffer[i + 1] /\ i + 1 \in DOMAIN buffer
      BY <2>1, <2>2, SMT
    <2>4. \A j \in DOMAIN buffer : j # 1 => j - 1 \in DOMAIN Room /\ Room[j - 1] = buffer[j]
      BY <2>1, <2>3, SMTT(30)
    <2>5. \A i, j \in DOMAIN buffer : i < j => buffer[i] < buffer[j]
      BY DEF FramesInv, NewestStretch
    <2>6. \A i, j \in DOMAIN Room : i < j => Room[i] < Room[j]
      BY <2>1, <2>3, <2>5, SMT
    <2>7. \A i \in DOMAIN Room : buffer[1] < Room[i]
      <3>1. 1 \in DOMAIN buffer /\ \A i \in DOMAIN Room : 1 < i + 1
        BY <2>1, <2>3, SMT
      <3> QED BY <2>3, <2>5, <3>1
    <2>8. ASSUME NEW f \in captured, NEW i \in DOMAIN Room, Room[i] <= f
          PROVE  \E j \in DOMAIN Room : Room[j] = f
      <3>1. PICK j \in DOMAIN buffer : buffer[j] = f
        BY <2>3, <2>8 DEF FramesInv, NewestStretch
      <3>2. j # 1
        BY <2>1, <2>3, <2>7, <2>8, <3>1, SMTT(30)
      <3> QED BY <2>4, <3>1, <3>2
    <2>9. ASSUME NEW moment \in Nat, NEW i \in DOMAIN Room, Room[i] <= moment
          PROVE  \E k \in DOMAIN Room :
                    /\ Room[k] <= moment
                    /\ \A j \in DOMAIN Room : Room[j] <= moment => Room[j] <= Room[k]
      <3>1. \E j \in DOMAIN buffer : buffer[j] <= moment
        BY <2>3, <2>9
      <3>2. PICK k \in DOMAIN buffer :
                /\ buffer[k] <= moment
                /\ \A j \in DOMAIN buffer : buffer[j] <= moment => buffer[j] <= buffer[k]
        BY <3>1 DEF FramesInv, HasClosest
      <3>3. k # 1
        BY <2>1, <2>3, <2>7, <2>9, <3>2, SMTT(30)
      <3>4. k - 1 \in DOMAIN Room /\ Room[k - 1] = buffer[k]
        BY <2>4, <3>2, <3>3
      <3> QED BY <2>3, <3>2, <3>4
    <2> QED BY <2>3, <2>6, <2>8, <2>9
  <1> QED BY <1>1, <1>2

\* A capture adds a frame that is newer than all.
LEMMA CaptureStep ==
    ASSUME VisionTypes, FramesInv, Capture
    PROVE  /\ \A f \in captured' : 1 <= f /\ f <= clock'
           /\ NewestStretch' /\ HasClosest'
  <1>1. clock \in Nat /\ clock' = clock + 1 /\ clock' \in Nat
    BY SMT DEF Capture, Stamp, VisionTypes
  <1>2. captured' = captured \cup {clock'} /\ captured \subseteq Nat
    BY DEF Capture, VisionTypes
  <1>3. \A f \in captured : 1 <= f /\ f <= clock
    BY DEF FramesInv
  <1>4. Room \in Seq(Nat) /\ buffer' = Append(Room, clock')
    BY RoomIsMade DEF Capture
  <1>5. /\ DOMAIN buffer' = DOMAIN Room \cup {Len(Room) + 1}
        /\ DOMAIN Room = 1..Len(Room) /\ Len(Room) \in Nat
        /\ \A i \in DOMAIN Room : buffer'[i] = Room[i]
        /\ buffer'[Len(Room) + 1] = clock'
    BY <1>1, <1>4, Appended, SMT
  <1>6. \A i \in DOMAIN Room : Room[i] \in captured
    BY RoomIsMade DEF FramesInv, NewestStretch
  <1>7. \A i \in DOMAIN Room : Room[i] < clock' /\ Room[i] \in Nat
    <2>1. \A f \in captured : f < clock' /\ f \in Nat
      BY <1>1, <1>2, <1>3, SMT
    <2> QED BY <1>6, <2>1
  <1>8. NewestStretch'
    <2>1. \A i \in DOMAIN buffer' : buffer'[i] \in captured'
      BY <1>2, <1>5, <1>6
    <2>2. \A i, j \in DOMAIN buffer' : i < j => buffer'[i] < buffer'[j]
      BY <1>5, <1>7, RoomIsMade, SMT
    <2>3. ASSUME NEW f \in captured', NEW i \in DOMAIN buffer', buffer'[i] <= f
          PROVE  \E j \in DOMAIN buffer' : buffer'[j] = f
      <3>1. CASE f = clock'
        BY <1>5, <3>1
      <3>2. CASE f \in captured
        <4>1. i \in DOMAIN Room /\ Room[i] <= f
          BY <1>1, <1>2, <1>3, <1>5, <2>3, <3>2, SMT
        <4>2. PICK j \in DOMAIN Room : Room[j] = f
          BY <3>2, <4>1, RoomIsMade
        <4> QED BY <1>5, <4>2
      <3> QED BY <1>2, <3>1, <3>2
    <2> QED BY <2>1, <2>2, <2>3 DEF NewestStretch
  <1>9. HasClosest'
    <2>1. ASSUME NEW moment \in Nat, NEW i \in DOMAIN buffer', buffer'[i] <= moment
          PROVE  \E k \in DOMAIN buffer' :
                    /\ buffer'[k] <= moment
                    /\ \A j \in DOMAIN buffer' : buffer'[j] <= moment => buffer'[j] <= buffer'[k]
      <3>1. CASE clock' <= moment
        <4>1. \A j \in DOMAIN buffer' : buffer'[j] <= clock'
          BY <1>1, <1>5, <1>7, SMT
        <4> QED BY <1>5, <3>1, <4>1
      <3>2. CASE ~(clock' <= moment)
        <4>1. i \in DOMAIN Room /\ Room[i] <= moment
          BY <1>5, <2>1, <3>2
        <4>2. PICK k \in DOMAIN Room :
                  /\ Room[k] <= moment
                  /\ \A j \in DOMAIN Room : Room[j] <= moment => Room[j] <= Room[k]
          BY <4>1, RoomIsMade
        <4> QED BY <1>5, <3>2, <4>2
      <3> QED BY <3>1, <3>2
    <2> QED BY <2>1 DEF HasClosest
  <1> QED BY <1>1, <1>2, <1>3, <1>8, <1>9, SMT

\* Every page a tick holds lists successes.
LEMMA PageStep ==
    ASSUME VisionTypes, FramesInv, History, [Next]_vars
    PROVE  correlator' # Idle =>
               \A i \in DOMAIN correlator'.page : correlator'.page[i] \in Succeeded'
  <1>1. \A o \in Succeeded : o \in Succeeded'
    BY DEF Succeeded, History
  <1>2. CASE correlator' \in {correlator, Idle}
    BY <1>1, <1>2 DEF FramesInv
  <1>3. CASE Poll
    <2>1. PICK page \in Page : correlator' = [stage |-> "page", page |-> page]
      BY <1>3 DEF Poll
    <2>2. correlator'.page = page
      BY <2>1
    <2> QED BY <1>1, <2>2, Paged
  <1>4. ASSUME correlator \in PageTick, correlator' = Turn(Tail(correlator.page))
        PROVE  correlator' # Idle =>
                   \A i \in DOMAIN correlator'.page : correlator'.page[i] \in Succeeded'
    <2>1. correlator.page \in Seq(Nat) /\ correlator.page # <<>> /\ correlator # Idle
      BY <1>4, SMT DEF PageTick, Idle
    <2>2. \A i \in DOMAIN correlator.page : correlator.page[i] \in Succeeded
      BY <2>1 DEF FramesInv
    <2> QED BY <1>1, <1>4, <2>1, <2>2, Turned
  <1>5. CASE Label
    <2>1. correlator \in PageTick
      BY <1>5, SMT DEF Label, VisionTypes, Idle
    <2>2. CASE correlator' = [correlator EXCEPT !.stage = "label"]
      <3>1. correlator'.page = correlator.page /\ correlator # Idle
        BY <2>1, <2>2, SMT DEF PageTick, Idle
      <3> QED BY <1>1, <3>1 DEF FramesInv
    <2> QED BY <1>4, <1>5, <2>1, <2>2 DEF Label
  <1>6. CASE MatchSuggestion
    <2>1. correlator \in PageTick
      BY <1>6, SMT DEF MatchSuggestion, VisionTypes, Idle
    <2> QED BY <1>4, <1>6, <2>1 DEF MatchSuggestion
  <1> QED BY <1>2, <1>3, <1>5, <1>6, FramesFootprint

\* The operation a tick labels, and its frame.
LEMMA LabelledBy ==
    ASSUME VisionTypes, FramesInv, Label
    PROVE  LET o == Head(correlator.page)
               frame == ClosestAtOrBefore(sorts[o].created)
           IN /\ correlator \in PageTick
              /\ o \in Succeeded /\ sorts[o].created \in Nat
              /\ \/ correlator' = Turn(Tail(correlator.page)) /\ UNCHANGED examples
                 \/ /\ ~Labelled(o) /\ frame # 0
                    /\ examples' = examples \cup {[operation |-> o, frame |-> frame]}
                    /\ correlator' = [correlator EXCEPT !.stage = "label"]
  <1>1. correlator \in PageTick
    BY SMT DEF Label, VisionTypes, Idle
  <1>2. correlator.page \in Seq(Nat) /\ correlator.page # <<>> /\ correlator # Idle
    BY <1>1, SMT DEF PageTick, Idle
  <1>3. Head(correlator.page) \in Succeeded
    BY <1>2, SMT DEF FramesInv
  <1>4. sorts[Head(correlator.page)].created \in Nat
    BY <1>3, Rows DEF Succeeded
  <1> QED BY <1>1, <1>3, <1>4 DEF Label

\* A label is of the closest frame when it is made, and nothing captured later is
\* older than its sort.
LEMMA LabelStep ==
    ASSUME VisionTypes, FramesInv, History, [Next]_vars
    PROVE  LabelIsClosestFrame'
  <1> DEFINE Right(e) == /\ e.operation \in Succeeded
                         /\ e.frame \in captured /\ e.frame <= sorts[e.operation].created
                         /\ \A f \in captured :
                               ~(e.frame < f /\ f <= sorts[e.operation].created)
  <1>1. /\ captured \subseteq Nat /\ clock \in Nat
        /\ captured' = captured \/ captured' = captured \cup {clock + 1}
    BY FramesFootprint DEF VisionTypes, Capture, Stamp, Restart
  <1>2. \A o \in Succeeded : /\ o \in Succeeded'
                             /\ sorts'[o].created = sorts[o].created
                             /\ sorts[o].created \in Nat /\ sorts[o].created <= clock
    BY Rows DEF Succeeded, History, FramesInv
  <1>3. ASSUME NEW e, Right(e)
        PROVE  Right(e)'
    <2>1. \A f \in captured' \ captured : ~(f <= sorts[e.operation].created)
      BY <1>1, <1>2, <1>3, SMT
    <2> QED BY <1>1, <1>2, <1>3, <2>1
  <1>4. \A e \in examples : Right(e)
    BY DEF FramesInv, LabelIsClosestFrame
  <1>5. ASSUME NEW e \in examples' \ examples
        PROVE  Right(e)
    <2> DEFINE o == Head(correlator.page)
               frame == ClosestAtOrBefore(sorts[o].created)
    <2>1. Label
      BY <1>5, FramesFootprint
    <2>2. /\ e = [operation |-> o, frame |-> frame] /\ frame # 0
          /\ o \in Succeeded /\ sorts[o].created \in Nat
      BY <1>5, <2>1, LabelledBy
    <2>3. PICK i \in DOMAIN buffer :
              /\ frame = buffer[i] /\ buffer[i] <= sorts[o].created
              /\ \A j \in DOMAIN buffer : buffer[j] <= sorts[o].created => buffer[j] <= buffer[i]
      BY <2>2, Closest
    <2> HIDE DEF frame, o
    <2>4. frame \in captured
      BY <2>3 DEF FramesInv, NewestStretch
    <2>5. ASSUME NEW f \in captured, frame < f, f <= sorts[o].created
          PROVE  FALSE
      <3>1. f \in Nat /\ frame \in Nat
        BY <1>1, <2>4, <2>5
      <3>2. PICK j \in DOMAIN buffer : buffer[j] = f
        BY <2>3, <2>5, <3>1, SMT DEF FramesInv, NewestStretch
      <3> QED BY <2>3, <2>5, <3>1, <3>2, SMT
    <2>6. e.operation = o /\ e.frame = frame
      BY <2>2
    <2> QED BY <2>2, <2>3, <2>4, <2>5, <2>6
  <1>6. \A e \in examples' : Right(e)'
    <2> HIDE DEF Right
    <2> QED BY <1>3, <1>4, <1>5
  <1> QED BY <1>6 DEF LabelIsClosestFrame

\* The part of the invariant about frames is kept.
LEMMA FramesStep ==
    ASSUME VisionTypes, FramesInv, AutonomyInv, [Next]_vars
    PROVE  FramesInv'
  <1>1. History
    BY HistoryKept
  <1>2. clock \in Nat /\ captured \subseteq Nat
    BY DEF VisionTypes
  <1>3. (\A f \in captured' : 1 <= f /\ f <= clock') /\ NewestStretch' /\ HasClosest'
    <2>1. CASE Capture
      BY <2>1, CaptureStep
    <2>2. CASE Restart
      BY <1>2, <2>2, SMT DEF Restart, FramesInv, NewestStretch, HasClosest
    <2>3. CASE UNCHANGED <<buffer, captured>>
      BY <1>1, <1>2, <2>3, SMT DEF FramesInv, NewestStretch, HasClosest, History
    <2> QED BY <2>1, <2>2, <2>3, FramesFootprint
  <1>4. \A o \in DOMAIN sorts' : sorts'[o].created <= clock'
    <2>1. ASSUME NEW o \in DOMAIN sorts PROVE sorts'[o].created <= clock'
      BY <1>1, <1>2, Rows, SMT DEF History, FramesInv
    <2>2. ASSUME NEW o \in DOMAIN sorts' \ DOMAIN sorts PROVE sorts'[o].created <= clock'
      BY <1>1, <1>2, SMT DEF History
    <2> QED BY <2>1, <2>2
  <1> QED BY <1>1, <1>3, <1>4, PageStep, LabelStep DEF FramesInv

-----------------------------------------------------------------------------
(* Autonomous sorts *)

\* A new sort is an operator's, or the first one of a suggestion that passed the gate.
LEMMA NewSorts ==
    ASSUME VisionTypes, AutonomyInv, [Next]_vars, NEW o \in DOMAIN sorts' \ DOMAIN sorts
    PROVE  /\ o = Len(sorts) + 1
           /\ sorts'[o].key = sorts'[o].by
           /\ sorts'[o].by # 0 =>
                 /\ sorts'[o].by \in DOMAIN suggestions
                 /\ MayAutonomouslySort(suggestions[sorts'[o].by])
                 /\ suggestions[sorts'[o].by].slot = sorts'[o].slot
                 /\ \A p \in DOMAIN sorts : sorts[p].by # sorts'[o].by
  <1>1. CASE OperatorSorts
    <2>1. PICK s \in Slot : Admit(s, 0, 0)
      BY <1>1 DEF OperatorSorts
    <2> QED BY <2>1, Admitted, SMT
  <1>2. CASE SubmitSort
    <2> DEFINE s == autonomist.suggestion
    <2>1. autonomist \in ReadyTick
      BY <1>2, SMT DEF SubmitSort, VisionTypes, DecidedTick, AnsweredTick, Idle
    <2>2. /\ s \in Nat /\ s \in DOMAIN suggestions
          /\ MayAutonomouslySort(suggestions[s])
      BY <2>1, SMT DEF AutonomyInv, ReadyTick, Idle
    <2>3. suggestions[s].slot \in Slot
      BY <2>2, Rows
    <2>4. /\ \A p \in DOMAIN sorts : sorts[p].key # s
          /\ Admit(suggestions[s].slot, s, s)
      BY <1>2, Submissions
    <2>5. /\ o = Len(sorts) + 1
          /\ sorts'[o].key = s /\ sorts'[o].by = s /\ sorts'[o].slot = suggestions[s].slot
      BY <2>2, <2>3, <2>4, Admitted, SMT
    <2>6. \A p \in DOMAIN sorts : sorts[p].by # s
      BY <2>4 DEF AutonomyInv, SortsOnce
    <2> QED BY <2>2, <2>5, <2>6
  <1>3. ASSUME NEW p \in DOMAIN sorts, SortEnds(p) PROVE FALSE
    BY <1>3, Ended
  <1>4. StartRouting \/ StopRouting \/ Capture \/ Restart \/ Elsewhere => UNCHANGED sorts
    BY DEF StartRouting, StopRouting, Capture, Restart, Elsewhere
  <1>5. Classify \/ RecordSuggestion \/ Poll \/ Label \/ MatchSuggestion => UNCHANGED sorts
    BY DEF Classify, RecordSuggestion, Poll, Label, MatchSuggestion
  <1>6. Decide \/ ReadGeneration \/ RecordAttempt \/ TickRaises => UNCHANGED sorts
    BY DEF Decide, ReadGeneration, RecordAttempt, TickRaises
  <1> QED BY <1>1, <1>2, <1>3, <1>4, <1>5, <1>6, OtherSteps

\* A suggestion has one sort at most, and keeps it.
LEMMA SortsOnceStep ==
    ASSUME VisionTypes, AutonomyInv, [Next]_vars
    PROVE  SortsOnce'
  <1>1. History
    BY HistoryKept
  <1>2. SortsOnce
    BY DEF AutonomyInv
  <1>3. ASSUME NEW o \in DOMAIN sorts'
        PROVE  /\ sorts'[o].key = sorts'[o].by
               /\ sorts'[o].by # 0 =>
                     /\ sorts'[o].by \in DOMAIN suggestions
                     /\ MayAutonomouslySort(suggestions[sorts'[o].by])
                     /\ suggestions[sorts'[o].by].slot = sorts'[o].slot
    <2>1. CASE o \in DOMAIN sorts
      BY <1>1, <1>2, <2>1 DEF SortsOnce, History
    <2>2. CASE o \notin DOMAIN sorts
      BY <1>3, <2>2, NewSorts
    <2> QED BY <2>1, <2>2
  <1>4. ASSUME NEW o \in DOMAIN sorts', NEW p \in DOMAIN sorts',
               sorts'[o].by # 0, sorts'[p].by = sorts'[o].by
        PROVE  p = o
    <2>1. CASE o \in DOMAIN sorts /\ p \in DOMAIN sorts
      BY <1>1, <1>2, <1>4, <2>1, SMT DEF SortsOnce, History
    <2>2. CASE o \notin DOMAIN sorts /\ p \notin DOMAIN sorts
      BY <2>2, NewSorts, SMT
    <2>3. CASE o \in DOMAIN sorts /\ p \notin DOMAIN sorts
      <3>1. sorts[o].by # sorts'[p].by
        BY <1>4, <2>3, NewSorts
      <3> QED BY <1>1, <1>4, <2>3, <3>1 DEF History
    <2>4. CASE o \notin DOMAIN sorts /\ p \in DOMAIN sorts
      <3>1. sorts[p].by # sorts'[o].by
        BY <1>4, <2>4, NewSorts
      <3> QED BY <1>1, <1>4, <2>4, <3>1 DEF History
    <2> QED BY <2>1, <2>2, <2>3, <2>4
  <1>5. ASSUME NEW o \in DOMAIN sorts', sorts'[o].by # 0
        PROVE  /\ sorts'[o].by \in DOMAIN suggestions'
               /\ MayAutonomouslySort(suggestions'[sorts'[o].by])
               /\ suggestions'[sorts'[o].by].slot = sorts'[o].slot
    BY <1>1, <1>3, <1>5 DEF History
  <1> QED BY <1>3, <1>4, <1>5 DEF SortsOnce, MayAutonomouslySort, RequiresOperatorConfirmation

\* What a tick holds of a suggestion: it passed the gate and was not attempted.
TickIsFirst ==
    /\ autonomist # Idle =>
          /\ autonomist.suggestion \in DOMAIN suggestions
          /\ MayAutonomouslySort(suggestions[autonomist.suggestion])
          /\ ~Attempted(autonomist.suggestion)
    /\ autonomist.stage = "answered" =>
          /\ autonomist.operation \in DOMAIN sorts
          /\ sorts[autonomist.operation].by = autonomist.suggestion

\* A tick that holds on to the same suggestion, and knows no new operation.
SameTick ==
    /\ UNCHANGED attempts
    /\ \/ autonomist' = Idle
       \/ autonomist' = autonomist
       \/ /\ autonomist # Idle /\ autonomist' # Idle
          /\ autonomist'.suggestion = autonomist.suggestion
          /\ autonomist'.stage # "answered"

\* Most steps leave the tick with its suggestion.
LEMMA SameTicks ==
    ASSUME VisionTypes, [Next]_vars
    PROVE  Decide \/ SubmitSort \/ RecordAttempt \/ SameTick
  <1> DEFINE Left == UNCHANGED <<attempts, autonomist>>
  <1>1. ASSUME Outdated, UNCHANGED attempts PROVE SameTick
    <2>1. CASE autonomist.stage = "ready"
      <3>1. autonomist \in ReadyTick
        BY <2>1, SMT DEF VisionTypes, DecidedTick, AnsweredTick, Idle
      <3>2. autonomist' = [autonomist EXCEPT !.fresh = FALSE]
        BY <1>1, <2>1 DEF Outdated
      <3>3. autonomist'.stage = "ready" /\ autonomist'.suggestion = autonomist.suggestion
        BY <3>1, <3>2 DEF ReadyTick
      <3> QED BY <1>1, <2>1, <3>3, SMT DEF SameTick, Idle
    <2>2. CASE autonomist.stage # "ready"
      BY <1>1, <2>2 DEF Outdated, SameTick
    <2> QED BY <2>1, <2>2
  <1>2. CASE OperatorSorts
    BY <1>1, <1>2 DEF OperatorSorts, store
  <1>3. ASSUME NEW o \in DOMAIN sorts, SortEnds(o) PROVE SameTick
    BY <1>1, <1>3 DEF SortEnds, store
  <1>4. CASE ReadGeneration
    BY <1>4, SMT DEF ReadGeneration, store, SameTick, Idle
  <1>5. CASE TickRaises
    BY <1>5 DEF TickRaises, store, SameTick
  <1>6. CASE Restart
    BY <1>6 DEF Restart, store, SameTick
  <1>7. StartRouting \/ StopRouting \/ Capture \/ Elsewhere => Left
    BY DEF StartRouting, StopRouting, Capture, Elsewhere, store, threads
  <1>8. Classify \/ RecordSuggestion \/ Poll \/ Label \/ MatchSuggestion => Left
    BY DEF Classify, RecordSuggestion, Poll, Label, MatchSuggestion, store
  <1>9. Left => SameTick
    BY DEF SameTick
  <1> QED BY <1>2, <1>3, <1>4, <1>5, <1>6, <1>7, <1>8, <1>9, OtherSteps

\* Only record_autonomous_attempt writes an attempt.
LEMMA AttemptsFootprint ==
    ASSUME VisionTypes, [Next]_vars
    PROVE  RecordAttempt \/ UNCHANGED attempts
  BY SameTicks DEF SameTick, Decide, SubmitSort, store

\* The part of the invariant about autonomous sorts is kept.
LEMMA AutonomyStep ==
    ASSUME VisionTypes, AutonomyInv, [Next]_vars
    PROVE  AutonomyInv'
  <1>1. History
    BY HistoryKept
  <1>2. TickIsFirst
    BY DEF AutonomyInv, TickIsFirst
  <1>3. CASE UNCHANGED attempts
    <2>1. /\ \A i \in DOMAIN attempts' : attempts'[i].operation \in DOMAIN sorts'
          /\ AttemptsAreTheirSorts'
      BY <1>1, <1>3 DEF AutonomyInv, AttemptsAreTheirSorts, History
    <2>2. CASE SameTick
      <3>1. TickIsFirst'
        BY <1>1, <1>2, <1>3, <2>2, SMT DEF TickIsFirst, SameTick, Attempted, History, Idle,
              MayAutonomouslySort, RequiresOperatorConfirmation
      <3> QED BY <2>1, <3>1, SortsOnceStep DEF AutonomyInv, TickIsFirst
    <2>3. CASE Decide
      <3>1. /\ UNCHANGED <<suggestions, attempts>>
            /\ autonomist'.suggestion = Len(suggestions) /\ autonomist'.stage = "decided"
            /\ ~Attempted(Len(suggestions))
            /\ MayAutonomouslySort(suggestions[Len(suggestions)])
            /\ Len(suggestions) \in DOMAIN suggestions
        BY <2>3, SMT DEF Decide, Last, store, VisionTypes
      <3>2. TickIsFirst'
        BY <3>1 DEF TickIsFirst, Attempted, MayAutonomouslySort, RequiresOperatorConfirmation
      <3> QED BY <2>1, <3>2, SortsOnceStep DEF AutonomyInv, TickIsFirst
    <2>4. CASE SubmitSort
      <3> DEFINE s == autonomist.suggestion
      <3>1. autonomist \in ReadyTick /\ UNCHANGED suggestions
        BY <2>4, SMT DEF SubmitSort, VisionTypes, DecidedTick, AnsweredTick, Idle, store
      <3>2. /\ s \in Nat /\ s \in DOMAIN suggestions
            /\ MayAutonomouslySort(suggestions[s]) /\ ~Attempted(s)
        BY <3>1, SMT DEF AutonomyInv, ReadyTick, Idle
      <3>3. \/ autonomist' = Idle
            \/ \E o \in DOMAIN sorts' :
                  /\ sorts'[o].by = s
                  /\ autonomist' = [stage |-> "answered", suggestion |-> s, operation |-> o]
        <4>1. CASE \E o \in DOMAIN sorts :
                      /\ sorts[o].key = s
                      /\ autonomist' = [stage |-> "answered", suggestion |-> s, operation |-> o]
          BY <1>1, <4>1, SMT DEF History, AutonomyInv, SortsOnce
        <4>2. CASE /\ Admit(suggestions[s].slot, s, s)
                   /\ autonomist' = [stage |-> "answered", suggestion |-> s,
                                     operation |-> Len(sorts) + 1]
          <5>1. suggestions[s].slot \in Slot
            BY <3>2, Rows
          <5>2. Len(sorts) + 1 \in DOMAIN sorts' /\ sorts'[Len(sorts) + 1].by = s
            BY <3>2, <4>2, <5>1, Admitted
          <5> QED BY <4>2, <5>2
        <4> QED BY <2>4, <4>1, <4>2, Submissions
      <3>4. TickIsFirst'
        <4>1. CASE autonomist' = Idle
          BY <4>1 DEF TickIsFirst, Idle
        <4>2. ASSUME NEW o \in DOMAIN sorts', sorts'[o].by = s,
                     autonomist' = [stage |-> "answered", suggestion |-> s, operation |-> o]
              PROVE  TickIsFirst'
          <5>1. autonomist'.suggestion = s /\ autonomist'.operation = o
            BY <4>2
          <5> QED BY <1>3, <3>1, <3>2, <4>2, <5>1 DEF TickIsFirst, Attempted,
                     MayAutonomouslySort, RequiresOperatorConfirmation
        <4> QED BY <3>3, <4>1, <4>2
      <3> QED BY <2>1, <3>4, SortsOnceStep DEF AutonomyInv, TickIsFirst
    <2>5. CASE RecordAttempt
      <3>1. TickIsFirst'
        BY <2>5 DEF RecordAttempt, TickIsFirst, Idle
      <3> QED BY <2>1, <3>1, SortsOnceStep DEF AutonomyInv, TickIsFirst
    <2> QED BY <2>2, <2>3, <2>4, <2>5, SameTicks
  <1>4. CASE RecordAttempt
    <2>1. autonomist \in AnsweredTick
      <3>1. /\ autonomist \in DecidedTick \cup ReadyTick \cup AnsweredTick \cup {Idle}
            /\ autonomist.stage = "answered"
        BY <1>4 DEF RecordAttempt, VisionTypes
      <3>2. \A t \in DecidedTick : t.stage = "decided"
        BY DEF DecidedTick
      <3>3. \A t \in ReadyTick : t.stage = "ready"
        BY DEF ReadyTick
      <3>4. Idle.stage # "answered"
        BY DEF Idle
      <3> QED BY <3>1, <3>2, <3>3, <3>4
    <2> DEFINE row == [suggestion |-> autonomist.suggestion, operation |-> autonomist.operation]
    <2>2. row \in AttemptRow /\ attempts \in Seq(AttemptRow) /\ attempts' = Append(attempts, row)
      BY <1>4, <2>1 DEF RecordAttempt, AnsweredTick, AttemptRow, VisionTypes
    <2>3. /\ DOMAIN attempts' = DOMAIN attempts \cup {Len(attempts) + 1}
          /\ \A i \in DOMAIN attempts : attempts'[i] = attempts[i]
          /\ attempts'[Len(attempts) + 1].suggestion = autonomist.suggestion
          /\ attempts'[Len(attempts) + 1].operation = autonomist.operation
      BY <2>2, Appended, SMT
    <2>4. /\ autonomist.operation \in DOMAIN sorts
          /\ sorts[autonomist.operation].by = autonomist.suggestion
          /\ \A i \in DOMAIN attempts : attempts[i].suggestion # autonomist.suggestion
      BY <1>2, <1>4, SMT DEF RecordAttempt, TickIsFirst, Attempted, Idle
    <2>5. UNCHANGED sorts /\ autonomist' = Idle
      BY <1>4 DEF RecordAttempt
    <2>6. \A i \in DOMAIN attempts' : /\ attempts'[i].operation \in DOMAIN sorts'
                                      /\ sorts'[attempts'[i].operation].by = attempts'[i].suggestion
      BY <2>3, <2>4, <2>5 DEF AutonomyInv, AttemptsAreTheirSorts
    <2>7. \A i, j \in DOMAIN attempts' : attempts'[i].suggestion = attempts'[j].suggestion => i = j
      BY <2>3, <2>4, SMT DEF AutonomyInv, AttemptsAreTheirSorts
    <2> QED BY <2>5, <2>6, <2>7, SortsOnceStep DEF AutonomyInv, AttemptsAreTheirSorts, Idle
  <1> QED BY <1>3, <1>4, AttemptsFootprint

-----------------------------------------------------------------------------
(* Routing *)

\* Only these steps write suggestions, the run or the suggester's tick.
LEMMA RoutingFootprint ==
    ASSUME [Next]_vars
    PROVE  \/ StartRouting \/ StopRouting \/ Classify \/ RecordSuggestion \/ Restart
           \/ UNCHANGED <<suggestions, profile, claimed, runs>> /\ suggester' \in {suggester, Idle}
  <1> DEFINE Others == /\ UNCHANGED <<suggestions, profile, claimed, runs>>
                       /\ suggester' \in {suggester, Idle}
  <1>1. OperatorSorts \/ (\E o \in DOMAIN sorts : SortEnds(o)) \/ Capture => Others
    BY DEF OperatorSorts, SortEnds, Capture, store, routing, threads
  <1>2. Poll \/ Label \/ MatchSuggestion => Others
    BY DEF Poll, Label, MatchSuggestion, store, routing
  <1>3. Decide \/ ReadGeneration \/ SubmitSort \/ RecordAttempt => Others
    BY DEF Decide, ReadGeneration, SubmitSort, RecordAttempt, store, routing
  <1>4. TickRaises \/ Elsewhere => Others
    BY DEF TickRaises, Elsewhere, store, routing
  <1> QED BY <1>1, <1>2, <1>3, <1>4, OtherSteps

\* The chute of a fresh route: claimed by its class, if the run is dynamic.
LEMMA ClassifyStep ==
    ASSUME VisionTypes, RoutingInv, Classify
    PROVE  RoutingInv'
  <1>1. PICK r \in Reading : \E way \in Route(r.class) :
            /\ claimed' = way.claimed
            /\ suggester' = [stage |-> "routed", class |-> r.class, slot |-> way.slot,
                             confidence |-> r.confidence, primer |-> r.primer,
                             run |-> IF profile # NoProfile /\ profile.kind = "dynamic"
                                     THEN runs ELSE 0]
    BY DEF Classify
  <1>2. PICK way \in Route(r.class) :
            /\ claimed' = way.claimed
            /\ suggester'.class = r.class /\ suggester'.slot = way.slot
            /\ suggester'.run = IF DynamicRun THEN runs ELSE 0
    BY <1>1, SMT DEF DynamicRun
  <1>3. UNCHANGED <<suggestions, profile, runs>> /\ runs \in Nat
    BY DEF Classify, store, VisionTypes
  <1>4. r.class \in Slot
    BY VisionAssumption
  <1>5. CASE DynamicRun
    <2>1. way \in RouteDynamically(r.class)
      BY <1>2, <1>5, Routes
    <2>2. /\ Len(claimed') <= Len(profile.slots)
          /\ DOMAIN claimed \subseteq DOMAIN claimed'
          /\ \A i \in DOMAIN claimed : claimed'[i] = claimed[i]
          /\ \A i, j \in DOMAIN claimed' : claimed'[i] = claimed'[j] => i = j
          /\ \E i \in DOMAIN claimed' :
                claimed'[i] = suggester'.class /\ profile.slots[i] = suggester'.slot
      <3>1. /\ Len(way.claimed) <= Len(profile.slots)
            /\ DOMAIN claimed \subseteq DOMAIN way.claimed
            /\ \A i \in DOMAIN claimed : way.claimed[i] = claimed[i]
            /\ \A i, j \in DOMAIN way.claimed : way.claimed[i] = way.claimed[j] => i = j
            /\ \E i \in DOMAIN way.claimed :
                  way.claimed[i] = r.class /\ profile.slots[i] = way.slot
        BY <1>4, <1>5, <2>1, DynamicRoutes
      <3>2. claimed' = way.claimed /\ suggester'.class = r.class /\ suggester'.slot = way.slot
        BY <1>2
      <3> QED BY <3>1, <3>2
    <2>3. claimed' \in Seq(Slot)
      BY <1>2, <1>4, <1>5, <2>1, DynamicRoutes
    <2>4. \A s \in DOMAIN suggestions : suggestions[s].run = runs =>
              \E i \in DOMAIN claimed' : /\ claimed'[i] = suggestions[s].class
                                         /\ profile.slots[i] = suggestions[s].slot
      BY <1>5, <2>2, SMT DEF RoutingInv, HasClaim
    <2>5. /\ profile.slots \in Seq(Slot)
          /\ \A i, j \in DOMAIN profile.slots : profile.slots[i] = profile.slots[j] => i = j
      BY <1>5, Profiles DEF VisionTypes, DynamicRun
    <2>6. DOMAIN claimed' \subseteq DOMAIN profile.slots
      BY <2>2, <2>3, <2>5, SMT
    <2>7. \A s \in DOMAIN suggestions :
              suggestions[s].run = runs /\ suggestions[s].slot = suggester'.slot
              => suggestions[s].class = suggester'.class
      BY <2>2, <2>4, <2>5, <2>6, SMT
    <2>8. suggester'.run = runs
      BY <1>2, <1>5
    <2>9. runs <= runs /\ profile # NoProfile
      BY <1>3, <1>5, SMT DEF DynamicRun
    <2>10. /\ profile' # NoProfile => runs' > 0
           /\ \A s \in DOMAIN suggestions' : suggestions'[s].run <= runs'
           /\ ChutesAreNotShared'
      <3>1. /\ runs > 0 /\ \A s \in DOMAIN suggestions : suggestions[s].run <= runs
            /\ ChutesAreNotShared
        BY <2>9 DEF RoutingInv
      <3>2. ChutesAreNotShared'
        BY <1>3, <3>1, ZenonT(30) DEF ChutesAreNotShared
      <3> QED BY <1>3, <3>1, <3>2
    <2>11. \A s \in DOMAIN suggestions' : suggestions'[s].run = runs' =>
              HasClaim(suggestions[s].class, suggestions[s].slot)'
      BY <1>3, <2>4 DEF HasClaim
    <2>12. HasClaim(suggester.class, suggester.slot)'
      BY <1>3, <2>2 DEF HasClaim
    <2>13. /\ Len(claimed') <= Len(profile'.slots) /\ suggester'.run <= runs'
           /\ \A s \in DOMAIN suggestions' :
                suggestions'[s].run = suggester'.run /\ suggestions'[s].slot = suggester'.slot
                => suggestions'[s].class = suggester'.class
      BY <1>3, <2>2, <2>7, <2>8, <2>9
    <2> QED BY <2>2, <2>10, <2>11, <2>12, <2>13 DEF RoutingInv
  <1>6. CASE ~DynamicRun
    <2>1. ~DynamicRun' /\ suggester'.run = 0 /\ 0 <= runs
      BY <1>2, <1>3, <1>6, SMT DEF DynamicRun
    <2>2. ChutesAreNotShared /\ \A s \in DOMAIN suggestions : suggestions[s].run <= runs
      BY DEF RoutingInv
    <2>3. ChutesAreNotShared'
      BY <1>3, <2>2, ZenonT(30) DEF ChutesAreNotShared
    <2>4. profile' # NoProfile => runs' > 0
      BY <1>3 DEF RoutingInv
    <2> QED BY <1>3, <2>1, <2>2, <2>3, <2>4 DEF RoutingInv
  <1> QED BY <1>5, <1>6

\* A suggestion is recorded with the chute of its route, whatever became of the run.
LEMMA RecordStep ==
    ASSUME VisionTypes, RoutingInv, RecordSuggestion
    PROVE  RoutingInv'
  <1> DEFINE new == Len(suggestions) + 1
  <1>1. UNCHANGED <<profile, claimed, runs>> /\ suggester' = Idle /\ suggester # Idle
    BY SMT DEF RecordSuggestion, routing, Idle
  <1>2. /\ DOMAIN suggestions' = DOMAIN suggestions \cup {new}
        /\ \A s \in DOMAIN suggestions : suggestions'[s] = suggestions[s]
        /\ suggestions'[new].class = suggester.class /\ suggestions'[new].slot = suggester.slot
        /\ suggestions'[new].run = suggester.run
    BY Suggested, SMT
  <1> HIDE DEF new
  <1>3. /\ suggester.run <= runs
        /\ DynamicRun /\ suggester.run = runs => HasClaim(suggester.class, suggester.slot)
        /\ \A s \in DOMAIN suggestions :
              suggester.run # 0 /\ suggestions[s].run = suggester.run
              /\ suggestions[s].slot = suggester.slot
              => suggestions[s].class = suggester.class
    BY <1>1 DEF RoutingInv
  <1>4. ChutesAreNotShared'
    <2>1. ChutesAreNotShared
      BY DEF RoutingInv
    <2> QED BY <1>2, <1>3, <2>1, SMT DEF ChutesAreNotShared
  <1>5. \A s \in DOMAIN suggestions' :
            /\ suggestions'[s].run <= runs
            /\ DynamicRun /\ suggestions'[s].run = runs =>
                  HasClaim(suggestions'[s].class, suggestions'[s].slot)
    BY <1>2, <1>3 DEF RoutingInv
  <1> QED BY <1>1, <1>4, <1>5 DEF RoutingInv, DynamicRun, HasClaim

\* The part of the invariant about routing is kept.
LEMMA RoutingStep ==
    ASSUME VisionTypes, RoutingInv, [Next]_vars
    PROVE  RoutingInv'
  <1>1. runs \in Nat /\ \A s \in DOMAIN suggestions : suggestions[s].run \in Nat
    BY Rows DEF VisionTypes
  <1>2. suggester # Idle => suggester.run \in Nat
    BY DEF VisionTypes, RoutedTick
  <1>3. CASE StartRouting
    <2>1. /\ UNCHANGED <<suggestions, suggester>> /\ runs' = runs + 1 /\ claimed' = <<>>
          /\ profile' \in Profile
      BY <1>3 DEF StartRouting, StartRun, store, threads
    <2>2. DynamicRun' => 0 <= Len(profile'.slots)
      BY <2>1, Profiles, SMT DEF DynamicRun
    <2>3. /\ runs' > 0
          /\ DynamicRun' => Len(claimed') <= Len(profile'.slots)
          /\ \A i, j \in DOMAIN claimed' : claimed'[i] = claimed'[j] => i = j
      BY <1>1, <2>1, <2>2, SMT
    <2>4. \A s \in DOMAIN suggestions : /\ suggestions[s].run <= runs'
                                        /\ suggestions[s].run # runs'
      <3>1. \A s \in DOMAIN suggestions : suggestions[s].run <= runs
        BY DEF RoutingInv
      <3>2. \A n \in Nat : n <= runs => n <= runs + 1 /\ n # runs + 1
        BY <1>1, SMT
      <3> QED BY <1>1, <2>1, <3>1, <3>2
    <2>5. suggester # Idle => suggester.run <= runs' /\ suggester.run # runs'
      BY <1>2, <1>1, <2>1, SMT DEF RoutingInv
    <2>6. ChutesAreNotShared'
      BY <2>1, ZenonT(30) DEF RoutingInv, ChutesAreNotShared
    <2> QED BY <2>1, <2>3, <2>4, <2>5, <2>6 DEF RoutingInv
  <1>4. CASE StopRouting \/ Restart
    <2>1. /\ profile' = NoProfile /\ UNCHANGED <<suggestions, runs>>
          /\ suggester' = suggester \/ suggester' = Idle
      BY <1>4 DEF StopRouting, Restart, store, threads
    <2>2. ~DynamicRun'
      BY <2>1 DEF DynamicRun
    <2>3. ChutesAreNotShared
      BY DEF RoutingInv
    <2>4. ChutesAreNotShared'
      BY <2>1, <2>3, ZenonT(30) DEF ChutesAreNotShared
    <2>5. \A s \in DOMAIN suggestions' : suggestions'[s].run <= runs'
      BY <2>1 DEF RoutingInv
    <2>6. suggester' # Idle =>
             /\ suggester'.run <= runs'
             /\ \A s \in DOMAIN suggestions' :
                   /\ suggester'.run # 0 /\ suggestions'[s].run = suggester'.run
                   /\ suggestions'[s].slot = suggester'.slot
                   => suggestions'[s].class = suggester'.class
      BY <2>1 DEF RoutingInv
    <2> QED BY <2>1, <2>2, <2>4, <2>5, <2>6 DEF RoutingInv
  <1>5. CASE UNCHANGED <<suggestions, profile, claimed, runs>> /\ suggester' \in {suggester, Idle}
    BY <1>5, SMT DEF RoutingInv, DynamicRun, HasClaim, ChutesAreNotShared
  <1> QED BY <1>3, <1>4, <1>5, ClassifyStep, RecordStep, RoutingFootprint

-----------------------------------------------------------------------------
(* Outcomes *)

\* Only _match_suggestion writes an outcome.
LEMMA OutcomesFootprint ==
    ASSUME [Next]_vars
    PROVE  MatchSuggestion \/ UNCHANGED outcomes
  <1>1. OperatorSorts \/ (\E o \in DOMAIN sorts : SortEnds(o)) \/ Capture => UNCHANGED outcomes
    BY DEF OperatorSorts, SortEnds, Capture, store
  <1>2. StartRouting \/ StopRouting \/ Classify \/ RecordSuggestion => UNCHANGED outcomes
    BY DEF StartRouting, StopRouting, Classify, RecordSuggestion, store
  <1>3. Poll \/ Label \/ Restart \/ Elsewhere => UNCHANGED outcomes
    BY DEF Poll, Label, Restart, Elsewhere, store
  <1>4. Decide \/ ReadGeneration \/ SubmitSort \/ RecordAttempt \/ TickRaises => UNCHANGED outcomes
    BY DEF Decide, ReadGeneration, SubmitSort, RecordAttempt, TickRaises, store
  <1> QED BY <1>1, <1>2, <1>3, <1>4, OtherSteps

\* The part of the invariant about outcomes is kept.
LEMMA OutcomesStep ==
    ASSUME VisionTypes, FramesInv, AutonomyInv, OutcomesInv, [Next]_vars
    PROVE  OutcomesInv'
  <1>1. History
    BY HistoryKept
  <1>2. \A o : Labelled(o) => Labelled(o)'
    BY FramesFootprint, LabelledBy DEF Labelled
  <1>3. CASE UNCHANGED outcomes
    <2>1. \A m \in outcomes' : /\ m.suggestion \in DOMAIN suggestions'
                               /\ m.operation \in DOMAIN sorts'
                               /\ Labelled(m.operation)'
      BY <1>1, <1>2, <1>3 DEF OutcomesInv, History
    <2>2. OutcomesPairUp'
      BY <1>1, <1>3 DEF OutcomesInv, OutcomesPairUp, History
    <2>3. correlator'.stage = "label" =>
             /\ \E e \in examples' : e.operation = Head(correlator'.page)
             /\ \A m \in outcomes' : m.operation # Head(correlator'.page)
      <3>1. CASE correlator' \in {correlator, Idle}
        <4>1. correlator.stage = "label" =>
                 /\ Labelled(Head(correlator.page))
                 /\ \A m \in outcomes : m.operation # Head(correlator.page)
          BY DEF OutcomesInv
        <4>2. Idle.stage # "label"
          BY DEF Idle
        <4> QED BY <1>2, <1>3, <3>1, <4>1, <4>2, SMT DEF Labelled
      <3>2. CASE Poll
        BY <3>2, SMT DEF Poll
      <3>3. CASE Label
        <4> DEFINE o == Head(correlator.page)
        <4>1. correlator \in PageTick /\ correlator.page \in Seq(Nat) /\ correlator.page # <<>>
          BY <3>3, LabelledBy DEF PageTick
        <4>2. CASE correlator' = Turn(Tail(correlator.page))
          BY <4>1, <4>2, Turned
        <4>3. CASE /\ ~Labelled(o) /\ correlator' = [correlator EXCEPT !.stage = "label"]
                   /\ examples' = examples \cup
                         {[operation |-> o, frame |-> ClosestAtOrBefore(sorts[o].created)]}
          <5>1. correlator'.page = correlator.page
            BY <4>1, <4>3 DEF PageTick
          <5>2. \E e \in examples' : e.operation = o
            <6>1. [operation |-> o, frame |-> ClosestAtOrBefore(sorts[o].created)].operation = o
              OBVIOUS
            <6> QED BY <4>3, <6>1
          <5>3. \A m \in outcomes : m.operation # o
            BY <4>3 DEF OutcomesInv
          <5> QED BY <1>3, <5>1, <5>2, <5>3
        <4> QED BY <3>3, <4>2, <4>3, LabelledBy
      <3>4. CASE MatchSuggestion
        <4>1. correlator \in PageTick
          BY <3>4, SMT DEF MatchSuggestion, VisionTypes, Idle
        <4>2. correlator.page \in Seq(Nat) /\ correlator.page # <<>>
          BY <4>1 DEF PageTick
        <4> QED BY <3>4, <4>2, Turned DEF MatchSuggestion
      <3> QED BY <3>1, <3>2, <3>3, <3>4, FramesFootprint
    <2> QED BY <2>1, <2>2, <2>3 DEF OutcomesInv, Labelled
  <1>4. CASE MatchSuggestion
    <2> DEFINE o == Head(correlator.page)
               live == UnmatchedAtOrBefore(sorts[o].created)
    <2>1. correlator \in PageTick /\ correlator # Idle
      <3>1. correlator.stage = "label" /\ correlator \in PageTick \cup {Idle}
        BY <1>4 DEF MatchSuggestion, VisionTypes
      <3>2. Idle.stage # "label"
        BY DEF Idle
      <3> QED BY <3>1, <3>2
    <2>2. correlator.page \in Seq(Nat) /\ correlator.page # <<>>
      BY <2>1 DEF PageTick
    <2>3. o \in DOMAIN sorts
      BY <2>1, <2>2, SMT DEF FramesInv, Succeeded
    <2>4. Labelled(o) /\ \A m \in outcomes : m.operation # o
      BY <1>4 DEF MatchSuggestion, OutcomesInv
    <2>5. UNCHANGED <<sorts, suggestions, examples>>
      BY <1>4 DEF MatchSuggestion
    <2>6. live \subseteq DOMAIN suggestions /\ live \subseteq Nat
      BY Rows DEF UnmatchedAtOrBefore
    <2>7. \A s \in live : /\ suggestions[s].at <= sorts[o].created
                          /\ \A m \in outcomes : m.suggestion # s
      BY DEF UnmatchedAtOrBefore, Matched
    <2>8. outcomes' = outcomes \cup {[suggestion |-> s, operation |-> o] :
                                        s \in {t \in live : \A u \in live : u <= t}}
      BY <1>4 DEF MatchSuggestion
    <2> HIDE DEF o, live
    <2>9. \A m \in outcomes' \ outcomes :
             /\ m.suggestion \in live /\ m.operation = o
             /\ \A u \in live : u <= m.suggestion
             /\ m = [suggestion |-> m.suggestion, operation |-> o]
      BY <2>8, SMT
    <2>10. \A m, n \in outcomes' \ outcomes : m = n
      <3>1. \A m, n \in outcomes' \ outcomes : m.suggestion = n.suggestion
        BY <2>6, <2>9, SMT
      <3> QED BY <2>9, <3>1
    <2>11. \A m \in outcomes' : /\ m.suggestion \in DOMAIN suggestions'
                                /\ m.operation \in DOMAIN sorts'
                                /\ Labelled(m.operation)'
      BY <1>2, <2>3, <2>4, <2>5, <2>6, <2>9 DEF OutcomesInv
    <2>12. \A m \in outcomes' : suggestions'[m.suggestion].at <= sorts'[m.operation].created
      BY <2>5, <2>7, <2>9 DEF OutcomesInv, OutcomesPairUp
    <2>13. ASSUME NEW m \in outcomes', NEW n \in outcomes',
                  m.suggestion = n.suggestion \/ m.operation = n.operation
           PROVE  m = n
      <3>1. CASE m \in outcomes /\ n \in outcomes
        BY <2>13, <3>1 DEF OutcomesInv, OutcomesPairUp
      <3>2. CASE m \notin outcomes /\ n \notin outcomes
        BY <2>10, <3>2
      <3>3. CASE m \in outcomes /\ n \notin outcomes
        BY <2>4, <2>7, <2>9, <2>13, <3>3
      <3>4. CASE m \notin outcomes /\ n \in outcomes
        BY <2>4, <2>7, <2>9, <2>13, <3>4
      <3> QED BY <3>1, <3>2, <3>3, <3>4
    <2>14. correlator'.stage # "label"
      BY <1>4, <2>2, Turned DEF MatchSuggestion
    <2> QED BY <2>11, <2>12, <2>13, <2>14 DEF OutcomesInv, OutcomesPairUp
  <1> QED BY <1>3, <1>4, OutcomesFootprint

-----------------------------------------------------------------------------
(* The theorems *)

\* The service starts in the invariant.
LEMMA VisionStart == Init => VisionInv
  <1> SUFFICES ASSUME Init PROVE VisionInv
    OBVIOUS
  <1>1. /\ clock = 0 /\ sorts = <<>> /\ buffer = <<>> /\ captured = {} /\ examples = {}
        /\ suggestions = <<>> /\ outcomes = {} /\ attempts = <<>>
        /\ profile = NoProfile /\ claimed = <<>> /\ runs = 0
        /\ suggester = Idle /\ correlator = Idle /\ autonomist = Idle
    BY DEF Init
  <1>2. FramesInv
    BY <1>1, SMT DEF FramesInv, NewestStretch, HasClosest, LabelIsClosestFrame
  <1>3. AutonomyInv
    <2>1. DOMAIN sorts = {} /\ DOMAIN attempts = {}
      BY <1>1, SMT
    <2>2. autonomist.stage # "answered"
      BY <1>1 DEF Idle
    <2> QED BY <1>1, <2>1, <2>2 DEF AutonomyInv, SortsOnce, AttemptsAreTheirSorts
  <1>4. RoutingInv
    <2>1. ~DynamicRun
      BY <1>1 DEF DynamicRun
    <2>2. DOMAIN suggestions = {}
      BY <1>1, SMT
    <2> QED BY <1>1, <2>1, <2>2 DEF RoutingInv, ChutesAreNotShared
  <1>5. OutcomesInv
    BY <1>1 DEF OutcomesInv, OutcomesPairUp, Idle
  <1> QED BY <1>2, <1>3, <1>4, <1>5, VisionTypesInit DEF VisionInv

\* Every step keeps it.
LEMMA VisionStep == VisionInv /\ [Next]_vars => VisionInv'
  BY VisionTypesStep, FramesStep, AutonomyStep, RoutingStep, OutcomesStep DEF VisionInv

\* The invariant always holds.
LEMMA VisionAlways == Spec => []VisionInv
  BY VisionStart, VisionStep, PTL DEF Spec

\* A label is the last frame captured by the time its sort was admitted, whatever
\* the buffer evicted or a restart lost (poll_once, closest_at_or_before).
THEOREM LabelsAreClosest == Spec => []LabelIsClosestFrame
  <1>1. VisionInv => LabelIsClosestFrame
    BY DEF VisionInv, FramesInv
  <1> QED BY <1>1, VisionAlways, PTL

\* A suggestion is sorted once at most, to the chute it named and with a clear
\* primer, through lost answers and restarts (attempt_once, submit_sort).
THEOREM SuggestionsAreSortedOnce == Spec => []OneSortPerSuggestion
  <1>1. VisionInv => OneSortPerSuggestion
    BY DEF VisionInv, AutonomyInv, SortsOnce, OneSortPerSuggestion, MayAutonomouslySort,
           RequiresOperatorConfirmation
  <1> QED BY <1>1, VisionAlways, PTL

\* may_autonomously_sort was true, for the chute it was sorted to, of every suggestion
\* that was sorted autonomously.
GatePassed ==
    \A o \in DOMAIN sorts : sorts[o].by # 0 =>
        /\ MayAutonomouslySort(suggestions[sorts[o].by])
        /\ sorts[o].slot \in DOMAIN Threshold
        /\ suggestions[sorts[o].by].confidence >= Threshold[sorts[o].slot]

\* No sort is submitted around the gate: the decision of attempt_once is still true
\* of the suggestion when the daemon admits the sort.  The threshold is that
\* of the chute it was routed to, which a profile may map from another class.
THEOREM NoSortAroundTheGate == Spec => []GatePassed
  <1>1. VisionInv => GatePassed
    BY DEF VisionInv, AutonomyInv, SortsOnce, GatePassed, MayAutonomouslySort
  <1> QED BY <1>1, VisionAlways, PTL

\* A recorded attempt names the sort its own suggestion caused, and there is one
\* attempt per suggestion (record_autonomous_attempt).
THEOREM AttemptsNameTheirSorts == Spec => []AttemptsAreTheirSorts
  <1>1. VisionInv => AttemptsAreTheirSorts
    BY DEF VisionInv, AutonomyInv
  <1> QED BY <1>1, VisionAlways, PTL

\* In a dynamic run two classes never share a chute, also when the run is stopped or
\* replaced between a route and its record (_route_dynamic, record_suggestion).
THEOREM DynamicChutesAreOwn == Spec => []ChutesAreNotShared
  <1>1. VisionInv => ChutesAreNotShared
    BY DEF VisionInv, RoutingInv
  <1> QED BY <1>1, VisionAlways, PTL

\* An outcome pairs a sort with an earlier suggestion, and neither is in a second one
\* (_match_suggestion).
THEOREM OutcomesArePairs == Spec => []OutcomesPairUp
  <1>1. VisionInv => OutcomesPairUp
    BY DEF VisionInv, OutcomesInv
  <1> QED BY <1>1, VisionAlways, PTL
=============================================================================
