------------------------------- MODULE Vision -------------------------------
(***************************************************************************)
(* cs71-vision: the capture, suggestion, correlation and autonomy loops,   *)
(* the training job and the API that activates models, starts routing runs *)
(* and records reviews, around one store (vision.db) and one daemon.       *)
(*                                                                         *)
(* Each loop is a thread of its own.  A tick is split where it calls the   *)
(* store, the routing session or the daemon, so that the ticks interleave  *)
(* there.  Timestamps come from one clock and differ.                      *)
(*                                                                         *)
(* Every behaviour is bounded by one member of Bounds, so that a model can *)
(* explore long runs of the loops, and many activations, without the       *)
(* product of both.                                                        *)
(***************************************************************************)
EXTENDS Naturals, Sequences, FiniteSets

CONSTANTS
    Slot,            \* chutes; class labels are numbers of the same kind
    Reading,         \* what a classifier may say: class, confidence and primer, which
                     \* is "unknown" as long as no primer detector exists
    Threshold,       \* VisionConfig.autonomy_thresholds
    Profile,         \* the routing profiles an operator may start
    Capacity,        \* FrameBuffer's capacity
    PageLimit,       \* recent_sort_successes' limit
    Minimum,         \* minimum_examples_per_class
    Past,            \* what the store already holds: examples per class, models,
                     \* activations
    Bounds           \* bounds on how much happens; of each behaviour

NoProfile == [kind |-> "none"]

ASSUME VisionAssumption ==
    /\ Slot \subseteq Nat
    /\ \A r \in Reading : /\ r.class \in Slot /\ r.confidence \in Nat
                          /\ r.primer \in {"unknown", "clear", "present"}
    /\ DOMAIN Threshold \subseteq Slot /\ \A c \in DOMAIN Threshold : Threshold[c] \in Nat
    /\ \A p \in Profile :   \* validate_profile
          \/ /\ p.kind = "fixed"
             /\ p.overflow \in Slot /\ \A c \in DOMAIN p.map : p.map[c] \in Slot
          \/ /\ p.kind = "dynamic" /\ p.slots \in Seq(Slot)
             /\ \A i, j \in DOMAIN p.slots : p.slots[i] = p.slots[j] => i = j
    /\ Past.examples \in [Slot -> Nat] /\ Past.models \in Nat
    /\ \A i \in DOMAIN Past.activations : Past.activations[i] \in 1..Past.models
    /\ {Capacity, PageLimit, Minimum} \subseteq Nat \ {0}
    /\ Bounds \subseteq [{"time", "sorts", "suggestions", "runs", "models", "activations",
                         "lives"} -> Nat]

VARIABLES
    clock,
    sorts,        \* the daemon's sort operations, in admission order
    buffer,       \* FrameBuffer: capture times, oldest first
    captured,     \* auxiliary: every capture time
    examples,     \* the examples table: operation and frame, of the new examples
    models,       \* the models table: how many versions
    activations,  \* the activations table: versions, in order
    suggestions,  \* the suggestions table, in order
    outcomes,     \* the suggestion_outcomes table
    attempts,     \* the autonomous_attempts table, in order
    reviews,      \* the autonomous_reviews table: reviewed attempts
    profile, claimed,  \* RoutingSession: the run's profile, and its claims in order
    runs,         \* auxiliary: how many runs were started
    suggester, correlator, autonomist, trainer, rollback,  \* what a tick holds
    lives,
    bound         \* the member of Bounds that bounds this behaviour

store == <<examples, models, activations, suggestions, outcomes, attempts, reviews>>
routing == <<profile, claimed, runs>>
threads == <<suggester, correlator, autonomist, trainer, rollback>>
vars == <<clock, sorts, buffer, captured, store, routing, threads, lives, bound>>

Idle == [stage |-> "idle"]

Init ==
    /\ clock = 0 /\ sorts = <<>> /\ buffer = <<>> /\ captured = {}
    /\ examples = {} /\ models = Past.models /\ activations = Past.activations /\ suggestions = <<>>
    /\ outcomes = {} /\ attempts = <<>> /\ reviews = {}
    /\ profile = NoProfile /\ claimed = <<>> /\ runs = 0
    /\ suggester = Idle /\ correlator = Idle /\ autonomist = Idle /\ trainer = Idle
    /\ rollback = Idle /\ lives = 1 /\ bound \in Bounds

Last(s) == s[Len(s)]

\* datetime.now
Stamp == clock < bound.time /\ clock' = clock + 1

-----------------------------------------------------------------------------
(* The daemon *)

\* The generation the autonomist has read is no longer the daemon's.
Outdated ==
    autonomist' = IF autonomist.stage = "ready" THEN [autonomist EXCEPT !.fresh = FALSE]
                  ELSE autonomist

\* OperationDomain.submit, as far as the vision service sees it.  An operator's key
\* is 0 here; `by` is auxiliary, the suggestion behind an autonomous sort.
Admit(slot, key, by) ==
    /\ Len(sorts) < bound.sorts
    /\ Stamp
    /\ sorts' = Append(sorts, [created |-> clock', slot |-> slot, key |-> key, by |-> by,
                               state |-> "accepted"])

OperatorSorts ==
    /\ \E s \in Slot : Admit(s, 0, 0)
    /\ Outdated
    /\ UNCHANGED <<buffer, captured, store, routing, suggester, correlator, trainer, rollback,
                   lives, bound>>

\* The sort ends.
SortEnds(o) ==
    /\ sorts[o].state = "accepted"
    /\ \E s \in {"succeeded", "failed"} : sorts' = [sorts EXCEPT ![o].state = s]
    /\ Outdated
    /\ UNCHANGED <<clock, buffer, captured, store, routing, suggester, correlator, trainer,
                   rollback, lives, bound>>

-----------------------------------------------------------------------------
(* Capture *)

\* FrameBuffer.add: the oldest frame makes room.
Room == IF Len(buffer) = Capacity THEN Tail(buffer) ELSE buffer

\* CaptureLoop._run
Capture ==
    /\ Stamp
    /\ captured' = captured \cup {clock'}
    /\ buffer' = Append(Room, clock')
    /\ UNCHANGED <<sorts, store, routing, threads, lives, bound>>

\* Mutant: any frame of the buffer, the latest one.
LatestAnyway(moment) ==
    IF buffer = <<>> THEN 0 ELSE Last(buffer)

\* FrameBuffer.closest_at_or_before: 0 is no frame.
ClosestAtOrBefore(moment) ==
    LET older == {buffer[i] : i \in {j \in DOMAIN buffer : buffer[j] <= moment}}
    IN IF older = {} THEN 0 ELSE CHOOSE f \in older : \A g \in older : g <= f

-----------------------------------------------------------------------------
(* Routing *)

\* RoutingSession.start
StartRun(p) ==
    /\ profile' = p /\ claimed' = <<>> /\ runs' = runs + 1

StartRouting ==
    /\ runs < bound.runs
    /\ \E p \in Profile : StartRun(p)
    /\ UNCHANGED <<clock, sorts, buffer, captured, store, threads, lives, bound>>

\* RoutingSession.stop
StopRouting ==
    /\ profile # NoProfile
    /\ profile' = NoProfile /\ claimed' = <<>>
    /\ UNCHANGED <<clock, sorts, buffer, captured, store, runs, threads, lives, bound>>

Claims(class) == {i \in DOMAIN claimed : claimed[i] = class}

\* Mutant: a class that finds no chute of its own takes the last one.
RouteDynamicallyFull(class) ==
    LET n == Len(profile.slots) IN
    IF Claims(class) # {} THEN {[slot |-> profile.slots[CHOOSE i \in Claims(class) : TRUE],
                                 claimed |-> claimed]}
    ELSE IF Len(claimed) >= n THEN {[slot |-> profile.slots[n], claimed |-> claimed]}
    ELSE {[slot |-> profile.slots[Len(claimed) + 1], claimed |-> Append(claimed, class)]}

\* _route_dynamic: the chute and the claims after; nothing if every chute is taken.
RouteDynamically(class) ==
    IF Claims(class) # {} THEN {[slot |-> profile.slots[CHOOSE i \in Claims(class) : TRUE],
                                 claimed |-> claimed]}
    ELSE IF Len(claimed) >= Len(profile.slots) THEN {}
    ELSE {[slot |-> profile.slots[Len(claimed) + 1], claimed |-> Append(claimed, class)]}

\* RoutingSession.route
Route(class) ==
    CASE profile = NoProfile -> {[slot |-> class, claimed |-> claimed]}
      [] profile.kind = "dynamic" -> RouteDynamically(class)
      [] OTHER -> {[slot |-> IF class \in DOMAIN profile.map THEN profile.map[class]
                             ELSE profile.overflow,
                    claimed |-> claimed]}

-----------------------------------------------------------------------------
(* Suggestions *)

\* suggest_once up to the route: the active model, the latest frame, the model's
\* answer and its chute.  classify_frame itself never says anything of the primer but
\* "unknown"; the other readings are there for the gate behind it, which is written
\* (and unit tested) for a detector that is to come.
Classify ==
    /\ suggester = Idle /\ Len(suggestions) < bound.suggestions
    /\ activations # <<>> /\ buffer # <<>>
    /\ \E r \in Reading : \E way \in Route(r.class) :
          /\ claimed' = way.claimed
          /\ suggester' = [stage |-> "routed", class |-> r.class, slot |-> way.slot,
                           confidence |-> r.confidence, primer |-> r.primer,
                           run |-> IF profile # NoProfile /\ profile.kind = "dynamic"
                                   THEN runs ELSE 0]
    /\ UNCHANGED <<clock, sorts, buffer, captured, store, profile, runs, correlator, autonomist,
                   trainer, rollback, lives, bound>>

\* record_suggestion
RecordSuggestion ==
    /\ suggester.stage = "routed"
    /\ Stamp
    /\ suggestions' = Append(suggestions,
                             [class |-> suggester.class, slot |-> suggester.slot,
                              confidence |-> suggester.confidence, primer |-> suggester.primer,
                              run |-> suggester.run, at |-> clock'])
    /\ suggester' = Idle
    /\ UNCHANGED <<sorts, buffer, captured, examples, models, activations, outcomes, attempts,
                   reviews, routing, correlator, autonomist, trainer, rollback, lives, bound>>

-----------------------------------------------------------------------------
(* Correlation *)

Labelled(o) == \E e \in examples : e.operation = o
Matched(s) == \E m \in outcomes : m.suggestion = s
Succeeded == {o \in DOMAIN sorts : sorts[o].state = "succeeded"}

\* recent_operations and recent_sort_successes: the newest, newest first.  There is
\* exactly one such page.
Page ==
    LET newest == {o \in Succeeded : Cardinality({p \in Succeeded : p >= o}) <= PageLimit}
    IN {page \in UNION {[1..n -> newest] : n \in 0..PageLimit} :
          /\ {page[i] : i \in DOMAIN page} = newest
          /\ \A i, j \in DOMAIN page : i < j => page[i] > page[j]}

\* poll_once: ask the daemon.
Poll ==
    /\ correlator = Idle
    /\ \E page \in Page \ {<<>>} : correlator' = [stage |-> "page", page |-> page]
    /\ UNCHANGED <<clock, sorts, buffer, captured, store, routing, suggester, autonomist, trainer,
                   rollback, lives, bound>>

Turn(page) == IF page = <<>> THEN Idle ELSE [stage |-> "page", page |-> page]

\* poll_once for the next success: nothing without a frame, and never twice.
Label ==
    /\ correlator.stage = "page"
    /\ LET o == Head(correlator.page)
           frame == ClosestAtOrBefore(sorts[o].created)
       IN IF Labelled(o) \/ frame = 0
          THEN correlator' = Turn(Tail(correlator.page)) /\ UNCHANGED examples
          ELSE /\ examples' = examples \cup {[operation |-> o, frame |-> frame]}
               /\ correlator' = [correlator EXCEPT !.stage = "label"]
    /\ UNCHANGED <<clock, sorts, buffer, captured, models, activations, suggestions, outcomes,
                   attempts, reviews, routing, suggester, autonomist, trainer, rollback, lives, bound>>

\* Mutant: the newest unmatched suggestion, whenever it was made.
UnmatchedAtAnyTime(moment) == {s \in DOMAIN suggestions : ~Matched(s)}

\* unmatched_suggestion_at_or_before
UnmatchedAtOrBefore(moment) ==
    {s \in DOMAIN suggestions : ~Matched(s) /\ suggestions[s].at <= moment}

\* _match_suggestion and record_suggestion_outcome
MatchSuggestion ==
    /\ correlator.stage = "label"
    /\ LET o == Head(correlator.page)
           live == UnmatchedAtOrBefore(sorts[o].created)
       IN outcomes' = outcomes \cup {[suggestion |-> s, operation |-> o] :
                                        s \in {t \in live : \A u \in live : u <= t}}
    /\ correlator' = Turn(Tail(correlator.page))
    /\ UNCHANGED <<clock, sorts, buffer, captured, examples, models, activations, suggestions,
                   attempts, reviews, routing, suggester, autonomist, trainer, rollback, lives, bound>>

-----------------------------------------------------------------------------
(* Autonomous sorts *)

\* requires_operator_confirmation: unknown asks for a person too.
RequiresOperatorConfirmation(primer) == primer # "clear"

\* may_autonomously_sort: the primer first, then the threshold.
MayAutonomouslySort(s) ==
    /\ ~RequiresOperatorConfirmation(s.primer)
    /\ s.slot \in DOMAIN Threshold
    /\ s.confidence >= Threshold[s.slot]

\* Mutant: a key of its own for every tick.
IdempotencyKeyOfTick(s) == s + (bound.suggestions + 1) * clock

\* _idempotency_key
IdempotencyKey(s) == s

\* Mutant: earlier attempts are not looked up.
NeverAttempted(s) == FALSE

\* autonomous_attempt_exists
Attempted(s) == \E i \in DOMAIN attempts : attempts[i].suggestion = s

\* attempt_once up to the decision.
Decide ==
    /\ autonomist = Idle /\ suggestions # <<>>
    /\ ~Attempted(Len(suggestions)) /\ MayAutonomouslySort(Last(suggestions))
    /\ autonomist' = [stage |-> "decided", suggestion |-> Len(suggestions)]
    /\ UNCHANGED <<clock, sorts, buffer, captured, store, routing, suggester, correlator, trainer,
                   rollback, lives, bound>>

\* current_generation
ReadGeneration ==
    /\ autonomist.stage = "decided"
    /\ autonomist' = [stage |-> "ready", suggestion |-> autonomist.suggestion, fresh |-> TRUE]
    /\ UNCHANGED <<clock, sorts, buffer, captured, store, routing, suggester, correlator, trainer,
                   rollback, lives, bound>>

\* submit_sort: the daemon replays a known key, refuses a stale generation or
\* admits the sort.  The answer may be lost.
SubmitSort ==
    /\ autonomist.stage = "ready"
    /\ LET s == autonomist.suggestion
           key == IdempotencyKey(s)
           known == {o \in DOMAIN sorts : sorts[o].key = key}
           Answer(o) == autonomist' \in {Idle, [stage |-> "answered", suggestion |-> s, operation |-> o]}
       IN \/ /\ known # {}
             /\ Answer(CHOOSE o \in known : TRUE)
             /\ UNCHANGED <<clock, sorts>>
          \/ /\ known = {} /\ autonomist.fresh
             /\ Admit(suggestions[s].slot, key, s)
             /\ Answer(Len(sorts) + 1)
          \/ /\ known = {} /\ ~autonomist.fresh
             /\ autonomist' = Idle
             /\ UNCHANGED <<clock, sorts>>
    /\ UNCHANGED <<buffer, captured, store, routing, suggester, correlator, trainer, rollback,
                   lives, bound>>

\* record_autonomous_attempt
RecordAttempt ==
    /\ autonomist.stage = "answered"
    /\ attempts' = Append(attempts, [suggestion |-> autonomist.suggestion,
                                     operation |-> autonomist.operation])
    /\ autonomist' = Idle
    /\ UNCHANGED <<clock, sorts, buffer, captured, examples, models, activations, suggestions,
                   outcomes, reviews, routing, suggester, correlator, trainer, rollback, lives, bound>>

\* record_autonomous_review: one verdict per attempt.
Review(i) ==
    /\ i \notin reviews
    /\ reviews' = reviews \cup {i}
    /\ UNCHANGED <<clock, sorts, buffer, captured, examples, models, activations, suggestions,
                   outcomes, attempts, routing, threads, lives, bound>>

\* A tick raises: the store fails, or the capture thread adds a frame while the
\* buffer is searched.  The loop logs it and ticks again later.
TickRaises ==
    /\ \/ /\ suggester # Idle /\ suggester' = Idle
          /\ UNCHANGED <<correlator, autonomist>>
       \/ /\ correlator # Idle /\ correlator' = Idle
          /\ UNCHANGED <<suggester, autonomist>>
       \/ /\ autonomist # Idle /\ autonomist' = Idle
          /\ UNCHANGED <<suggester, correlator>>
    /\ UNCHANGED <<clock, sorts, buffer, captured, store, routing, trainer, rollback, lives, bound>>

-----------------------------------------------------------------------------
(* Training, activation and rollback *)

\* TrainingJob.trigger: a run in flight is not joined by a second.  The run reads
\* the examples first.
Trigger ==
    /\ trainer = Idle /\ models < bound.models
    /\ trainer' = [stage |-> "training", from |-> examples]
    /\ UNCHANGED <<clock, sorts, buffer, captured, store, routing, suggester, correlator,
                   autonomist, rollback, lives, bound>>

\* train_candidate: the classes that clear the floor.
Included(set) ==
    {c \in Slot : Past.examples[c] + Cardinality({e \in set : sorts[e.operation].slot = c})
                      >= Minimum}

\* TrainingJob._run: a candidate needs two classes, and the run may fail before it
\* records one.
TrainingEnds ==
    /\ trainer.stage = "training"
    /\ \/ Cardinality(Included(trainer.from)) >= 2 /\ models' = models + 1
       \/ UNCHANGED models
    /\ trainer' = Idle
    /\ UNCHANGED <<clock, sorts, buffer, captured, examples, activations, suggestions, outcomes,
                   attempts, reviews, routing, suggester, correlator, autonomist, rollback, lives, bound>>

\* DatasetStore.activate, for _activate_body
Activate(v) ==
    /\ Len(activations) < bound.activations
    /\ activations' = Append(activations, v)
    /\ UNCHANGED <<clock, sorts, buffer, captured, examples, models, suggestions, outcomes,
                   attempts, reviews, routing, threads, lives, bound>>

\* _rollback_body reads the history, and activates the last but one.
RollBackFrom ==
    /\ rollback = Idle /\ Len(activations) >= 2
    /\ rollback' = [stage |-> "chosen", version |-> activations[Len(activations) - 1]]
    /\ UNCHANGED <<clock, sorts, buffer, captured, store, routing, suggester, correlator,
                   autonomist, trainer, lives, bound>>

RollBack ==
    /\ rollback.stage = "chosen" /\ Len(activations) < bound.activations
    /\ activations' = Append(activations, rollback.version)
    /\ rollback' = Idle
    /\ UNCHANGED <<clock, sorts, buffer, captured, examples, models, suggestions, outcomes,
                   attempts, reviews, routing, suggester, correlator, autonomist, trainer, lives, bound>>

\* The service stops at any point and starts again: only the store is left.
Restart ==
    /\ lives < bound.lives
    /\ lives' = lives + 1
    /\ buffer' = <<>> /\ profile' = NoProfile /\ claimed' = <<>>
    /\ suggester' = Idle /\ correlator' = Idle /\ autonomist' = Idle
    /\ trainer' = Idle /\ rollback' = Idle
    /\ UNCHANGED <<clock, sorts, captured, store, runs, bound>>

Next ==
    \/ OperatorSorts \/ \E o \in DOMAIN sorts : SortEnds(o)
    \/ Capture \/ StartRouting \/ StopRouting
    \/ Classify \/ RecordSuggestion
    \/ Poll \/ Label \/ MatchSuggestion
    \/ Decide \/ ReadGeneration \/ SubmitSort \/ RecordAttempt \/ TickRaises
    \/ \E i \in DOMAIN attempts : Review(i)
    \/ Trigger \/ TrainingEnds \/ \E v \in 1..models : Activate(v)
    \/ RollBackFrom \/ RollBack
    \/ Restart

Spec == Init /\ [][Next]_vars

-----------------------------------------------------------------------------
(* Properties *)

\* "never guessed at from a frame alone": an example is of a sort that succeeded, and
\* its frame is the last one captured by the time that sort was admitted, although
\* frames are evicted, polls come late and restarts empty the buffer.
LabelIsClosestFrame ==
    \A e \in examples :
        LET created == sorts[e.operation].created
        IN /\ e.operation \in Succeeded
           /\ e.frame \in captured /\ e.frame <= created
           /\ ~\E f \in captured : e.frame < f /\ f <= created

\* "cs71d itself collapses the two requests into one operation": a suggestion is
\* sorted at most once, through lost answers and restarts between the submission
\* and its record, to the chute it named, and only if its primer reading was
\* confidently clear (SAF-09).
OneSortPerSuggestion ==
    \A o \in DOMAIN sorts : sorts[o].by # 0 =>
        /\ suggestions[sorts[o].by].primer = "clear"
        /\ suggestions[sorts[o].by].slot = sorts[o].slot
        /\ \A p \in DOMAIN sorts : sorts[p].by = sorts[o].by => p = o

\* A recorded attempt names the operation that its own suggestion caused, and no
\* suggestion is attempted twice; a verdict is about what was really sorted.
AttemptsAreTheirSorts ==
    \A i \in DOMAIN attempts :
        /\ sorts[attempts[i].operation].by = attempts[i].suggestion
        /\ \A j \in DOMAIN attempts : attempts[i].suggestion = attempts[j].suggestion => i = j

\* In one dynamic run two classes never share a chute, over all the suggestions
\* made from it.
ChutesAreNotShared ==
    \A s, t \in DOMAIN suggestions :
        /\ suggestions[s].run # 0 /\ suggestions[s].run = suggestions[t].run
        /\ suggestions[s].slot = suggestions[t].slot
        => suggestions[s].class = suggestions[t].class

\* An outcome compares a sort with a suggestion made before it; each of the two is
\* in one outcome only.
OutcomesPairUp ==
    \A m \in outcomes :
        /\ suggestions[m.suggestion].at <= sorts[m.operation].created
        /\ \A n \in outcomes :
              m.suggestion = n.suggestion \/ m.operation = n.operation => m = n
=============================================================================
