------------------------------ MODULE MCVision ------------------------------
(***************************************************************************)
(* Vision for TLC.                                                         *)
(***************************************************************************)
EXTENDS Vision, TLC

\* Class 1 may be sorted autonomously, with confidence 2.
Thresholds == 1 :> 2

Readings ==
    {[class |-> 1, confidence |-> 2, primer |-> "clear"],
     [class |-> 1, confidence |-> 2, primer |-> "unknown"],
     [class |-> 2, confidence |-> 2, primer |-> "clear"]}

Fixed == [kind |-> "fixed", map |-> 2 :> 1, overflow |-> 2]
\* A run with a chute for every class, in another order, and one with a chute too few.
Roomy == [kind |-> "dynamic", slots |-> <<2, 1>>]
Tight == [kind |-> "dynamic", slots |-> <<1>>]
Profiles == {Fixed, Roomy, Tight}

\* One class has enough examples, and one model was trained and activated before.
Before == [examples |-> 1 :> 1 @@ 2 :> 0, models |-> 1, activations |-> <<1>>]

\* A corner of the state space: how much happens of each kind.
Corner(time, ofSorts, ofSuggestions, ofRuns, ofModels, ofActivations, ofLives) ==
    [time |-> time, sorts |-> ofSorts, suggestions |-> ofSuggestions, runs |-> ofRuns,
     models |-> ofModels, activations |-> ofActivations, lives |-> ofLives]

\* Many sorts; restarts between them; routing with restarts; many routed
\* suggestions; training, activations and rollbacks.
Corners ==
    {Corner(5, 3, 2, 0, 1, 1, 1), Corner(5, 2, 2, 0, 1, 1, 2), Corner(4, 1, 1, 1, 1, 1, 2),
     Corner(4, 0, 3, 2, 1, 1, 1), Corner(3, 1, 0, 0, 2, 4, 2)}
=============================================================================
