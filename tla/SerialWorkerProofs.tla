------------------------- MODULE SerialWorkerProofs -------------------------
(***************************************************************************)
(* Proofs of the safety properties of SerialWorker, for every set of       *)
(* items and stops, every queue capacity and every number of reconnect     *)
(* attempts.                                                               *)
(*                                                                         *)
(* The argument is one inductive invariant, WorkerInv.  Its core is        *)
(* ExecutingIsWatched: a command the controller may still be executing is  *)
(* either the one the thread waits for, or the thread is on a path on      *)
(* which the label "send" is only reached again through VerifyV1 or        *)
(* StopTrusted, after which nothing is executing.  ThreadPosition says     *)
(* what the lifecycle state, the session and the transport can be at each  *)
(* label of that path.                                                     *)
(***************************************************************************)
EXTENDS SerialWorker, TLAPS

\* Zenon proves most leaves; those that need arithmetic or sequences cite SMT.
USE Zenon

-----------------------------------------------------------------------------
(* The normal lane as a set *)

\* Nothing is queued in an empty lane.
LEMMA EmptyLane == Range(<<>>) = {}
BY SMT DEF Range

\* submit's append adds exactly the submitted item to what is queued.
LEMMA LaneAppend ==
  ASSUME NEW S, NEW s \in Seq(S), NEW x \in S
  PROVE  Range(Append(s, x)) = Range(s) \cup {x}
<1> DEFINE t == Append(s, x)
<1>1. /\ Len(s) \in Nat /\ DOMAIN s = 1..Len(s)
      /\ DOMAIN t = 1..(Len(s) + 1) /\ t[Len(s) + 1] = x
      /\ \A k \in 1..Len(s) : t[k] = s[k]
  BY SMT
<1>2. \A k \in 1..(Len(s) + 1) : k \in 1..Len(s) \/ k = Len(s) + 1
  BY <1>1, SMT
<1>3. \A k \in 1..Len(s) : k \in 1..(Len(s) + 1)
  BY <1>1, SMT
<1>4. Len(s) + 1 \in 1..(Len(s) + 1)
  BY <1>1, SMT
<1> HIDE DEF t
<1>5. Range(t) = Range(s) \cup {x}
  BY <1>1, <1>2, <1>3, <1>4 DEF Range
<1> QED
  BY <1>5 DEF t

-----------------------------------------------------------------------------
(* The type invariant *)

\* A worker that was just constructed is well typed.
LEMMA TypeInit == WorkerInit => WorkerTypeOK
<1> SUFFICES ASSUME WorkerInit PROVE WorkerTypeOK
  OBVIOUS
<1>1. stopRequested \in BOOLEAN
  BY DEF WorkerInit
<1>2. normal \in Seq(Item) /\ attempts \in 0..MaxReconnectAttempts
  BY WorkerAssumption, SMT DEF WorkerInit
<1> QED
  BY <1>1, <1>2
     DEF WorkerInit, WorkerTypeOK, WorkerState, ConnectionState, Outcome, Fate, PC

\* Every step of the thread, of a caller and of the controller preserves types.
LEMMA TypeStep ==
  ASSUME WorkerTypeOK, [WorkerNext]_workerVars
  PROVE  WorkerTypeOK'
<1> USE WorkerAssumption
    DEF WorkerTypeOK, shared, outside, local, Item, Session, Future, WorkerState,
        ConnectionState, PC, Outcome, Fate, Refusal, Withdrawal
<1>1. CASE Connecting
  BY <1>1, SMT DEF Connecting, Publish, Goto
<1>2. CASE OpenTransport
  BY <1>2, SMT DEF OpenTransport, Publish, Goto
<1>3. CASE VerifyV1
  BY <1>3, SMT DEF VerifyV1, Publish, Goto, Ended
<1>4. CASE ActivateV2
  BY <1>4, SMT DEF ActivateV2, Publish, Goto, Return
<1>5. CASE ConnectFails
  <2>1. transport' \in {"closed", "open"} /\ state' \in WorkerState /\ leaked' \in BOOLEAN
    BY <1>5 DEF ConnectFails, CloseTransport, MarkedFailed, Publish
  <2> QED
    BY <1>5, <2>1, SMT DEF ConnectFails, Publish, Goto, Resolve
<1>6. CASE Began
  BY <1>6, SMT DEF Began, Goto
<1>7. CASE NextAction
  BY <1>7, SMTT(30) DEF NextAction, Goto
<1>8. CASE GatePasses
  BY <1>8, SMT DEF GatePasses, Goto
<1>9. CASE Transmit
  <2>1. fate' \in [Item -> Fate]
    BY <1>9 DEF Transmit
  <2> QED
    BY <1>9, <2>1, SMT DEF Transmit, Goto
<1>10. CASE ReadTerminal
  BY <1>10, SMT DEF ReadTerminal, Goto
<1>11. CASE Interrupted
  BY <1>11, SMT DEF Interrupted, Goto, Resolve, Ended
<1>12. CASE RequestFails
  BY <1>12, SMT DEF RequestFails, Goto, Resolve, Ended
<1>13. CASE Deliver
  BY <1>13, SMT DEF Deliver, Goto, Resolve
<1>14. CASE InvalidateResult
  BY <1>14, SMT DEF InvalidateResult, Goto, Resolve
<1>15. CASE PublishProfile
  BY <1>15, SMT DEF PublishProfile, Goto
<1>16. CASE ProfileFails
  BY <1>16, SMT DEF ProfileFails, Goto
<1>17. CASE StopTrusted
  BY <1>17, SMT DEF StopTrusted, Goto, Ended
<1>18. CASE StopUnsafe
  BY <1>18, SMT DEF StopUnsafe, Goto
<1>19. CASE ResolveStop
  <2>1. stopRequested' \in BOOLEAN
    BY <1>19 DEF ResolveStop
  <2> QED
    BY <1>19, <2>1, SMT DEF ResolveStop, Goto, Resolve
<1>20. CASE FailSession
  BY <1>20, SMT DEF FailSession, Goto, Publish
<1>21. CASE MarkFailed
  BY <1>21, SMT DEF MarkFailed, Goto, MarkedFailed
<1>22. CASE EnterRecovery
  BY <1>22, SMT DEF EnterRecovery, Goto, Publish
<1>23. CASE DrainQueue
  BY <1>23, SMT DEF DrainQueue, Goto, Resolve
<1>24. CASE Rejoin
  BY <1>24, SMT DEF Rejoin, Goto, Publish
<1>25. CASE Reconnect
  <2>1. transport' \in {"closed", "open"} /\ state' \in WorkerState /\ leaked' \in BOOLEAN
    BY <1>25 DEF Reconnect, CloseTransport, MarkedFailed, Publish
  <2> QED
    BY <1>25, <2>1, SMT DEF Reconnect, Goto, Publish
<1>26. CASE Attempt
  BY <1>26, SMT DEF Attempt, Goto
<1>27. CASE Repair
  <2>1. transport' \in {"closed", "open"} /\ state' \in WorkerState /\ leaked' \in BOOLEAN
    BY <1>27 DEF Repair, CloseTransport, MarkedFailed, Publish
  <2> QED
    BY <1>27, <2>1, SMT DEF Repair, Goto, Publish
<1>28. CASE StatusRead
  BY <1>28, SMT DEF StatusRead, Return, Goto, Resolve
<1>29. CASE StatusFails
  BY <1>29, SMT DEF StatusFails, Goto, Resolve
<1>30. CASE ReleaseTransport
  <2>1. transport' \in {"closed", "open"} /\ state' \in WorkerState /\ leaked' \in BOOLEAN
    BY <1>30 DEF ReleaseTransport, CloseTransport, MarkedFailed
  <2> QED
    BY <1>30, <2>1, SMT DEF ReleaseTransport, Goto
<1>31. CASE FinishThread
  <2>1. stopRequested' \in BOOLEAN
    BY <1>31 DEF FinishThread
  <2> QED
    BY <1>31, <2>1, SMT DEF FinishThread, Return, Goto
<1>32. CASE PublishEnd
  BY <1>32, SMT DEF PublishEnd, Goto, Publish
<1>33. CASE FailPending
  BY <1>33, SMT DEF FailPending, Goto, Resolve
<1>34. ASSUME NEW why \in Withdrawal, GateWithdraws(why) PROVE WorkerTypeOK'
  BY <1>34, SMT DEF GateWithdraws, Goto, Resolve
<1>35. CASE Start
  BY <1>35, SMT DEF Start, Goto
<1>36. CASE StartExpires
  BY <1>36, SMT DEF StartExpires
<1>37. CASE Close
  BY <1>37, SMT DEF Close, Resolve
<1>38. ASSUME NEW i \in Item, Submit(i) PROVE WorkerTypeOK'
  <2>1. normal' = Append(normal, i) \/ normal' = normal
    BY <1>38 DEF Submit
  <2>2. normal' \in Seq(Item)
    BY <2>1, SMT
  <2>3. future' \in [Future -> Outcome]
    BY <1>38, SMT DEF Submit, SubmitRefusal, Resolve
  <2> QED
    BY <1>38, <2>2, <2>3, SMT DEF Submit
<1>39. ASSUME NEW w \in Stop, SubmitStop(w) PROVE WorkerTypeOK'
  <2>1. stopRequested' \in BOOLEAN
    BY <1>39 DEF SubmitStop
  <2>2. future' \in [Future -> Outcome]
    BY <1>39 DEF SubmitStop, Resolve
  <2>3. stopWaiters' \subseteq Stop /\ (normal' = normal \/ normal' = <<>>)
    BY <1>39 DEF SubmitStop
  <2>4. UNCHANGED <<state, session, outside, local>>
    BY <1>39 DEF SubmitStop
  <2>5. <<>> \in Seq(Item)
    BY SMT
  <2>6. normal' \in Seq(Item)
    BY <2>3, <2>5 DEF WorkerTypeOK
  <2> QED
    BY <2>1, <2>2, <2>3, <2>4, <2>6, SMT
<1>40. ASSUME NEW i \in Item, ControllerAnswers(i) PROVE WorkerTypeOK'
  BY <1>40, SMT DEF ControllerAnswers
<1>41. CASE UNCHANGED workerVars
  BY <1>41, SMT DEF workerVars
<1> QED
  BY <1>1, <1>2, <1>3, <1>4, <1>5, <1>6, <1>7, <1>8, <1>9, <1>10, <1>11,
     <1>12, <1>13, <1>14, <1>15, <1>16, <1>17, <1>18, <1>19, <1>20, <1>21,
     <1>22, <1>23, <1>24, <1>25, <1>26, <1>27, <1>28, <1>29, <1>30, <1>31,
     <1>32, <1>33, <1>34, <1>35, <1>36, <1>37, <1>38, <1>39, <1>40, <1>41
  DEF WorkerNext, Thread, ThreadInternal, ThreadGate, ThreadProfile, Caller

-----------------------------------------------------------------------------
(* The inductive invariant *)

\* The inductive invariant holds of a worker that was just constructed.
LEMMA InvInit == WorkerInit => WorkerInv
<1> SUFFICES ASSUME WorkerInit PROVE WorkerInv
  OBVIOUS
<1>1. WorkerTypeOK
  BY TypeInit
<1>2. ThreadPosition /\ StopEmptiesLane /\ RecoveryDiscardsQueue /\ OneTransport
  BY EmptyLane
     DEF WorkerInit, ThreadPosition, StopEmptiesLane, RecoveryDiscardsQueue, OneTransport
<1>3. OneCommandAtATime /\ ExecutingIsWatched
  BY DEF WorkerInit, OneCommandAtATime, ExecutingIsWatched
<1> QED
  BY <1>1, <1>2, <1>3 DEF WorkerInv

\* Every step of the thread, of a caller and of the controller preserves the
\* inductive invariant.
LEMMA InvStep ==
  ASSUME WorkerInv, [WorkerNext]_workerVars
  PROVE  WorkerInv'
<1>0. WorkerTypeOK'
  BY TypeStep DEF WorkerInv
<1> USE <1>0, WorkerAssumption
    DEF WorkerInv, shared, outside, local, ThreadPosition, StopEmptiesLane,
        RecoveryDiscardsQueue, OneTransport, OneCommandAtATime, ExecutingIsWatched
<1>1. CASE Connecting
  BY <1>1 DEF Connecting, Publish, Goto, WorkerTypeOK
<1>2. CASE OpenTransport
  BY <1>2 DEF OpenTransport, Publish, Goto, WorkerTypeOK
<1>3. CASE VerifyV1
  BY <1>3 DEF VerifyV1, Publish, Goto, Ended, WorkerTypeOK
<1>4. CASE ActivateV2
  BY <1>4 DEF ActivateV2, Publish, Goto, Return, WorkerTypeOK
<1>5. CASE ConnectFails
  <2>1. /\ pc \in {"open", "verify", "activate"}
        /\ pc' \in {"mark_lost", "attempt", "reconnect", "lose_session"}
        /\ pc' = "attempt" => context = "reconnect"
        /\ UNCHANGED <<normal, stopRequested, fate, context>>
    BY <1>5 DEF ConnectFails, Goto
  <2>2. ThreadPosition'
    <3>1. /\ pc' = "attempt" => session' = "disconnected"
          /\ pc' = "reconnect" => session' = session /\ context = "reactivate"
      BY <1>5 DEF ConnectFails, Publish, Goto
    <3>2. CASE pc = "open" \/ context = "reactivate"
      <4>1. UNCHANGED <<state, transport, leaked>>
        BY <1>5, <3>2 DEF ConnectFails
      <4> QED
        BY <1>5, <2>1, <3>1, <3>2, <4>1 DEF ConnectFails, Goto
    <3>3. CASE ~(pc = "open" \/ context = "reactivate")
      <4>1. /\ transport' = "closed" /\ pc' # "reconnect"
            /\ state' = state \/ state' = "failed"
            /\ leaked' => state' = "failed"
        BY <1>5, <2>1, <3>3 DEF ConnectFails, Goto, CloseTransport, MarkedFailed, WorkerTypeOK
      <4> QED
        BY <2>1, <3>1, <3>3, <4>1
    <3> QED
      BY <3>2, <3>3
  <2>3. RecoveryDiscardsQueue'
    BY <1>5, <2>1 DEF ConnectFails, Publish, Goto, CloseTransport, MarkedFailed
  <2>4. ExecutingIsWatched'
    BY <2>1
  <2> QED
    BY <2>1, <2>2, <2>3, <2>4
<1>6. CASE Began
  BY <1>6 DEF Began, Goto, WorkerTypeOK
<1>7. CASE NextAction
  BY <1>7 DEF NextAction, Goto, WorkerTypeOK
<1>8. CASE GatePasses
  BY <1>8 DEF GatePasses, Goto, WorkerTypeOK
<1>9. CASE Transmit
  BY <1>9 DEF Transmit, Goto, WorkerTypeOK
<1>10. CASE ReadTerminal
  BY <1>10 DEF ReadTerminal, Goto, WorkerTypeOK
<1>11. CASE Interrupted
  BY <1>11 DEF Interrupted, Goto, Ended, WorkerTypeOK
<1>12. CASE RequestFails
  BY <1>12 DEF RequestFails, Goto, Ended, WorkerTypeOK
<1>13. CASE Deliver
  BY <1>13 DEF Deliver, Goto, WorkerTypeOK
<1>14. CASE InvalidateResult
  BY <1>14 DEF InvalidateResult, Goto, WorkerTypeOK
<1>15. CASE PublishProfile
  BY <1>15 DEF PublishProfile, Goto, WorkerTypeOK
<1>16. CASE ProfileFails
  BY <1>16 DEF ProfileFails, Goto, WorkerTypeOK
<1>17. CASE StopTrusted
  BY <1>17 DEF StopTrusted, Goto, Ended, WorkerTypeOK
<1>18. CASE StopUnsafe
  BY <1>18 DEF StopUnsafe, Goto, WorkerTypeOK
<1>19. CASE ResolveStop
  BY <1>19 DEF ResolveStop, Goto, WorkerTypeOK
<1>20. CASE FailSession
  BY <1>20 DEF FailSession, Goto, Publish, WorkerTypeOK
<1>21. CASE MarkFailed
  BY <1>21 DEF MarkFailed, Goto, MarkedFailed, WorkerTypeOK
<1>22. CASE EnterRecovery
  BY <1>22 DEF EnterRecovery, Goto, Publish, WorkerTypeOK
<1>23. CASE DrainQueue
  BY <1>23, EmptyLane DEF DrainQueue, Goto
<1>24. CASE Rejoin
  BY <1>24 DEF Rejoin, Goto, Publish, WorkerTypeOK
<1>25. CASE Reconnect
  BY <1>25 DEF Reconnect, Goto, Publish, CloseTransport, MarkedFailed, WorkerTypeOK
<1>26. CASE Attempt
  <2>1. /\ pc = "attempt" /\ UNCHANGED <<shared, outside, context>>
        /\ \/ pc' \in {"lose_session", "finish"}
           \/ pc' = "connect" /\ state # "closing"
    BY <1>26 DEF Attempt, Goto
  <2>2. ThreadPosition'
    BY <2>1
  <2>3. ExecutingIsWatched'
    BY <2>1
  <2>4. RecoveryDiscardsQueue'
    BY <2>1
  <2> QED
    BY <2>1, <2>2, <2>3, <2>4
<1>27. CASE Repair
  BY <1>27 DEF Repair, Goto, Publish, CloseTransport, MarkedFailed, WorkerTypeOK
<1>28. CASE StatusRead
  BY <1>28 DEF StatusRead, Return, Goto, WorkerTypeOK
<1>29. CASE StatusFails
  BY <1>29 DEF StatusFails, Goto, WorkerTypeOK
<1>30. CASE ReleaseTransport
  BY <1>30 DEF ReleaseTransport, Goto, CloseTransport, MarkedFailed, WorkerTypeOK
<1>31. CASE FinishThread
  BY <1>31 DEF FinishThread, Return, Goto, WorkerTypeOK
<1>32. CASE PublishEnd
  BY <1>32 DEF PublishEnd, Goto, Publish, WorkerTypeOK
<1>33. CASE FailPending
  BY <1>33 DEF FailPending, Goto, WorkerTypeOK
<1>34. ASSUME NEW why \in Withdrawal, GateWithdraws(why) PROVE WorkerInv'
  BY <1>34 DEF GateWithdraws, Goto
<1>35. CASE Start
  BY <1>35, EmptyLane DEF Start, Goto
<1>36. CASE StartExpires
  BY <1>36 DEF StartExpires
<1>37. CASE Close
  <2>1. stopRequested' \in BOOLEAN /\ normal' = <<>>
    BY <1>37 DEF Close, WorkerTypeOK
  <2> QED
    BY <1>37, <2>1, EmptyLane DEF Close
<1>38. ASSUME NEW i \in Item, Submit(i) PROVE WorkerInv'
  <2>1. CASE SubmitRefusal(i) = "none"
    <3>1. /\ normal' = Append(normal, i) /\ state = "running" /\ ~stopRequested
          /\ session = "ready" \/ i \in Session
      BY <1>38, <2>1 DEF Submit, SubmitRefusal
    <3>2. Range(normal') = Range(normal) \cup {i}
      BY <3>1, LaneAppend, SMT DEF WorkerTypeOK
    <3>3. pc # "off"
      BY <3>1
    <3> QED
      BY <1>38, <3>1, <3>2, <3>3 DEF Submit
  <2>2. CASE SubmitRefusal(i) # "none"
    BY <1>38, <2>2 DEF Submit
  <2> QED
    BY <2>1, <2>2
<1>39. ASSUME NEW w \in Stop, SubmitStop(w) PROVE WorkerInv'
  <2>1. normal' = normal \/ normal' = <<>>
    BY <1>39 DEF SubmitStop
  <2>2. stopRequested' => normal' = <<>>
    BY <1>39 DEF SubmitStop
  <2> QED
    BY <1>39, <2>1, <2>2, EmptyLane DEF SubmitStop
<1>40. ASSUME NEW i \in Item, ControllerAnswers(i) PROVE WorkerInv'
  BY <1>40, SMT DEF ControllerAnswers, WorkerTypeOK
<1>41. CASE UNCHANGED workerVars
  <2>1. UNCHANGED <<shared, outside, local>>
    BY <1>41 DEF workerVars
  <2>2. ThreadPosition' /\ OneTransport'
    BY <2>1
  <2>3. StopEmptiesLane' /\ RecoveryDiscardsQueue'
    BY <2>1
  <2> QED
    BY <2>1, <2>2, <2>3
<1> QED
  BY <1>1, <1>2, <1>3, <1>4, <1>5, <1>6, <1>7, <1>8, <1>9, <1>10, <1>11,
     <1>12, <1>13, <1>14, <1>15, <1>16, <1>17, <1>18, <1>19, <1>20, <1>21,
     <1>22, <1>23, <1>24, <1>25, <1>26, <1>27, <1>28, <1>29, <1>30, <1>31,
     <1>32, <1>33, <1>34, <1>35, <1>36, <1>37, <1>38, <1>39, <1>40, <1>41
  DEF WorkerNext, Thread, ThreadInternal, ThreadGate, ThreadProfile, Caller

\* The inductive invariant holds in every reachable state.
LEMMA InvAlways == WorkerSpec => []WorkerInv
BY InvInit, InvStep, PTL DEF WorkerSpec

-----------------------------------------------------------------------------
(* Theorems *)

\* Every variable of the worker keeps its type, the lane its capacity (submit).
THEOREM TypeCorrect == WorkerSpec => []WorkerTypeOK
BY InvAlways, PTL DEF WorkerInv

\* While a stop is wanted the normal lane is empty, however many callers submit
\* and however the stop, a shutdown and a recovery interleave.
THEOREM StopsEmptyTheLane == WorkerSpec => []StopEmptiesLane
BY InvAlways, PTL DEF WorkerInv

\* The controller never has two commands in hand: _execute_item sends the next one
\* only when the last one has ended.
THEOREM OneCommand == WorkerSpec => []OneCommandAtATime
BY InvAlways, PTL DEF WorkerInv

\* An executing command is never forgotten by the thread: it waits for it, or is on
\* the way to a reset, a trusted stop or the end of the worker (_recover, _run).
THEOREM NothingUnwatched == WorkerSpec => []ExecutingIsWatched
BY InvAlways, PTL DEF WorkerInv

\* No machine command is queued while automatic recovery rebuilds the session
\* (_recover drains the lane first).
THEOREM RecoveryStartsEmpty == WorkerSpec => []RecoveryDiscardsQueue
BY InvAlways, PTL DEF WorkerInv

\* A command is sent over the only transport there is: a close that raised leaves the old
\* port open, but then the worker is failed and sends nothing more (_connect,
\* _close_transport).
THEOREM SingleTransport == WorkerSpec => []OneTransport
BY InvAlways, PTL DEF WorkerInv

\* The only step that gives a stop its result is _resolve_stop after `stopped`.
LEMMA StopResult ==
  ASSUME WorkerInv, [WorkerNext]_workerVars, NEW w \in Stop,
         future[w] = "pending", future'[w] = "result"
  PROVE  pc = "stopped"
<1> USE WorkerAssumption DEF WorkerInv, WorkerTypeOK, Future, Item, Session, shared, outside, local
<1>1. CASE Connecting
  BY <1>1 DEF Connecting
<1>2. CASE OpenTransport
  BY <1>2 DEF OpenTransport
<1>3. CASE VerifyV1
  BY <1>3 DEF VerifyV1
<1>4. CASE ActivateV2
  BY <1>4 DEF ActivateV2
<1>5. CASE ConnectFails
  BY <1>5 DEF ConnectFails, Resolve
<1>6. CASE Began
  BY <1>6 DEF Began
<1>7. CASE NextAction
  BY <1>7 DEF NextAction
<1>8. CASE GatePasses
  BY <1>8 DEF GatePasses
<1>9. CASE Transmit
  BY <1>9 DEF Transmit
<1>10. CASE ReadTerminal
  BY <1>10 DEF ReadTerminal
<1>11. CASE Interrupted
  BY <1>11 DEF Interrupted, Resolve
<1>12. CASE RequestFails
  BY <1>12 DEF RequestFails, Resolve
<1>13. CASE Deliver
  BY <1>13 DEF Deliver, Resolve
<1>14. CASE InvalidateResult
  BY <1>14 DEF InvalidateResult, Resolve
<1>15. CASE PublishProfile
  BY <1>15 DEF PublishProfile
<1>16. CASE ProfileFails
  BY <1>16 DEF ProfileFails
<1>17. CASE StopTrusted
  BY <1>17 DEF StopTrusted
<1>18. CASE StopUnsafe
  BY <1>18 DEF StopUnsafe
<1>19. CASE ResolveStop
  BY <1>19 DEF ResolveStop, Resolve
<1>20. CASE FailSession
  BY <1>20 DEF FailSession
<1>21. CASE MarkFailed
  BY <1>21 DEF MarkFailed
<1>22. CASE EnterRecovery
  BY <1>22 DEF EnterRecovery
<1>23. CASE DrainQueue
  BY <1>23 DEF DrainQueue, Resolve
<1>24. CASE Rejoin
  BY <1>24 DEF Rejoin
<1>25. CASE Reconnect
  BY <1>25 DEF Reconnect
<1>26. CASE Attempt
  BY <1>26 DEF Attempt
<1>27. CASE Repair
  BY <1>27 DEF Repair
<1>28. CASE StatusRead
  BY <1>28 DEF StatusRead, Resolve
<1>29. CASE StatusFails
  BY <1>29 DEF StatusFails, Resolve
<1>30. CASE ReleaseTransport
  BY <1>30 DEF ReleaseTransport
<1>31. CASE FinishThread
  BY <1>31 DEF FinishThread
<1>32. CASE PublishEnd
  BY <1>32 DEF PublishEnd
<1>33. CASE FailPending
  BY <1>33 DEF FailPending, Resolve
<1>34. ASSUME NEW why \in Withdrawal, GateWithdraws(why) PROVE pc = "stopped"
  BY <1>34 DEF GateWithdraws, Resolve, Withdrawal
<1>35. CASE Start
  BY <1>35 DEF Start
<1>36. CASE StartExpires
  BY <1>36 DEF StartExpires
<1>37. CASE Close
  BY <1>37 DEF Close, Resolve
<1>38. ASSUME NEW i \in Item, Submit(i) PROVE pc = "stopped"
  BY <1>38 DEF Submit, SubmitRefusal, Resolve
<1>39. ASSUME NEW v \in Stop, SubmitStop(v) PROVE pc = "stopped"
  BY <1>39 DEF SubmitStop, Resolve
<1>40. ASSUME NEW i \in Item, ControllerAnswers(i) PROVE pc = "stopped"
  BY <1>40 DEF ControllerAnswers
<1>41. CASE UNCHANGED workerVars
  BY <1>41 DEF workerVars
<1> QED
  BY <1>1, <1>2, <1>3, <1>4, <1>5, <1>6, <1>7, <1>8, <1>9, <1>10, <1>11,
     <1>12, <1>13, <1>14, <1>15, <1>16, <1>17, <1>18, <1>19, <1>20, <1>21,
     <1>22, <1>23, <1>24, <1>25, <1>26, <1>27, <1>28, <1>29, <1>30, <1>31,
     <1>32, <1>33, <1>34, <1>35, <1>36, <1>37, <1>38, <1>39, <1>40, <1>41
  DEF WorkerNext, Thread, ThreadInternal, ThreadGate, ThreadProfile, Caller

\* A stop is reported successful only when no command is executing (_resolve_stop).
THEOREM StopsAreQuiet == WorkerSpec => QuietWhenStopped
<1>1. WorkerInv /\ [WorkerNext]_workerVars =>
        [\A w \in Stop : future[w] = "pending" /\ future'[w] = "result"
           => \A i \in Item : fate[i] # "sent"]_workerVars
  BY StopResult DEF WorkerInv, ExecutingIsWatched
<1> QED
  BY <1>1, InvAlways, PTL DEF WorkerSpec, QuietWhenStopped

-----------------------------------------------------------------------------
(* What the worker holds, and what its futures say of the controller *)

\* The labels at which the thread holds an item: _execute_item and
\* _execute_session_intent, with the _connect it may call.
Holding ==
    \/ pc \in {"gate", "send", "await", "answered", "repair", "status"}
    \/ context = "repair" /\ pc \in {"connect", "open", "verify", "activate"}

\* An admitted item is in one place, and its caller still waits: it is queued
\* once, or the thread holds it.  Until it is sent the controller has not seen it.
Custody ==
    /\ \A a, b \in DOMAIN normal : normal[a] = normal[b] => a = b
    /\ \A i \in Range(normal) : future[i] = "pending" /\ fate[i] = "unsent"
    /\ \A w \in stopWaiters : future[w] = "pending"
    /\ (current # None) <=> Holding
    /\ pc = "attempt" => context # "repair"
    /\ current # None => future[current] = "pending" /\ current \notin Range(normal)
    /\ pc \in {"gate", "send"} => fate[current] = "unsent"
    /\ pc = "answered" => fate[current] \in {"done", "error"}
    /\ pc \in {"send", "await", "answered"} => current \notin Session
    /\ Holding /\ pc \notin {"gate", "send", "await", "answered"} => current \in Session

\* Whatever a caller is told is what the controller did: a refused, withdrawn or
\* drained item was never sent, a result was completed, an error was refused by
\* the controller, and what a stop preempted is not executing.
FuturesAreTrue ==
    \A i \in Item :
      /\ i \in Session => fate[i] = "unsent"
      /\ future[i] \in {"unsubmitted", "PreemptedByRecovery"} \cup Refusal \cup Withdrawal
           => fate[i] = "unsent"
      /\ future[i] = "PreemptedByStop" => fate[i] # "sent"
      /\ future[i] = "result" /\ i \notin Session => fate[i] = "done"
      /\ future[i] = "error" => fate[i] = "error"

\* The inductive invariant with the books.
Books == WorkerInv /\ Custody /\ FuturesAreTrue

\* Taking the head of a lane without duplicates removes exactly that item.
LEMMA TakeFromLane ==
  ASSUME NEW S, NEW s \in Seq(S), s # <<>>,
         \A a, b \in DOMAIN s : s[a] = s[b] => a = b
  PROVE  /\ Head(s) \in Range(s) /\ Range(Tail(s)) = Range(s) \ {Head(s)}
         /\ \A a, b \in DOMAIN Tail(s) : Tail(s)[a] = Tail(s)[b] => a = b
<1> DEFINE t == Tail(s)
<1>1. /\ Len(s) \in Nat \ {0} /\ DOMAIN s = 1..Len(s) /\ s[1] = Head(s)
      /\ DOMAIN t = 1..(Len(s) - 1) /\ \A k \in 1..(Len(s) - 1) : t[k] = s[k + 1]
  BY SMT
<1> HIDE DEF t
<1>2. \A a, b \in DOMAIN t : t[a] = t[b] => a = b
  BY <1>1, SMTT(30)
<1>3. Head(s) \in Range(s)
  BY <1>1, SMT DEF Range
<1>4. \A k \in DOMAIN t : s[k + 1] \in Range(s) /\ s[k + 1] # Head(s)
  BY <1>1, SMT DEF Range
<1>5. \A k \in DOMAIN s : k = 1 \/ (k - 1 \in DOMAIN t /\ t[k - 1] = s[k])
  BY <1>1, SMT
<1>6. Range(t) = Range(s) \ {Head(s)}
  <2>1. \A x : x \in Range(t) <=> \E k \in DOMAIN t : t[k] = x
    BY DEF Range
  <2>2. \A x : x \in Range(s) <=> \E k \in DOMAIN s : s[k] = x
    BY DEF Range
  <2>3. \A k \in DOMAIN t : t[k] = s[k + 1]
    BY <1>1
  <2>4. \A x \in Range(t) : x \in Range(s) /\ x # Head(s)
    BY <2>1, <2>3, <1>4, SMT
  <2>5. \A x \in Range(s) : x # Head(s) => x \in Range(t)
    BY <2>1, <2>2, <1>1, <1>5, SMT
  <2> QED BY <2>4, <2>5
<1> QED
  BY <1>2, <1>3, <1>6 DEF t

\* Items and stops are different futures, and None is neither.
LEMMA Kinds ==
  /\ Item \subseteq Future /\ Stop \subseteq Future /\ Session \subseteq Item
  /\ Motion \subseteq Item /\ Query \subseteq Item /\ Motion \cap Query = {}
  /\ (Motion \cup Query) \cap Session = {} /\ Item = Motion \cup Query \cup Session
  /\ Item \cap Stop = {} /\ None \notin Future
BY WorkerAssumption DEF Item, Session, Future

\* Every step keeps an admitted item in one place and the futures true.
LEMMA BooksStep ==
  ASSUME Books, [WorkerNext]_workerVars
  PROVE  Books'
<1>0. WorkerInv'
  BY InvStep DEF Books
<1> SUFFICES Custody' /\ FuturesAreTrue'
  BY <1>0 DEF Books
<1>a. Range(normal) \subseteq Item
  BY SMT DEF Books, WorkerInv, WorkerTypeOK, Range
<1> USE <1>0, <1>a, Kinds
    DEF Books, WorkerInv, WorkerTypeOK, Custody, FuturesAreTrue, Holding, Refusal,
        Withdrawal, shared, outside, local
<1>1. CASE Connecting
  BY <1>1 DEF Connecting, Publish, Goto
<1>2. CASE OpenTransport
  BY <1>2 DEF OpenTransport, Publish, Goto
<1>3. CASE ActivateV2
  BY <1>3, SMT DEF ActivateV2, Publish, Goto, Return
<1>4. CASE Began
  BY <1>4 DEF Began, Goto
<1>5. CASE ReadTerminal
  BY <1>5 DEF ReadTerminal, Goto
<1>6. CASE GatePasses
  BY <1>6 DEF GatePasses, Goto
<1>7. CASE PublishProfile
  BY <1>7 DEF PublishProfile, Goto
<1>8. CASE ProfileFails
  BY <1>8 DEF ProfileFails, Goto
<1>9. CASE StopUnsafe
  BY <1>9 DEF StopUnsafe, Goto
<1>10. CASE FailSession
  BY <1>10 DEF FailSession, Goto, Publish
<1>11. CASE MarkFailed
  BY <1>11 DEF MarkFailed, Goto, MarkedFailed
<1>12. CASE EnterRecovery
  BY <1>12 DEF EnterRecovery, Goto, Publish
<1>13. CASE Rejoin
  BY <1>13 DEF Rejoin, Goto, Publish
<1>14. CASE Reconnect
  BY <1>14 DEF Reconnect, Goto, Publish, CloseTransport
<1>15. CASE Attempt
  BY <1>15 DEF Attempt, Goto
<1>16. CASE Repair
  BY <1>16, SMT DEF Repair, Goto, Publish, CloseTransport
<1>17. CASE ReleaseTransport
  BY <1>17 DEF ReleaseTransport, Goto, CloseTransport
<1>18. CASE FinishThread
  BY <1>18 DEF FinishThread, Return, Goto
<1>19. CASE PublishEnd
  BY <1>19 DEF PublishEnd, Goto, Publish
<1>20. CASE Start
  BY <1>20 DEF Start, Goto, ThreadPosition
<1>21. CASE StartExpires
  BY <1>21 DEF StartExpires
<1>22. CASE VerifyV1
  BY <1>22 DEF VerifyV1, Publish, Goto, Ended
<1>23. CASE Interrupted
  BY <1>23, SMT DEF Interrupted, Goto, Resolve, Ended
<1>24. CASE RequestFails
  BY <1>24, SMT DEF RequestFails, Goto, Resolve, Ended
<1>25. CASE StopTrusted
  BY <1>25 DEF StopTrusted, Goto, Ended
<1>26. CASE ConnectFails
  BY <1>26, SMT DEF ConnectFails, Publish, Goto, Resolve, CloseTransport
<1>27. CASE Deliver
  BY <1>27, SMT DEF Deliver, Goto, Resolve
<1>28. CASE InvalidateResult
  BY <1>28, SMT DEF InvalidateResult, Goto, Resolve
<1>29. CASE ResolveStop
  BY <1>29, SMT DEF ResolveStop, Goto, Resolve
<1>30. CASE StatusRead
  BY <1>30, SMT DEF StatusRead, Return, Goto, Resolve
<1>31. CASE StatusFails
  BY <1>31, SMT DEF StatusFails, Goto, Resolve
<1>32. CASE NextAction
  <2>1. CASE UNCHANGED <<normal, current>>
    BY <1>32, <2>1, SMT DEF NextAction, Goto
  <2>2. CASE normal # <<>> /\ normal' = Tail(normal) /\ current' = Head(normal)
    BY <1>32, <2>2, TakeFromLane, SMTT(30) DEF NextAction, Goto
  <2> QED
    BY <1>32, <2>1, <2>2 DEF NextAction
<1>33. CASE Transmit
  BY <1>33, SMT DEF Transmit, Goto
<1>34. CASE DrainQueue
  BY <1>34, EmptyLane, SMT DEF DrainQueue, Goto, Resolve
<1>35. CASE FailPending
  BY <1>35, EmptyLane, SMT DEF FailPending, Goto, Resolve
<1>36. CASE Close
  BY <1>36, EmptyLane, SMTT(30) DEF Close, Resolve
<1>37. ASSUME NEW why \in Withdrawal, GateWithdraws(why) PROVE Custody' /\ FuturesAreTrue'
  BY <1>37, SMTT(30) DEF GateWithdraws, Goto, Resolve
<1>38. ASSUME NEW i \in Item, Submit(i) PROVE Custody' /\ FuturesAreTrue'
  <2>1. CASE SubmitRefusal(i) = "none"
    <3>1. normal' = Append(normal, i) /\ future' = Resolve({i}, "pending")
      BY <1>38, <2>1 DEF Submit
    <3>2. Range(normal') = Range(normal) \cup {i} /\ i \notin Range(normal) /\ i # current
      <4>1. normal \in Seq(Item)
        OBVIOUS
      <4>2. \A j \in Range(normal) : future[j] = "pending"
        OBVIOUS
      <4>3. current # None => future[current] = "pending"
        OBVIOUS
      <4>4. future[i] # "pending" /\ i # None
        BY <1>38, Kinds DEF Submit
      <4> HIDE DEF Books, Custody, WorkerInv, WorkerTypeOK, FuturesAreTrue
      <4>5. Range(Append(normal, i)) = Range(normal) \cup {i}
        BY <4>1, LaneAppend, SMT
      <4> QED
        BY <3>1, <4>2, <4>3, <4>4, <4>5
    <3>3. \A a, b \in DOMAIN normal' : normal'[a] = normal'[b] => a = b
      <4>1. normal \in Seq(Item) /\ \A a, b \in DOMAIN normal : normal[a] = normal[b] => a = b
        OBVIOUS
      <4> HIDE DEF Books, Custody, WorkerInv, WorkerTypeOK, FuturesAreTrue
      <4> QED
        BY <3>1, <3>2, <4>1, SMT DEF Range
    <3>4. \A f \in Future : future'[f] = IF f = i THEN "pending" ELSE future[f]
      BY <3>1 DEF Resolve
    <3>5. fate[i] = "unsent" /\ i \notin stopWaiters /\ UNCHANGED <<stopWaiters, fate, local>>
      BY <1>38, SMT DEF Submit
    <3>6. Custody'
      BY <3>2, <3>3, <3>4, <3>5, ZenonT(30)
    <3>7. FuturesAreTrue'
      <4>1. fate' = fate /\ future'[i] = "pending" /\ \A j \in Item : j # i => future'[j] = future[j]
        BY <3>4, <3>5
      <4>2. "pending" \notin Refusal /\ "pending" \notin Withdrawal
        OBVIOUS
      <4>3. FuturesAreTrue
        OBVIOUS
      <4> HIDE DEF Refusal, Withdrawal, WorkerTypeOK, WorkerInv, Custody, Books
      <4> QED
        BY <4>1, <4>2, <4>3
    <3> QED
      BY <3>6, <3>7
  <2>2. CASE SubmitRefusal(i) # "none"
    <3>1. future' = Resolve({i}, SubmitRefusal(i)) /\ UNCHANGED <<normal, stopWaiters, fate, local>>
      BY <1>38, <2>2 DEF Submit
    <3>2. SubmitRefusal(i) \in Refusal
      BY <2>2 DEF SubmitRefusal
    <3>3. \A f \in Future : future'[f] = IF f = i THEN SubmitRefusal(i) ELSE future[f]
      BY <3>1 DEF Resolve
    <3>4. i \notin Range(normal) /\ i # current /\ i \notin stopWaiters /\ fate[i] = "unsent"
      BY <1>38, SMT DEF Submit
    <3>5. Custody'
      BY <3>1, <3>3, <3>4, ZenonT(30)
    <3>6. FuturesAreTrue'
      <4>1. fate'[i] = "unsent" /\ future'[i] \notin {"result", "error"}
        BY <3>1, <3>2, <3>3, <3>4
      <4>2. \A j \in Item : j # i => fate'[j] = fate[j] /\ future'[j] = future[j]
        BY <3>1, <3>3
      <4>3. FuturesAreTrue
        OBVIOUS
      <4> HIDE DEF Refusal, Withdrawal, WorkerTypeOK, WorkerInv, Custody, Books
      <4> QED
        BY <4>1, <4>2, <4>3
    <3> QED
      BY <3>5, <3>6
  <2> QED
    BY <2>1, <2>2
<1>39. ASSUME NEW w \in Stop, SubmitStop(w) PROVE Custody' /\ FuturesAreTrue'
  <2>1. CASE stopRequested \/ state # "running"
    <3>1. /\ UNCHANGED <<normal, fate, local>> /\ stopWaiters' \subseteq stopWaiters \cup {w}
          /\ w \in stopWaiters' => future'[w] = "pending" \/ w \in stopWaiters
          /\ \A f \in Future : f # w => future'[f] = future[f]
      BY <1>39, <2>1, SMT DEF SubmitStop, Resolve
    <3>2. w \notin Item /\ w \notin Range(normal) /\ w # current /\ w \notin stopWaiters
      BY <1>39, SMT DEF SubmitStop
    <3>3. Custody'
      BY <3>1, <3>2, ZenonT(30)
    <3>4. FuturesAreTrue'
      BY <3>1, <3>2, ZenonT(30)
    <3> QED
      BY <3>3, <3>4
  <2>2. CASE ~stopRequested /\ state = "running"
    <3>1. /\ normal' = <<>> /\ stopWaiters' = stopWaiters \cup {w}
          /\ future' = [Resolve(Range(normal), "PreemptedByStop") EXCEPT ![w] = "pending"]
          /\ UNCHANGED <<fate, local>>
      BY <1>39, <2>2 DEF SubmitStop
    <3>2. \A f \in Future : future'[f] = IF f = w THEN "pending"
                              ELSE IF f \in Range(normal) THEN "PreemptedByStop" ELSE future[f]
      BY <3>1 DEF Resolve
    <3>3. Custody'
      BY <3>1, <3>2, EmptyLane, SMT
    <3>4. FuturesAreTrue'
      BY <3>1, <3>2, SMT
    <3> QED
      BY <3>3, <3>4
  <2> QED
    BY <1>39, <2>1, <2>2 DEF SubmitStop
<1>40. ASSUME NEW i \in Item, ControllerAnswers(i) PROVE Custody' /\ FuturesAreTrue'
  BY <1>40, SMTT(30) DEF ControllerAnswers
<1>41. CASE UNCHANGED workerVars
  BY <1>41 DEF workerVars
<1> QED
  BY <1>1, <1>2, <1>3, <1>4, <1>5, <1>6, <1>7, <1>8, <1>9, <1>10, <1>11,
     <1>12, <1>13, <1>14, <1>15, <1>16, <1>17, <1>18, <1>19, <1>20,
     <1>21, <1>22, <1>23, <1>24, <1>25, <1>26, <1>27, <1>28, <1>29,
     <1>30, <1>31, <1>32, <1>33, <1>34, <1>35, <1>36, <1>37, <1>38,
     <1>39, <1>40, <1>41
  DEF WorkerNext, Thread, ThreadInternal, ThreadGate, ThreadProfile, Caller

-----------------------------------------------------------------------------
(* What a step may do to the items *)

\* The controller's side of the items changes in four ways only: the thread sends
\* the item it holds, the controller answers one, or a stop or a reset ends
\* whatever is executing.
LEMMA FateStep ==
  ASSUME [WorkerNext]_workerVars
  PROVE  \/ UNCHANGED fate
         \/ pc = "send" /\ fate' = [fate EXCEPT ![current] = "sent"]
         \/ \E i \in Item, end \in {"done", "error"} :
              fate[i] = "sent" /\ fate' = [fate EXCEPT ![i] = end]
         \/ \E end \in {"halted", "reset"} : fate' = Ended(end)
<1> USE DEF shared, outside, local, workerVars
<1>1. CASE Thread
  BY <1>1 DEF Thread, ThreadInternal, ThreadGate, ThreadProfile, Connecting, OpenTransport,
     VerifyV1, ConnectFails, Began, NextAction, Transmit, ReadTerminal, Interrupted,
     RequestFails, Deliver, InvalidateResult, ProfileFails, StopTrusted, StopUnsafe,
     ResolveStop, FailSession, MarkFailed, EnterRecovery, DrainQueue, Rejoin, Reconnect,
     Attempt, Repair, StatusRead, StatusFails, ReleaseTransport, FinishThread, PublishEnd,
     FailPending, GatePasses, GateWithdraws, ActivateV2, PublishProfile
<1>2. CASE Caller
  BY <1>2 DEF Caller, Start, StartExpires, Close, Submit, SubmitStop
<1>3. CASE \E i \in Item : ControllerAnswers(i)
  BY <1>3 DEF ControllerAnswers
<1> QED
  BY <1>1, <1>2, <1>3 DEF WorkerNext

\* What every step but a submission and the gate does: futures are only resolved,
\* nothing joins the lane, the thread takes its next item from the lane, and a
\* result is that of the item it held beyond the gate.
Serves ==
    /\ \A f \in Future :
         future'[f] = future[f] \/ (future[f] = "pending" /\ Resolved(future'[f]))
    /\ Range(normal') \subseteq Range(normal)
    /\ current' # None => \/ current' = current /\ ((pc = "gate") <=> (pc' = "gate"))
                          \/ current' \in Range(normal) /\ pc' = "gate"
    /\ \A i \in Item : future'[i] = "result" => \/ future[i] = "result"
                                                \/ i = current /\ pc # "gate"

\* The thread, a close and the controller only ever move an item on from the
\* place it is kept in.
LEMMA ServeStep ==
  ASSUME Books,
         ThreadInternal \/ ThreadProfile \/ Close \/ \E i \in Item : ControllerAnswers(i)
  PROVE  Serves
<1>a. Range(normal) \subseteq Item
  BY SMT DEF Books, WorkerInv, WorkerTypeOK, Range
<1> USE <1>a, Kinds
    DEF Serves, Resolved, Books, WorkerInv, WorkerTypeOK, Custody, Holding, shared, outside, local
<1>1. CASE Connecting
  BY <1>1 DEF Connecting, Publish, Goto
<1>2. CASE OpenTransport
  BY <1>2 DEF OpenTransport, Publish, Goto
<1>3. CASE VerifyV1
  BY <1>3 DEF VerifyV1, Publish, Goto
<1>4. CASE ActivateV2
  BY <1>4 DEF ActivateV2, Publish, Goto, Return
<1>5. CASE Began
  BY <1>5 DEF Began, Goto
<1>6. CASE ReadTerminal
  BY <1>6 DEF ReadTerminal, Goto
<1>7. CASE PublishProfile
  BY <1>7 DEF PublishProfile, Goto
<1>8. CASE ProfileFails
  BY <1>8 DEF ProfileFails, Goto
<1>9. CASE StopTrusted
  BY <1>9 DEF StopTrusted, Goto
<1>10. CASE StopUnsafe
  BY <1>10 DEF StopUnsafe, Goto
<1>11. CASE FailSession
  BY <1>11 DEF FailSession, Goto, Publish
<1>12. CASE MarkFailed
  BY <1>12 DEF MarkFailed, Goto
<1>13. CASE EnterRecovery
  BY <1>13 DEF EnterRecovery, Goto, Publish
<1>14. CASE Rejoin
  BY <1>14 DEF Rejoin, Goto, Publish
<1>15. CASE Reconnect
  BY <1>15 DEF Reconnect, Goto, Publish
<1>16. CASE Attempt
  BY <1>16 DEF Attempt, Goto
<1>17. CASE Repair
  BY <1>17 DEF Repair, Goto, Publish
<1>18. CASE Transmit
  BY <1>18 DEF Transmit, Goto
<1>19. CASE ReleaseTransport
  BY <1>19 DEF ReleaseTransport, Goto
<1>20. CASE FinishThread
  BY <1>20 DEF FinishThread, Return, Goto
<1>21. CASE PublishEnd
  BY <1>21 DEF PublishEnd, Goto, Publish
<1>22. CASE Interrupted
  BY <1>22 DEF Interrupted, Goto, Resolve
<1>23. CASE RequestFails
  BY <1>23, SMT DEF RequestFails, Goto, Resolve
<1>24. CASE ConnectFails
  BY <1>24 DEF ConnectFails, Publish, Goto, Resolve
<1>25. CASE Deliver
  BY <1>25 DEF Deliver, Goto, Resolve
<1>26. CASE InvalidateResult
  BY <1>26 DEF InvalidateResult, Goto, Resolve
<1>27. CASE ResolveStop
  BY <1>27 DEF ResolveStop, Goto, Resolve
<1>28. CASE StatusRead
  BY <1>28 DEF StatusRead, Return, Goto, Resolve
<1>29. CASE StatusFails
  BY <1>29 DEF StatusFails, Goto, Resolve
<1>30. CASE DrainQueue
  BY <1>30, EmptyLane DEF DrainQueue, Goto, Resolve
<1>31. CASE FailPending
  BY <1>31, EmptyLane DEF FailPending, Goto, Resolve
<1>32. CASE Close
  BY <1>32, EmptyLane DEF Close, Resolve
<1>33. CASE NextAction
  <2>1. CASE normal' = normal
    BY <1>33, <2>1, SMT DEF NextAction, Goto
  <2>2. CASE normal # <<>> /\ normal' = Tail(normal) /\ current' = Head(normal) /\ Goto("gate")
    <3>1. Head(normal) \in Range(normal) /\ Range(Tail(normal)) = Range(normal) \ {Head(normal)}
      BY <2>2, TakeFromLane
    <3> QED
      BY <1>33, <2>2, <3>1 DEF NextAction, Goto
  <2> QED
    BY <1>33, <2>1, <2>2 DEF NextAction
<1>34. ASSUME NEW i \in Item, ControllerAnswers(i) PROVE Serves
  BY <1>34 DEF ControllerAnswers
<1> QED
  BY <1>1, <1>2, <1>3, <1>4, <1>5, <1>6, <1>7, <1>8, <1>9, <1>10, <1>11,
     <1>12, <1>13, <1>14, <1>15, <1>16, <1>17, <1>18, <1>19, <1>20,
     <1>21, <1>22, <1>23, <1>24, <1>25, <1>26, <1>27, <1>28, <1>29,
     <1>30, <1>31, <1>32, <1>33, <1>34
  DEF ThreadInternal, ThreadProfile

\* The books are in order before the first submission.
LEMMA BooksInit == WorkerInit => Books
<1> SUFFICES ASSUME WorkerInit PROVE Custody /\ FuturesAreTrue
  BY InvInit DEF Books
<1>1. FuturesAreTrue
  BY Kinds DEF WorkerInit, FuturesAreTrue, Refusal, Withdrawal
<1>2. Custody
  BY EmptyLane, SMT DEF WorkerInit, Custody, Holding
<1> QED
  BY <1>1, <1>2

\* The books are kept in every behaviour of the worker.
LEMMA BooksAlways == WorkerSpec => []Books
<1>1. WorkerInit => Books
  BY BooksInit
<1>2. Books /\ [WorkerNext]_workerVars => Books'
  BY BooksStep
<1> QED
  BY <1>1, <1>2, PTL DEF WorkerSpec

\* A future never says what the controller did not do (_fail_pending_future
\* and every other place that resolves one).
THEOREM FuturesTellTheTruth == WorkerSpec => []FuturesAreTrue
<1>1. Books => FuturesAreTrue
  BY DEF Books
<1> QED
  BY <1>1, BooksAlways, PTL

\* A future is answered once: nothing that was resolved is ever resolved again,
\* although _resolve_stop, _drain_normal, close and _finish_thread set the
\* outcome of whatever they find in a lane without looking at the future.
AnsweredOnce ==
    [][\A f \in Future : Resolved(future[f]) => future'[f] = future[f]]_workerVars

\* A command goes to the controller at most once, while its caller still waits
\* for it, and is never sent again after a recovery: its fate only moves from
\* unsent to sent, and from sent to one end.
SentOnce ==
    [][\A i \in Item : fate'[i] # fate[i] =>
         \/ fate[i] = "unsent" /\ fate'[i] = "sent" /\ future[i] = "pending"
         \/ fate[i] = "sent" /\ fate'[i] \in {"done", "error", "halted", "reset"}]_workerVars

\* No step, of whichever caller, of the thread or of the controller, resolves a
\* future that is not pending.
LEMMA AnswerStep ==
  ASSUME Books, [WorkerNext]_workerVars, NEW f \in Future, Resolved(future[f])
  PROVE  future'[f] = future[f]
<1>1. future[f] # "pending" /\ future[f] # "unsubmitted"
  BY DEF Resolved
<1>2. CASE ThreadInternal \/ ThreadProfile \/ Close \/ \E i \in Item : ControllerAnswers(i)
  <2>1. Serves
    BY <1>2, ServeStep
  <2> QED
    BY <2>1, <1>1 DEF Serves
<1>3. CASE GatePasses
  BY <1>3 DEF GatePasses, shared
<1>4. ASSUME NEW why \in Withdrawal, GateWithdraws(why) PROVE future'[f] = future[f]
  <2>1. pc = "gate" /\ future' = Resolve({current}, why)
    BY <1>4 DEF GateWithdraws
  <2>2. f # current
    BY <2>1, <1>1 DEF Books, Custody, Holding
  <2> QED
    BY <2>1, <2>2 DEF Resolve
<1>5. CASE Start \/ StartExpires \/ UNCHANGED workerVars
  BY <1>5 DEF Start, StartExpires, workerVars, shared
<1>6. ASSUME NEW i \in Item, Submit(i) PROVE future'[f] = future[f]
  <2>1. f # i
    BY <1>6, <1>1 DEF Submit
  <2> QED
    BY <1>6, <2>1 DEF Submit, Resolve
<1>7. ASSUME NEW w \in Stop, SubmitStop(w) PROVE future'[f] = future[f]
  <2>1. f # w /\ f \notin Range(normal)
    BY <1>7, <1>1 DEF SubmitStop, Books, Custody
  <2> QED
    BY <1>7, <2>1 DEF SubmitStop, Resolve
<1> QED
  BY <1>2, <1>3, <1>4, <1>5, <1>6, <1>7 DEF WorkerNext, Thread, ThreadGate, Caller

\* No step sends a command twice, or one whose caller has been answered.
LEMMA SendStep ==
  ASSUME Books, [WorkerNext]_workerVars, NEW i \in Item, fate'[i] # fate[i]
  PROVE  \/ fate[i] = "unsent" /\ fate'[i] = "sent" /\ future[i] = "pending"
         \/ fate[i] = "sent" /\ fate'[i] \in {"done", "error", "halted", "reset"}
<1>1. fate \in [Item -> Fate]
  BY DEF Books, WorkerInv, WorkerTypeOK
<1>2. CASE pc = "send" /\ fate' = [fate EXCEPT ![current] = "sent"]
  <2>1. i = current /\ fate'[i] = "sent"
    BY <1>1, <1>2
  <2>2. fate[current] = "unsent" /\ future[current] = "pending"
    BY <1>2 DEF Books, Custody, Holding
  <2> QED
    BY <2>1, <2>2
<1>3. ASSUME NEW j \in Item, NEW end \in {"done", "error"},
             fate[j] = "sent", fate' = [fate EXCEPT ![j] = end]
      PROVE  fate[i] = "sent" /\ fate'[i] \in {"done", "error"}
  BY <1>1, <1>3
<1>4. ASSUME NEW end \in {"halted", "reset"}, fate' = Ended(end)
      PROVE  fate[i] = "sent" /\ fate'[i] \in {"halted", "reset"}
  BY <1>4 DEF Ended
<1> QED
  BY FateStep, <1>2, <1>3, <1>4

\* Whoever composes the worker need only take worker steps and keep its books for
\* the promises about stops, answers and transmissions to hold.
LEMMA WorkerPromises ==
  []Books /\ [][WorkerNext]_workerVars => QuietWhenStopped /\ AnsweredOnce /\ SentOnce
<1>1. Books /\ [WorkerNext]_workerVars
        => [\A w \in Stop : future[w] = "pending" /\ future'[w] = "result"
              => \A i \in Item : fate[i] # "sent"]_workerVars
  BY StopResult DEF Books, WorkerInv, ExecutingIsWatched
<1>2. Books /\ [WorkerNext]_workerVars
        => [\A f \in Future : Resolved(future[f]) => future'[f] = future[f]]_workerVars
  BY AnswerStep
<1>3. Books /\ [WorkerNext]_workerVars
        => [\A i \in Item : fate'[i] # fate[i] =>
              \/ fate[i] = "unsent" /\ fate'[i] = "sent" /\ future[i] = "pending"
              \/ fate[i] = "sent" /\ fate'[i] \in {"done", "error", "halted", "reset"}]_workerVars
  BY SendStep
<1> QED
  BY <1>1, <1>2, <1>3, PTL DEF QuietWhenStopped, AnsweredOnce, SentOnce

\* No future of any lane is ever answered twice.
THEOREM FuturesAnsweredOnce == WorkerSpec => AnsweredOnce
BY WorkerPromises, BooksAlways, PTL DEF WorkerSpec

\* No command is ever transmitted twice, or transmitted for a caller who has
\* been told that it was refused, withdrawn or preempted.
THEOREM CommandsSentOnce == WorkerSpec => SentOnce
BY WorkerPromises, BooksAlways, PTL DEF WorkerSpec
=============================================================================
