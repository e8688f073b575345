----------------------------- MODULE Operations -----------------------------
(***************************************************************************)
(* cs71d/operations.py: the lifecycle of a durable operation, and the      *)
(* classification of failures that cs71d/domain.py builds on it.           *)
(***************************************************************************)

OperationState ==
    {"queued", "accepted", "running", "succeeded", "failed", "cancelled", "uncertain"}

Terminal == {"succeeded", "failed", "cancelled", "uncertain"}

Unresolved == {"failed", "cancelled", "uncertain"}

AllowedTransitions(from) ==
    CASE from = "queued"   -> {"accepted"} \cup Unresolved
      [] from = "accepted" -> {"running"} \cup Unresolved
      [] from = "running"  -> {"succeeded"} \cup Unresolved
      [] OTHER             -> {}

CanTransition(from, to) == to \in AllowedTransitions(from)

\* Worker errors that prove the command never left the queue.
NeverDispatched == {"WorkerNotRunning", "SessionNotReady", "QueueFull", "StopInProgress"}

\* Mutant: whatever was not settled by a terminal counts as failed.
ClassifyFailed(current, error) ==
    IF error \in {"PreemptedByStop", "PreemptedByRecovery"} \cup NeverDispatched
    THEN "cancelled"
    ELSE "failed"

\* The fail-closed terminal state for an operation in state `current` whose
\* future failed with `error`.
Classify(current, error) ==
    IF error = "DeadlineExpired" THEN "failed"
    ELSE IF error \in {"PreemptedByStop", "PreemptedByRecovery"} \cup NeverDispatched
         THEN "cancelled"
    ELSE IF error = "WorkerUncertain" THEN "uncertain"
    ELSE IF current # "running" THEN "failed"
    ELSE "uncertain"
=============================================================================
