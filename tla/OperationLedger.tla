-------------------------- MODULE OperationLedger ---------------------------
(***************************************************************************)
(* What the daemon promises about an operation, without threads, queues or *)
(* sessions: a durable ledger beside the effects commands have on the      *)
(* machine (docs/architecture/runtime-and-domain.md, "Queues, operations   *)
(* and state").                                                            *)
(***************************************************************************)
EXTENDS Operations

CONSTANTS Command,   \* operations that move the machine
          Other      \* stops, session operations, configuration changes

VARIABLES ledger,    \* the durable state of every operation
          effect     \* what each command has done to the machine

ledgerVars == <<ledger, effect>>

LedgerInit ==
    /\ ledger = [o \in Command \cup Other |-> "absent"]
    /\ effect = [c \in Command |-> "none"]

\* An admission makes several durable steps at once; only a configuration
\* change, whose terminal is its own commit, can end in it.
Enter(o) ==
    /\ ledger[o] = "absent"
    /\ \E to \in {"queued", "accepted", "running", "succeeded"} :
         /\ o \in Command => to \in {"queued", "accepted"}
         /\ ledger' = [ledger EXCEPT ![o] = to]
    /\ UNCHANGED effect

\* The evidence a command's terminal state must rest on.
Justified(c, to) ==
    /\ to = "succeeded" => effect[c] = "done"
    /\ to = "failed"    => effect[c] \in {"none", "refused"}
    /\ to = "cancelled" => effect[c] # "executing"

Advance(o) ==
    /\ \E to \in OperationState :
         /\ CanTransition(ledger[o], to)
         /\ o \in Command => Justified(o, to)
         /\ ledger' = [ledger EXCEPT ![o] = to]
    /\ UNCHANGED effect

\* A command starts at most once, only while it is on record as running, and
\* only when nothing else is executing.
Begin(c) ==
    /\ ledger[c] = "running" /\ effect[c] = "none"
    /\ \A d \in Command : effect[d] # "executing"
    /\ effect' = [effect EXCEPT ![c] = "executing"]
    /\ UNCHANGED ledger

\* It is completed, refused, or cut short by a stop or a reset.
End(c) ==
    /\ effect[c] = "executing"
    /\ \E how \in {"done", "refused", "over"} : effect' = [effect EXCEPT ![c] = how]
    /\ UNCHANGED ledger

LedgerNext ==
    \/ \E o \in Command \cup Other : Enter(o) \/ Advance(o)
    \/ \E c \in Command : Begin(c) \/ End(c)

LedgerSpec == LedgerInit /\ [][LedgerNext]_ledgerVars
=============================================================================
