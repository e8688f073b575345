------------------------- MODULE MCOperationDomain --------------------------
(***************************************************************************)
(* Instances of OperationDomain for TLC.  A behaviour is explored with one *)
(* of several sets of operations offered to the daemon, so that a run is   *)
(* the sum of those instances and not their product.                       *)
(***************************************************************************)
EXTENDS OperationDomain, TLC

VARIABLE offered    \* the operations, Close, and errors nobody catches, in this behaviour

\* A stop is admitted whatever it observed, so its client reads no snapshot.
OnlyOffered ==
    /\ \A o \in Op \ offered : phase'[o] = "idle" /\ o \notin fresh'
    /\ Stop \cap fresh' = {}
    /\ state' = "closing" => "close" \in offered
    /\ (\E o \in Op : phase'[o] = "escaped") => "escape" \in offered

OfferedNext == DomainNext /\ OnlyOffered /\ UNCHANGED offered

\* Every command with a stop, while the daemon closes, or with errors that escape; and
\* one command with such errors and a stop, or a configuration change, while it closes.
CommandsInit ==
    /\ DomainInit
    /\ offered \in {Motion \cup Stop, Motion \cup {"close"}, Motion \cup {"escape"}} \cup
                   {{m, "escape", "close"} \cup other : m \in Motion, other \in {Stop, Configure}}
CommandsSpec == CommandsInit /\ [][OfferedNext]_<<vars, offered>>

\* A command with a recover; a recover, with errors that escape, or a command and a stop
\* while the daemon closes; a command with errors that escape.
RepairInit ==
    /\ DomainInit
    /\ offered \in {Motion \cup Recover, Recover \cup {"close", "escape"},
                    Motion \cup Stop \cup {"close"}, Motion \cup {"escape"}}
RepairSpec == RepairInit /\ [][OfferedNext]_<<vars, offered>> /\ Fairness

OperationSymmetry == Permutations(Motion) \cup Permutations(Stop)
=============================================================================
