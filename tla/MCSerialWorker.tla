--------------------------- MODULE MCSerialWorker ---------------------------
(***************************************************************************)
(* Instances of SerialWorker for TLC.  A behaviour is explored with one of *)
(* several sets of submissions offered to the worker, so that a run is the *)
(* sum of those instances and not their product.                           *)
(***************************************************************************)
EXTENDS SerialWorker, TLC

CONSTANTS m1, q1, c1, r1, s1, s2

VARIABLE offered    \* the futures callers ask for in this behaviour

\* A command with two kinds of session repair, with either and a stop, with a
\* second item in its lane and a stop, and with a stop joined by a second caller.
Offers == {{m1, c1, r1}, {m1, c1, s1}, {m1, r1, s1}, {m1, q1, s1}, {m1, s1, s2}}

OnlyOffered == \A f \in Future \ offered : future'[f] = "unsubmitted"

OfferedInit == WorkerInit /\ offered \in Offers

OfferedSpec ==
    /\ OfferedInit
    /\ [][WorkerNext /\ OnlyOffered /\ UNCHANGED offered]_<<workerVars, offered>>
    /\ WF_workerVars(Thread)
=============================================================================
