----------------------------- MODULE MCJournal ------------------------------
(***************************************************************************)
(* Journal for TLC: two keys, each of them sent with two different         *)
(* requests, and two configuration fields.                                 *)
(***************************************************************************)
EXTENDS Journal, TLC

\* A handler is past using a generation it has compared, or that is left behind.
Forgotten(c) ==
    [c EXCEPT !.generation = IF c.step = "read" /\ @ >= generation THEN @ ELSE 0]
\* In the last life a generation of an earlier one that is left behind.
Remembered ==
    [l \in DOMAIN peaks |->
        IF up /\ life = bound.lives /\ peaks[l] < generation THEN 0 ELSE peaks[l]]
JournalView ==
    <<db, doubt, up, life, Remembered, generation, available, ready, work, lock,
      [h \in Handler |-> Forgotten(call[h])], answer, bound>>

HandlerSymmetry == Permutations(Handler)

Ask(key, action, role, identity, changes) ==
    [key |-> key, action |-> action, role |-> role, identity |-> identity,
     changes |-> changes]

\* Two requests at once in one life, or one at a time over two lives.
Corners == {[lives |-> 1, requests |-> 2], [lives |-> 2, requests |-> 1]}
OneAtATime == {[lives |-> 2, requests |-> 1]}

\* Two keys, each sent with a change to a field of its own and with another
\* command: the autonomous actor's sort, an operator's stop.
Requests ==
    {Ask("k1", "sort", "machine", "machine", <<>>),
     Ask("k1", "configure", "operator", "bff", [f \in {"heartbeat"} |-> 1]),
     Ask("k2", "configure", "operator", "bff", [f \in {"retention"} |-> 1]),
     Ask("k2", "stop", "operator", "bff", <<>>)}
=============================================================================
