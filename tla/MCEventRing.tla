---------------------------- MODULE MCEventRing -----------------------------
(* Instances of EventRing for TLC. *)
EXTENDS EventRing, TLC

PublisherSymmetry == Permutations(Publisher)
=============================================================================
