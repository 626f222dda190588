------------------------------ MODULE MCTimeline ------------------------------
(* Instances of Timeline for TLC. *)
EXTENDS Timeline, TLC

\* Clients and contents are interchangeable.
Symmetry == Permutations(Clients) \cup Permutations(Contents)
=============================================================================
