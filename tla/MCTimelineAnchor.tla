-------------------------- MODULE MCTimelineAnchor --------------------------
(* Instances of TimelineAnchor for TLC. *)
EXTENDS TimelineAnchor, TLC

\* Workers, requests and receipts are interchangeable.
Symmetry == Permutations(Workers) \cup Permutations(Clients) \cup Permutations(Receipts)
=============================================================================
