---------------------------- MODULE MCFeedAnchor ----------------------------
(* Instances of FeedAnchor for TLC. *)
EXTENDS FeedAnchor, TLC

\* Workers and events are interchangeable.
Symmetry == Permutations(Workers) \cup Permutations(Events)
=============================================================================
