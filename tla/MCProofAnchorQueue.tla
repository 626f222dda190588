------------------------ MODULE MCProofAnchorQueue ------------------------
(* Instances of ProofAnchorQueue for TLC. *)
EXTENDS ProofAnchorQueue, TLC

\* Workers and jobs are interchangeable.
Symmetry == Permutations(Workers) \cup Permutations(Jobs)
=============================================================================
