------------------------ MODULE MCReceiptBatchAnchor ------------------------
(* Instances of ReceiptBatchAnchor for TLC. *)
EXTENDS ReceiptBatchAnchor, TLC

\* Workers and operators are interchangeable.
Symmetry == Permutations(Workers) \cup Permutations(Operators)
=============================================================================
