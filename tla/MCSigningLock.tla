---- MODULE MCSigningLock ----
(* Instances of SigningLock for TLC. *)
EXTENDS SigningLock, TLC

Symmetry == Permutations(Signers) \cup Permutations(Texts) \cup Permutations(Browsers)
====
