---- MODULE MCWorkspaceClaim ----
(* Instances of WorkspaceClaim for TLC. *)
EXTENDS WorkspaceClaim, TLC

Symmetry ==
  Permutations(Anons) \cup Permutations(Agreements) \cup Permutations(Procs)
====
