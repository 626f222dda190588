--------------------------- MODULE MCSigningCeremony ---------------------------
(* Small instances of SigningCeremony. *)
EXTENDS SigningCeremony, TLC

Symmetry == Permutations(Requests)
================================================================================
