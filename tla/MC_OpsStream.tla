----------------------------- MODULE MC_OpsStream -----------------------------
(* Instances of OpsStream for TLC. *)
EXTENDS OpsStream, TLC

\* Publishers are interchangeable.
Symmetry == Permutations(Publishers)
=============================================================================
