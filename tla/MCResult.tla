------------------------------- MODULE MCResult -------------------------------
(* Three results, one typed and one erased error variable, two failures. *)
EXTENDS Result, TLC

Symmetry == Permutations(Results) \cup Permutations(Failures)
===============================================================================
