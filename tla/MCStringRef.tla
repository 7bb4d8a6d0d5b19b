------------------------------ MODULE MCStringRef ------------------------------
(* Two threads, four string_ref objects and two blocks.                   *)
EXTENDS StringRef, TLC

Symmetry == Permutations(Threads) \cup Permutations(Refs) \cup Permutations(Blocks)
===============================================================================
