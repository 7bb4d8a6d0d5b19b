---------------------------- MODULE MCStringRefOrder ---------------------------
(* Two threads, two string_ref objects and one block.                      *)
EXTENDS StringRefOrder, TLC

Symmetry == Permutations(Threads) \cup Permutations(Refs)
===============================================================================
