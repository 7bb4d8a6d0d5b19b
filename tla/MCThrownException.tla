-------------------------- MODULE MCThrownException --------------------------
(* Two threads, an array of three, a class with a clause and one without. *)
EXTENDS ThrownException, TLC

MCThrown == {"domain_error", "other"}
Symmetry == Permutations(Threads)
===============================================================================
