------------------------------ MODULE MCErasedCode -----------------------------
(* Three code variables, one of them with larger storage, and three heap   *)
(* cells: enough to move a payload around, clone it and lose one.          *)
EXTENDS ErasedCode, TLC

Symmetry == Permutations(Cells) \cup Permutations(Vals) \cup Permutations(Codes \ Large)
===============================================================================
