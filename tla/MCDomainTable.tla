----------------------------- MODULE MCDomainTable -----------------------------
(* Three threads ask for three categories and the table has two slots (64  *)
(* in the source): every run reaches a full table.                         *)
EXTENDS DomainTableRefinement
===============================================================================
