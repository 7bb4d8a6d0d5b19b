--------------------------- MODULE MCSystemMessage ---------------------------
(* Every text of up to five units and every source. *)
EXTENDS SystemMessage
===============================================================================
