----------------------------- MODULE MCCodeStorage -----------------------------
(* Bytes of two bits, pointers of two bytes: an int is half a pointer. *)
EXTENDS CodeStorage

MCTyped == [size : {1, 2}, kind : Kinds] \cup {[size |-> 4, kind |-> "object"]}

(* An int, followed by as much padding; intptr_t, its unsigned twin and    *)
(* pointers; and records of two words, as an error_info.                   *)
MCErased ==
  {[size |-> 1, kind |-> "signed"]}
    \cup [size : {2}, kind : Kinds]
    \cup [size : {4}, kind : {"object", "unsigned"}]
===============================================================================
