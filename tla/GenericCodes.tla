----------------------------- MODULE GenericCodes -----------------------------
(***************************************************************************)
(* The codes every domain knows of.                                        *)
(***************************************************************************)

(* A code of the generic domain, errc::unknown, and a code of no domain. *)
Generic(e) == [dom |-> "generic", val |-> e]
Unknown == Generic("unknown")
Empty == [dom |-> "empty"]
===============================================================================
