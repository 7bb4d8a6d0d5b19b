----------------------------- MODULE MessageValues -----------------------------
(***************************************************************************)
(* What a string_ref promises its user: every object shows a text of its   *)
(* own, copying is all or nothing, and moving empties the source.          *)
(***************************************************************************)
CONSTANTS Refs, Texts

VARIABLE shown  \* what each object shows, "absent" where there is none

Init == shown = [r \in Refs |-> "absent"]

Create(r) ==
  /\ shown[r] = "absent"
  /\ \E x \in Texts \cup {"empty", "literal"} : shown' = [shown EXCEPT ![r] = x]

(* Copy construction, or assignment when r is already there. *)
Copy(r, s) ==
  /\ shown[s] # "absent"
  /\ shown' = [shown EXCEPT ![r] = shown[s]]

Move(r, s) ==
  /\ r # s
  /\ shown[s] # "absent"
  /\ shown' = [shown EXCEPT ![r] = shown[s], ![s] = "empty"]

Destroy(r) ==
  /\ shown[r] # "absent"
  /\ shown' = [shown EXCEPT ![r] = "absent"]

Next ==
  \/ \E r \in Refs : Create(r) \/ Destroy(r)
  \/ \E r, s \in Refs : Copy(r, s) \/ Move(r, s)

Spec == Init /\ [][Next]_shown
===============================================================================
