------------------------------ MODULE CodeValues -------------------------------
(***************************************************************************)
(* What an erased status code promises its user: it is a value.  A code is *)
(* empty, or holds a code of some domain, in place or nested; copying it   *)
(* gives an equal, independent code, moving it leaves the source empty,    *)
(* and no operation on one code changes another.                           *)
(***************************************************************************)
CONSTANTS Codes, Vals

VARIABLES
  held,  \* what each code variable holds
  dead   \* the process was terminated

vars == <<held, dead>>

Unborn == [kind |-> "unborn"]
Empty == [kind |-> "empty"]
Plain(v) == [kind |-> "plain", val |-> v]
Wide(v) == [kind |-> "wide", val |-> v]
Nested(v) == [kind |-> "nested", val |-> v]

Init == held = [c \in Codes |-> Unborn] /\ dead = FALSE

Construct(c) ==
  /\ held[c] = Unborn
  /\ \E x \in {Empty} \cup UNION {{Plain(v), Wide(v), Nested(v)} : v \in Vals} :
       held' = [held EXCEPT ![c] = x]
  /\ UNCHANGED dead

Copy(c, d) ==
  /\ held[c] = Unborn
  /\ held[d] # Unborn
  /\ held' = [held EXCEPT ![c] = held[d]]
  /\ UNCHANGED dead

(* A nothrow copy that does not fit, or whose payload cannot be copied,    *)
(* makes an empty code.                                                    *)
CopyFails(c, d) ==
  /\ held[c] = Unborn
  /\ held[d].kind \in {"wide", "nested"}
  /\ held' = [held EXCEPT ![c] = Empty]
  /\ UNCHANGED dead

MoveInto(c, d) ==
  /\ held[d] # Unborn
  /\ held' = [held EXCEPT ![c] = held[d], ![d] = Empty]
  /\ UNCHANGED dead

Reset(c) ==
  /\ held[c] # Unborn
  /\ held' = [held EXCEPT ![c] = Empty]
  /\ UNCHANGED dead

(* The user changes the nested code through the pointer get_if() returned. *)
Modify(c) ==
  /\ held[c].kind = "nested"
  /\ \E v \in Vals : held' = [held EXCEPT ![c] = Nested(v)]
  /\ UNCHANGED dead

Destroy(c) ==
  /\ held[c] # Unborn
  /\ held' = [held EXCEPT ![c] = Unborn]
  /\ UNCHANGED dead

Die == ~dead /\ dead' = TRUE /\ UNCHANGED held

Next ==
  \/ \E c \in Codes : Construct(c) \/ Reset(c) \/ Modify(c) \/ Destroy(c)
  \/ \E c, d \in Codes : Copy(c, d) \/ CopyFails(c, d) \/ MoveInto(c, d)
  \/ Die

Spec == Init /\ [][Next]_vars
===============================================================================
