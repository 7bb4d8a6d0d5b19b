------------------------------ MODULE Equivalence ------------------------------
(***************************************************************************)
(* status_code<void>::equivalent(), the semantic comparison behind ==.     *)
(* What the domains answer is a parameter.                                 *)
(***************************************************************************)
EXTENDS GenericCodes

CONSTANTS
  Do(_, _),  \* what the domain of a code says of it and another code
  Gen(_)     \* the generic code the domain of a code maps it to

(* Mutant: the second code's domain is never asked first. *)
EquivalentOneSided(a, b) ==
  IF a # Empty /\ b # Empty
  THEN \/ Do(a, b)
       \/ Gen(b) # Unknown /\ Do(a, Gen(b))
       \/ Gen(a) # Unknown /\ Do(b, Gen(a))
  ELSE a = Empty /\ b = Empty

(* Mutant: only the second code is mapped to its generic code. *)
EquivalentHalfGeneric(a, b) ==
  IF a # Empty /\ b # Empty
  THEN \/ Do(a, b)
       \/ Do(b, a)
       \/ Gen(b) # Unknown /\ Do(a, Gen(b))
  ELSE a = Empty /\ b = Empty

EquivalentBy(a, b) ==
  IF a # Empty /\ b # Empty
  THEN \/ Do(a, b)
       \/ Do(b, a)
       \/ Gen(b) # Unknown /\ Do(a, Gen(b))
       \/ Gen(a) # Unknown /\ Do(b, Gen(a))
  ELSE a = Empty /\ b = Empty

(* What a domain must answer about the codes F for == to mean "the same    *)
(* errc" among them: every code has a known generic code, which is in F,   *)
(* is its own generic code and is accepted by the code's domain; and no    *)
(* domain accepts a code of another errc.                                  *)
Faithful(F) ==
  \A a \in F :
    /\ a # Empty
    /\ Gen(a) # Unknown
    /\ Gen(a) \in F
    /\ Gen(Gen(a)) = Gen(a)
    /\ Do(a, Gen(a))
    /\ \A b \in F : Do(a, b) => Gen(a) = Gen(b)
===============================================================================
