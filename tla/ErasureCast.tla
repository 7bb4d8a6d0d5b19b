------------------------------ MODULE ErasureCast ------------------------------
(***************************************************************************)
(* detail::erasure_cast: a value of one type is stored as a value of       *)
(* another size.  Values are their bytes in the order of their addresses,  *)
(* and a type is its size and how its bytes are read: "signed" and         *)
(* "unsigned" integers and enumerations, or "object" for any other type.   *)
(***************************************************************************)
EXTENDS Integers, SequencesExt

CONSTANT Base  \* values of a byte

ASSUME BaseAssumption == Base \in Nat /\ Base % 2 = 0 /\ Base > 0

(* Of the machine the program was built for. *)
VARIABLE littleEndian  \* whether the least significant byte comes first

Kinds == {"signed", "unsigned", "object"}

Bytes(n) == [1..n -> 0 .. Base - 1]
Filled(n, byte) == [i \in 1..n |-> byte]
Integral(t) == t.kind # "object"

(* What a number is: its digits from the most significant one, which also  *)
(* tells the sign of a signed number.                                      *)
Digits(b) == IF littleEndian THEN Reverse(b) ELSE b
Negative(t, b) == t.kind = "signed" /\ Digits(b)[1] >= Base \div 2
Reading(digits, sign) ==
  LET read[n \in 0 .. Len(digits)] ==
        IF n = 0 THEN sign ELSE Base * read[n - 1] + digits[n]
  IN  read
Number(t, b) == Reading(Digits(b), IF Negative(t, b) THEN -1 ELSE 0)[Len(b)]

(* Little endian machines widen integers by static_cast, through the       *)
(* integer of the new size and the old sign; any other value, and any      *)
(* value elsewhere, becomes the first member of an object whose other      *)
(* member is zeros.                                                        *)
Padding(to, from, b) ==
  IF littleEndian /\ Integral(to) /\ Integral(from) /\ Negative(from, b) THEN Base - 1 ELSE 0

(* Mutant: the zeros come first in the padded object. *)
CastPaddingFirst(to, from, b) ==
  IF to.size <= from.size THEN SubSeq(b, 1, to.size)
  ELSE Filled(to.size - from.size, Padding(to, from, b)) \o b

(* The low bytes that a narrowing static_cast keeps where it is used are   *)
(* the first ones, which the padded object also yields.                    *)
Cast(to, from, b) ==
  IF to.size <= from.size THEN SubSeq(b, 1, to.size)
  ELSE b \o Filled(to.size - from.size, Padding(to, from, b))
===============================================================================
