------------------------------ MODULE CodeStorage ------------------------------
(***************************************************************************)
(* The storage of one status code as it is erased, moved between erased    *)
(* types, cloned and read by its domain.  An object of a code type is the  *)
(* domain pointer and a value, padded to the alignment of the pointer; a   *)
(* domain reads its value type at the place of the value, whatever type    *)
(* the value was stored as.                                                *)
(***************************************************************************)
EXTENDS ErasureCast

CONSTANTS
  Align,   \* alignment and size of a pointer
  Typed,   \* value types of domains
  Erased   \* types codes are erased to

ASSUME AlignAssumption == Align \in Nat \ {0}
ASSUME TypesAssumption ==
  \A t \in Typed \cup Erased : t \in [size : Nat \ {0}, kind : Kinds]

VARIABLES
  domain,    \* the value type of the code's domain
  original,  \* the value the code was made with
  type,      \* the type the value is stored as now
  storage    \* what follows the domain pointer: the value and the padding

(* History variables, which no code reads. *)
VARIABLES
  kept,  \* bytes of the value that every conversion and move had room for
  kinds  \* kinds of types it was stored as; memcpy() leaves zeros after it,
         \* as the conversion of an unsigned number does

history == <<kept, kinds>>
vars == <<littleEndian, domain, original, type, storage, history>>

(* sizeof(status_code_storage), without the pointer. *)
Slot(t) == ((t.size + Align - 1) \div Align) * Align
Value == SubSeq(storage, 1, type.size)

(* Padding bytes hold anything; zeros and ones stand for it. *)
Stored(t, b) == {b \o Filled(Slot(t) - t.size, any) : any \in {0, Base - 1}}

TypeOK ==
  /\ littleEndian \in BOOLEAN
  /\ domain \in Typed
  /\ original \in Bytes(domain.size)
  /\ type \in Erased \cup {domain}
  /\ storage \in Bytes(Slot(type))
  /\ kept \subseteq 1 .. domain.size
  /\ {domain.kind, type.kind} \subseteq kinds /\ kinds \subseteq Kinds

Init ==
  /\ littleEndian \in BOOLEAN
  /\ domain \in Typed
  /\ original \in Bytes(domain.size)
  /\ type = domain
  /\ storage \in Stored(domain, original)
  /\ kept = 1 .. domain.size
  /\ kinds = {domain.kind}

(* domain_value_type_erasure_is_safe compares the sizes of whole objects. *)
ErasureIsSafe(to, from) == Slot(from) <= Slot(to)

(* A constructor reads the value alone, as its old type, and makes one of  *)
(* its new type.                                                           *)
Converts(to) ==
  /\ storage' \in Stored(to, Cast(to, type, Value))
  /\ type' = to
  /\ kept' = kept \cap (1 .. type.size) \cap (1 .. to.size)
  /\ kinds' = kinds \cup {to.kind}
  /\ UNCHANGED <<littleEndian, domain, original>>

-------------------------------------------------------------------------------
(* Construction of an erased code from a typed or another erased one. *)
Erase(to) ==
  /\ to # type
  /\ ErasureIsSafe(to, type)
  /\ Converts(to)

(* A move to another code of the same type: the value moves. *)
Move ==
  /\ storage' \in Stored(type, Value)
  /\ kept' = kept \cap (1 .. type.size)
  /\ UNCHANGED <<littleEndian, domain, original, type, kinds>>

(* Mutant: the whole object is copied, its padding included. *)
MemcpyPadding(to, blank) ==
  SubSeq(storage, 1, Slot(domain)) \o SubSeq(blank, Slot(domain) + 1, Slot(to))

(* memcpy() of as many bytes as the domain's own code has, padding apart. *)
Memcpy(to, blank) ==
  SubSeq(storage, 1, domain.size) \o SubSeq(blank, domain.size + 1, Slot(to))

(* Mutant: no comparison of the sizes. *)
RefusedNever(to) ==
  FALSE

(* ENOBUFS: the source is larger than the whole destination. *)
Refused(to) ==
  Slot(to) < domain.size

(* clone() of an erased code, which tells the domain the domain's own size *)
(* instead of the erased one's, so that no clone is refused.               *)
Clone ==
  /\ type \in Erased
  /\ \E blank \in Stored(type, Filled(type.size, 0)) : storage' = Memcpy(type, blank)
  /\ kinds' = kinds \cup {"unsigned"}
  /\ UNCHANGED <<littleEndian, domain, original, type, kept>>

(* Copy of a status_code<void>, its type unknown. *)
CopyUnknown(to) ==
  /\ ~Refused(to)
  /\ \E blank \in Stored(to, Filled(to.size, 0)) : storage' = Memcpy(to, blank)
  /\ type' = to
  /\ kinds' = kinds \cup {to.kind, "unsigned"}
  /\ UNCHANGED <<littleEndian, domain, original, kept>>

(* Explicit construction of the typed code from an erased one. *)
Unerase ==
  /\ type # domain
  /\ ErasureIsSafe(domain, type)
  /\ Converts(domain)

Next ==
  \/ \E to \in Erased : Erase(to) \/ CopyUnknown(to)
  \/ Move
  \/ Clone
  \/ Unerase

Spec == Init /\ [][Next]_vars

-------------------------------------------------------------------------------
(* Whatever erased types a code goes through, by construction, move or     *)
(* memcpy(), its domain reads the bytes of the value it was made with,     *)
(* each where it was, on machines of either byte order: all of them that   *)
(* every type the value was converted from or to had room for.             *)
DomainReadsItsValue == \A k \in kept : storage[k] = original[k]

(* What keeps the number in an erased integer the code's: the least        *)
(* significant byte comes first, there was room for all of the value, and  *)
(* its top bit is 0 or all it was stored as has its signedness.            *)
NumberIsSafe ==
  /\ littleEndian
  /\ kept = 1 .. domain.size
  /\ Last(original) < Base \div 2 \/ kinds = {domain.kind}

(* system_code(errc::no_link).value() == static_cast<int>(errc::no_link):  *)
(* the number an erased code shows is the one it was made with, whatever   *)
(* conversions and copies it went through.  The clone of a negative number *)
(* is not safe: memcpy() of the domain's bytes leaves zeros after them.    *)
ErasedNumberIsTheCode ==
  NumberIsSafe /\ Integral(domain) /\ Integral(type) /\ domain.size <= type.size
  => Number(type, Value) = Number(domain, original)
===============================================================================
