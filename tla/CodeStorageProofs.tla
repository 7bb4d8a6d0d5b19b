--------------------------- MODULE CodeStorageProofs ---------------------------
(***************************************************************************)
(* Proofs about CodeStorage for any sizes of types, pointers and bytes.    *)
(***************************************************************************)
EXTENDS CodeStorage, SequenceTheorems, WellFoundedInduction, TLAPS

(* The domain's value fits into the whole object it is in, padding         *)
(* included: all that the two comparisons of sizes see to.                 *)
IInv == TypeOK /\ domain.size <= Slot(type)

-------------------------------------------------------------------------------
(* The lemmas about sequences of bytes. *)
LEMMA BytesAreSequences ==
  ASSUME NEW n \in Nat, NEW b \in Bytes(n)
  PROVE  b \in Seq(0 .. Base - 1) /\ Len(b) = n
<1>1. b \in Seq(0 .. Base - 1)
  BY SeqDef DEF Bytes
<1>2. Len(b) \in Nat /\ 1 .. Len(b) = 1 .. n
  BY <1>1, LenProperties DEF Bytes
<1>3. (n \in 1 .. n => n \in 1 .. Len(b)) /\ (Len(b) \in 1 .. Len(b) => Len(b) \in 1 .. n)
  BY <1>2
<1>4. QED
  BY ONLY n \in Nat, <1>1, <1>2, <1>3

LEMMA SequencesAreBytes ==
  ASSUME NEW b \in Seq(0 .. Base - 1)
  PROVE  b \in Bytes(Len(b))
BY LenProperties DEF Bytes

LEMMA FilledIsBytes ==
  ASSUME NEW n \in Nat, NEW byte \in 0 .. Base - 1
  PROVE  Filled(n, byte) \in Bytes(n)
BY DEF Filled, Bytes

LEMMA ConcatElements ==
  ASSUME NEW m \in Nat, NEW n \in Nat, m <= n, NEW a \in Bytes(m), NEW b \in Bytes(n - m)
  PROVE  /\ a \o b \in Bytes(n)
         /\ \A i \in 1 .. n : (a \o b)[i] = IF i <= m THEN a[i] ELSE b[i - m]
<1>1. n - m \in Nat /\ m + (n - m) = n
  OBVIOUS
<1>2. a \in Seq(0 .. Base - 1) /\ Len(a) = m /\ b \in Seq(0 .. Base - 1) /\ Len(b) = n - m
  BY <1>1, BytesAreSequences
<1>3. /\ a \o b \in Seq(0 .. Base - 1) /\ Len(a \o b) = n
      /\ \A i \in 1 .. n : (a \o b)[i] = IF i <= m THEN a[i] ELSE b[i - m]
  BY <1>1, <1>2, ConcatProperties
<1>4. a \o b \in Bytes(n)
  BY <1>3, SequencesAreBytes
<1>5. QED
  BY <1>3, <1>4

LEMMA FirstElements ==
  ASSUME NEW n \in Nat, NEW a \in Bytes(n), NEW k \in 1 .. n
  PROVE  /\ SubSeq(a, 1, k) \in Bytes(k)
         /\ \A i \in 1 .. k : SubSeq(a, 1, k)[i] = a[i]
<1>1. 1 \in Int /\ k \in Int /\ \A i \in 1 .. k : a[i] \in 0 .. Base - 1
  BY DEF Bytes
<1>2. /\ SubSeq(a, 1, k) \in Seq(0 .. Base - 1)
      /\ Len(SubSeq(a, 1, k)) = IF 1 <= k THEN k - 1 + 1 ELSE 0
      /\ \A i \in 1 .. k - 1 + 1 : SubSeq(a, 1, k)[i] = a[1 + i - 1]
  BY <1>1, SubSeqProperties
<1>3. Len(SubSeq(a, 1, k)) = k /\ k - 1 + 1 = k /\ \A i \in 1 .. k : 1 + i - 1 = i
  BY <1>2
<1>4. SubSeq(a, 1, k) \in Bytes(k)
  BY <1>2, <1>3, SequencesAreBytes
<1>5. ASSUME NEW i \in 1 .. k PROVE SubSeq(a, 1, k)[i] = a[i]
  BY <1>2, <1>3
<1>6. QED
  BY <1>4, <1>5

LEMMA LastElements ==
  ASSUME NEW m \in Nat, NEW n \in Nat, m <= n, NEW a \in Bytes(n)
  PROVE  /\ SubSeq(a, m + 1, n) \in Bytes(n - m)
         /\ \A i \in 1 .. n - m : SubSeq(a, m + 1, n)[i] = a[m + i]
<1>1. m + 1 \in Int /\ n \in Int /\ \A i \in m + 1 .. n : a[i] \in 0 .. Base - 1
  BY DEF Bytes
<1>2. /\ SubSeq(a, m + 1, n) \in Seq(0 .. Base - 1)
      /\ Len(SubSeq(a, m + 1, n)) = IF m + 1 <= n THEN n - (m + 1) + 1 ELSE 0
      /\ \A i \in 1 .. n - (m + 1) + 1 : SubSeq(a, m + 1, n)[i] = a[(m + 1) + i - 1]
  BY <1>1, SubSeqProperties
<1>3. n - (m + 1) + 1 = n - m /\ \A i \in Int : (m + 1) + i - 1 = m + i
  OBVIOUS
<1>4. Len(SubSeq(a, m + 1, n)) = n - m
  BY <1>2, <1>3
<1>5. SubSeq(a, m + 1, n) \in Bytes(n - m)
  BY <1>2, <1>4, SequencesAreBytes
<1>6. ASSUME NEW i \in 1 .. n - m PROVE SubSeq(a, m + 1, n)[i] = a[m + i]
  <2>1. i \in 1 .. n - (m + 1) + 1 /\ (m + 1) + i - 1 = m + i
    OBVIOUS
  <2>2. QED
    BY <1>2, <2>1
<1>7. QED
  BY <1>5, <1>6

(* An erasure_cast makes a value of the new type: it keeps as many of the  *)
(* first bytes as the smaller type has, and goes on with the padding.      *)
LEMMA CastIsBytes ==
  ASSUME NEW to, NEW from, to.size \in Nat \ {0}, from.size \in Nat \ {0},
         NEW b \in Bytes(from.size)
  PROVE  /\ Cast(to, from, b) \in Bytes(to.size)
         /\ \A i \in 1 .. to.size :
              Cast(to, from, b)[i] = IF i <= from.size THEN b[i] ELSE Padding(to, from, b)
<1>1. CASE to.size <= from.size
  <2>1. Cast(to, from, b) = SubSeq(b, 1, to.size)
    BY <1>1, Zenon DEF Cast
  <2>2. /\ SubSeq(b, 1, to.size) \in Bytes(to.size)
        /\ \A i \in 1 .. to.size : SubSeq(b, 1, to.size)[i] = b[i]
    BY <1>1, FirstElements
  <2>3. QED
    BY <1>1, <2>1, <2>2
<1>2. CASE to.size > from.size
  <2> DEFINE pad == Filled(to.size - from.size, Padding(to, from, b))
  <2>1. /\ to.size - from.size \in Nat
        /\ pad \in Bytes(to.size - from.size)
        /\ \A i \in 1 .. to.size - from.size : pad[i] = Padding(to, from, b)
    <3>1. to.size - from.size \in Nat /\ Padding(to, from, b) \in 0 .. Base - 1
      BY <1>2, BaseAssumption DEF Padding
    <3>2. QED
      BY <3>1, FilledIsBytes DEF Filled
  <2>2. ~(to.size <= from.size)
    BY <1>2
  <2>3. Cast(to, from, b) = b \o pad
    BY <2>2, Zenon DEF Cast
  <2> HIDE DEF pad
  <2>4. /\ b \o pad \in Bytes(to.size)
        /\ \A i \in 1 .. to.size :
             (b \o pad)[i] = IF i <= from.size THEN b[i] ELSE pad[i - from.size]
    <3>1. /\ from.size \in Nat /\ to.size \in Nat /\ from.size <= to.size
          /\ b \in Bytes(from.size) /\ pad \in Bytes(to.size - from.size)
      BY <1>2, <2>1
    <3>2. QED
      BY ONLY <3>1, ConcatElements
  <2>5. ASSUME NEW i \in 1 .. to.size, i > from.size PROVE pad[i - from.size] = Padding(to, from, b)
    <3>1. i - from.size \in 1 .. to.size - from.size
      BY <1>2, <2>5
    <3>2. QED
      BY <2>1, <3>1
  <2>6. ASSUME NEW i \in 1 .. to.size
        PROVE  (b \o pad)[i] = IF i <= from.size THEN b[i] ELSE Padding(to, from, b)
    <3>1. CASE i <= from.size
      BY <2>4, <3>1
    <3>2. CASE ~(i <= from.size)
      <4>1. i > from.size
        BY <3>2
      <4>2. QED
        BY <2>4, <2>5, <3>2, <4>1
    <3>3. QED
      BY <3>1, <3>2
  <2>7. QED
    BY <2>3, <2>4, <2>6
<1>3. QED
  BY <1>1, <1>2

(* An object is large enough for its value.                                *)
LEMMA SlotHoldsValue ==
  ASSUME NEW t \in Typed \cup Erased
  PROVE  Slot(t) \in Nat /\ t.size \in Nat \ {0} /\ t.size <= Slot(t)
<1>1. t.size \in Nat \ {0}
  BY TypesAssumption
<1>2. ASSUME NEW x \in Nat
      PROVE  (x \div Align) * Align \in Nat /\ x < (x \div Align) * Align + Align
  BY AlignAssumption
<1>3. t.size + Align - 1 \in Nat
  BY <1>1, AlignAssumption
<1>4. QED
  BY <1>1, <1>2, <1>3, AlignAssumption DEF Slot


(* What a constructor leaves in the object: its value first.               *)
LEMMA StoredIsBytes ==
  ASSUME NEW t \in Typed \cup Erased, NEW b \in Bytes(t.size), NEW s \in Stored(t, b)
  PROVE  s \in Bytes(Slot(t)) /\ \A i \in 1 .. t.size : s[i] = b[i]
<1>1. PICK any \in {0, Base - 1} : s = b \o Filled(Slot(t) - t.size, any)
  BY DEF Stored
<1>2. Filled(Slot(t) - t.size, any) \in Bytes(Slot(t) - t.size) /\ Slot(t) - t.size \in Nat
  BY SlotHoldsValue, FilledIsBytes, BaseAssumption
<1>3. t.size \in Nat /\ Slot(t) \in Nat /\ t.size <= Slot(t)
  BY SlotHoldsValue
<1>4. /\ s \in Bytes(Slot(t))
      /\ \A i \in 1 .. Slot(t) :
           s[i] = IF i <= t.size THEN b[i] ELSE Filled(Slot(t) - t.size, any)[i - t.size]
  BY <1>1, <1>2, <1>3, ConcatElements
<1>5. QED
  BY <1>3, <1>4

(* memcpy() into an object that is large enough, which may have another    *)
(* type: the domain's bytes are copied, and the others stay.               *)
LEMMA MemcpyIsBytes ==
  ASSUME IInv, NEW to \in Typed \cup Erased, domain.size <= Slot(to),
         NEW blank \in Bytes(Slot(to))
  PROVE  /\ Memcpy(to, blank) \in Bytes(Slot(to))
         /\ \A i \in 1 .. Slot(to) :
              Memcpy(to, blank)[i] = IF i <= domain.size THEN storage[i] ELSE blank[i]
<1>1. /\ domain.size \in Nat \ {0} /\ Slot(to) \in Nat
      /\ Slot(type) \in Nat /\ domain.size <= Slot(type)
      /\ storage \in Bytes(Slot(type))
  BY SlotHoldsValue DEF IInv, TypeOK
<1> DEFINE a == SubSeq(storage, 1, domain.size)
           z == SubSeq(blank, domain.size + 1, Slot(to))
<1>2. a \in Bytes(domain.size) /\ \A i \in 1 .. domain.size : a[i] = storage[i]
  BY <1>1, FirstElements
<1>3. /\ z \in Bytes(Slot(to) - domain.size)
      /\ \A i \in 1 .. Slot(to) - domain.size : z[i] = blank[domain.size + i]
  BY <1>1, LastElements
<1>4. Memcpy(to, blank) = a \o z
  BY DEF Memcpy
<1> HIDE DEF a, z
<1>5. /\ a \o z \in Bytes(Slot(to))
      /\ \A i \in 1 .. Slot(to) :
           (a \o z)[i] = IF i <= domain.size THEN a[i] ELSE z[i - domain.size]
  <2>1. /\ domain.size \in Nat /\ Slot(to) \in Nat /\ domain.size <= Slot(to)
        /\ a \in Bytes(domain.size) /\ z \in Bytes(Slot(to) - domain.size)
    BY <1>1, <1>2, <1>3
  <2>2. QED
    BY ONLY <2>1, ConcatElements
<1>6. ASSUME NEW i \in 1 .. Slot(to), i > domain.size PROVE z[i - domain.size] = blank[i]
  <2>1. i - domain.size \in 1 .. Slot(to) - domain.size /\ domain.size + (i - domain.size) = i
    BY <1>1, <1>6
  <2>2. QED
    BY <1>3, <2>1
<1>7. ASSUME NEW i \in 1 .. Slot(to)
      PROVE  Memcpy(to, blank)[i] = IF i <= domain.size THEN storage[i] ELSE blank[i]
  <2>1. CASE i <= domain.size
    <3>1. i \in 1 .. domain.size
      BY <1>1, <2>1
    <3>2. QED
      BY <1>2, <1>4, <1>5, <2>1, <3>1
  <2>2. CASE ~(i <= domain.size)
    <3>1. i > domain.size
      BY <1>1, <2>2
    <3>2. QED
      BY <1>4, <1>5, <1>6, <2>2, <3>1
  <2>3. QED
    BY <2>1, <2>2
<1>8. Memcpy(to, blank) \in Bytes(Slot(to))
  BY <1>4, <1>5
<1>9. QED
  BY <1>7, <1>8

(* The value of the code is what comes first in the object.                *)
LEMMA ValueIsBytes ==
  ASSUME IInv
  PROVE  Value \in Bytes(type.size) /\ \A i \in 1 .. type.size : Value[i] = storage[i]
<1>1. /\ type.size \in Nat \ {0} /\ type.size <= Slot(type)
      /\ Slot(type) \in Nat /\ storage \in Bytes(Slot(type))
  BY SlotHoldsValue DEF IInv, TypeOK
<1>2. QED
  BY <1>1, FirstElements DEF Value

-------------------------------------------------------------------------------
(* One lemma per kind of step: the invariant, and what is where after it.  *)
LEMMA ConversionStores ==
  ASSUME IInv, NEW to \in Erased \cup {domain}, Slot(type) <= Slot(to), Converts(to)
  PROVE  /\ IInv'
         /\ \A i \in 1 .. to.size :
              storage'[i] = IF i <= type.size THEN storage[i] ELSE Padding(to, type, Value)
<1>1. /\ to.size \in Nat \ {0} /\ type.size \in Nat \ {0} /\ domain.size \in Nat \ {0}
      /\ Slot(to) \in Nat /\ Slot(type) \in Nat
      /\ to \in Typed \cup Erased /\ to.kind \in Kinds
  BY SlotHoldsValue, TypesAssumption DEF IInv, TypeOK
<1>2. Value \in Bytes(type.size) /\ \A i \in 1 .. type.size : Value[i] = storage[i]
  BY ValueIsBytes
<1>3. /\ Cast(to, type, Value) \in Bytes(to.size)
      /\ \A i \in 1 .. to.size :
           Cast(to, type, Value)[i] = IF i <= type.size THEN Value[i] ELSE Padding(to, type, Value)
  BY <1>1, <1>2, CastIsBytes
<1>4. /\ storage' \in Bytes(Slot(to))
      /\ \A i \in 1 .. to.size : storage'[i] = Cast(to, type, Value)[i]
  BY <1>1, <1>3, StoredIsBytes DEF Converts
<1>5. IInv'
  BY <1>1, <1>4 DEF Converts, IInv, TypeOK, Slot
<1>6. QED
  BY <1>1, <1>2, <1>3, <1>4, <1>5

LEMMA MoveStores ==
  ASSUME IInv, Move
  PROVE  IInv' /\ \A i \in 1 .. type.size : storage'[i] = storage[i]
<1>1. type \in Typed \cup Erased
  BY DEF IInv, TypeOK
<1>2. Value \in Bytes(type.size) /\ \A i \in 1 .. type.size : Value[i] = storage[i]
  BY ValueIsBytes
<1>3. storage' \in Bytes(Slot(type)) /\ \A i \in 1 .. type.size : storage'[i] = Value[i]
  BY <1>1, <1>2, StoredIsBytes DEF Move
<1>4. IInv'
  BY <1>3 DEF Move, IInv, TypeOK, Slot
<1>5. QED
  BY <1>2, <1>3, <1>4

(* clone() and the copy of a code of unknown type.                         *)
LEMMA CopyStores ==
  ASSUME IInv, NEW to \in Erased, (Clone /\ to = type) \/ CopyUnknown(to)
  PROVE  /\ IInv'
         /\ type' = to /\ kinds' = kinds \cup {to.kind, "unsigned"}
         /\ UNCHANGED <<littleEndian, domain, original, kept>>
         /\ \A i \in 1 .. domain.size : storage'[i] = storage[i]
         /\ \A i \in domain.size + 1 .. to.size : storage'[i] = 0
<1>1. /\ domain.size \in Nat \ {0} /\ to \in Typed \cup Erased
      /\ to.size \in Nat \ {0} /\ Slot(to) \in Nat /\ to.size <= Slot(to) /\ to.kind \in Kinds
  BY SlotHoldsValue, TypesAssumption DEF IInv, TypeOK
<1>2. domain.size <= Slot(to)
  BY <1>1 DEF IInv, Clone, CopyUnknown, Refused
<1>3. PICK blank \in Stored(to, Filled(to.size, 0)) : storage' = Memcpy(to, blank)
  BY DEF Clone, CopyUnknown
<1>4. Filled(to.size, 0) \in Bytes(to.size) /\ \A i \in 1 .. to.size : Filled(to.size, 0)[i] = 0
  <2>1. to.size \in Nat /\ 0 \in 0 .. Base - 1
    BY <1>1, BaseAssumption
  <2>2. Filled(to.size, 0) \in Bytes(to.size)
    BY <2>1, FilledIsBytes
  <2>3. \A i \in 1 .. to.size : Filled(to.size, 0)[i] = 0
    BY DEF Filled
  <2>4. QED
    BY <2>2, <2>3
<1>5. blank \in Bytes(Slot(to)) /\ \A i \in 1 .. to.size : blank[i] = 0
  BY <1>1, <1>3, <1>4, StoredIsBytes
<1>6. /\ storage' \in Bytes(Slot(to))
      /\ \A i \in 1 .. Slot(to) :
           storage'[i] = IF i <= domain.size THEN storage[i] ELSE blank[i]
  BY <1>1, <1>2, <1>3, <1>5, MemcpyIsBytes
<1>7. /\ type' = to /\ kinds' = kinds \cup {to.kind, "unsigned"}
      /\ UNCHANGED <<littleEndian, domain, original, kept>>
  BY DEF Clone, CopyUnknown, IInv, TypeOK
<1>8. IInv'
  BY <1>1, <1>2, <1>6, <1>7 DEF IInv, TypeOK, Slot, Kinds
<1>9. QED
  BY <1>1, <1>2, <1>5, <1>6, <1>7, <1>8

LEMMA InitEstablishes == Init => IInv /\ DomainReadsItsValue
<1> SUFFICES ASSUME Init PROVE IInv /\ DomainReadsItsValue
  OBVIOUS
<1>1. /\ domain \in Typed \cup Erased /\ domain.size \in Nat \ {0}
      /\ domain.size <= Slot(domain) /\ domain.kind \in Kinds
  BY SlotHoldsValue, TypesAssumption DEF Init
<1>2. storage \in Bytes(Slot(domain)) /\ \A i \in 1 .. domain.size : storage[i] = original[i]
  BY <1>1, StoredIsBytes DEF Init
<1>3. QED
  BY <1>1, <1>2 DEF Init, IInv, TypeOK, DomainReadsItsValue

LEMMA StepPreserves == IInv /\ [Next]_vars => IInv'
<1> SUFFICES ASSUME IInv, [Next]_vars PROVE IInv'
  OBVIOUS
<1>1. ASSUME NEW to \in Erased, Erase(to) PROVE IInv'
  BY <1>1, ConversionStores DEF Erase, ErasureIsSafe
<1>2. ASSUME Unerase PROVE IInv'
  BY <1>2, ConversionStores DEF Unerase, ErasureIsSafe
<1>3. ASSUME UNCHANGED vars PROVE IInv'
  BY <1>3 DEF vars, history, IInv, TypeOK, Slot
<1>4. QED
  BY <1>1, <1>2, <1>3, MoveStores, CopyStores DEF Next, Clone

(* The storage always has the size its type says, and the domain's value   *)
(* fits into the object.                                                   *)
THEOREM Invariance == Spec => []IInv
BY InitEstablishes, StepPreserves, PTL DEF Spec

THEOREM TypeCorrect == Spec => []TypeOK
<1>1. IInv => TypeOK
  BY DEF IInv
<1>2. QED
  BY <1>1, Invariance, PTL

(* Whatever the sizes of types are, padded or not, a byte of the value     *)
(* that every step had room for is read by the domain where it was made:   *)
(* a value is only ever cut off at its end, never moved or overwritten.    *)
THEOREM ValuesSurviveErasure == Spec => []DomainReadsItsValue
<1>1. ASSUME IInv, DomainReadsItsValue, [Next]_vars PROVE DomainReadsItsValue'
  <2> SUFFICES ASSUME NEW k \in kept' PROVE storage'[k] = original'[k]
    BY DEF DomainReadsItsValue
  <2>1. kept \subseteq 1 .. domain.size /\ \A i \in kept : storage[i] = original[i]
    BY <1>1 DEF IInv, TypeOK, DomainReadsItsValue
  <2>2. ASSUME NEW to \in Erased \cup {domain}, Slot(type) <= Slot(to), Converts(to)
        PROVE  storage'[k] = original'[k]
    <3>1. k \in kept /\ k \in 1 .. type.size /\ k \in 1 .. to.size /\ original' = original
      BY <2>2 DEF Converts
    <3>2. storage'[k] = storage[k]
      BY <1>1, <2>2, <3>1, ConversionStores
    <3>3. QED
      BY <2>1, <3>1, <3>2
  <2>3. ASSUME NEW to \in Erased, Erase(to) PROVE storage'[k] = original'[k]
    BY <2>2, <2>3 DEF Erase, ErasureIsSafe
  <2>4. CASE Unerase
    BY <2>2, <2>4 DEF Unerase, ErasureIsSafe
  <2>5. CASE Move
    <3>1. k \in kept /\ k \in 1 .. type.size /\ original' = original
      BY <2>5 DEF Move
    <3>2. QED
      BY <1>1, <2>1, <2>5, <3>1, MoveStores
  <2>6. ASSUME NEW to \in Erased, (Clone /\ to = type) \/ CopyUnknown(to)
        PROVE  storage'[k] = original'[k]
    BY <1>1, <2>1, <2>6, CopyStores
  <2>7. CASE UNCHANGED vars
    BY <2>1, <2>7 DEF vars, history
  <2>8. QED
    BY <1>1, <2>3, <2>4, <2>5, <2>6, <2>7 DEF Next, Clone
<1>2. QED
  BY <1>1, InitEstablishes, Invariance, PTL DEF Spec

-------------------------------------------------------------------------------
(* What a sequence of bytes is as a number.  Induction over sets, since a  *)
(* set of naturals has a least member.                                     *)
LEMMA SetInduction ==
  ASSUME NEW S, 0 \in S, \A n \in Nat : n \in S => n + 1 \in S
  PROVE  Nat \subseteq S
<1> DEFINE R == OpToRel(<, Nat)
           T == Nat \ S
<1> SUFFICES ASSUME T # {} PROVE FALSE
  OBVIOUS
<1>1. PICK x \in T : \A y \in T : ~(<<y, x>> \in R)
  BY NatLessThanWellFounded, WFMin
<1>2. x - 1 \in T /\ x \in Nat
  <2>1. x \in Nat /\ x # 0 /\ x \notin S
    OBVIOUS
  <2>2. x - 1 \in Nat /\ (x - 1) + 1 = x
    BY <2>1
  <2> QED
    BY <2>1, <2>2
<1>3. <<x - 1, x>> \in R
  BY <1>2 DEF OpToRel
<1> QED
  BY <1>1, <1>2, <1>3

(* Reading is the function that its recursive definition describes.        *)
ReadsFrom(f, d, sign, m) ==
  f = [n \in 0 .. m |-> IF n = 0 THEN sign ELSE Base * f[n - 1] + d[n]]

LEMMA ReadingExists ==
  ASSUME NEW d, NEW sign, NEW m \in Nat
  PROVE  \E f : ReadsFrom(f, d, sign, m)
<1> DEFINE S == {k \in Nat : \E f : ReadsFrom(f, d, sign, k)}
<1>1. 0 \in S
  <2>1. ReadsFrom([n \in 0 .. 0 |-> sign], d, sign, 0)
    BY DEF ReadsFrom
  <2> QED
    BY <2>1
<1>2. ASSUME NEW k \in Nat, k \in S PROVE k + 1 \in S
  <2>1. PICK f : ReadsFrom(f, d, sign, k)
    BY <1>2
  <2> DEFINE g == [n \in 0 .. k + 1 |-> IF n = k + 1 THEN Base * f[k] + d[k + 1] ELSE f[n]]
  <2>2. ASSUME NEW n \in 0 .. k + 1
        PROVE  g[n] = IF n = 0 THEN sign ELSE Base * g[n - 1] + d[n]
    <3>1. CASE n = 0
      BY <2>1, <3>1 DEF ReadsFrom
    <3>2. CASE n \in 1 .. k
      BY <2>1, <3>2 DEF ReadsFrom
    <3>3. CASE n = k + 1
      BY <3>3
    <3> QED
      BY <3>1, <3>2, <3>3
  <2>3. ReadsFrom(g, d, sign, k + 1)
    BY <2>2 DEF ReadsFrom
  <2> QED
    BY <2>3
<1> HIDE DEF S
<1>3. Nat \subseteq S
  BY <1>1, <1>2, SetInduction
<1> QED
  BY <1>3 DEF S

LEMMA ReadingReads ==
  ASSUME NEW d, NEW sign, Len(d) \in Nat
  PROVE  /\ Reading(d, sign)[0] = sign
         /\ \A n \in 1 .. Len(d) : Reading(d, sign)[n] = Base * Reading(d, sign)[n - 1] + d[n]
<1>1. ReadsFrom(Reading(d, sign), d, sign, Len(d))
  BY ReadingExists DEF Reading, ReadsFrom
<1> HIDE DEF Reading
<1> DEFINE f == Reading(d, sign)
<1>2. \A n \in 0 .. Len(d) : f[n] = IF n = 0 THEN sign ELSE Base * f[n - 1] + d[n]
  BY <1>1 DEF ReadsFrom
<1> QED
  BY <1>2

(* Leading digits that stand for nothing but the sign add nothing.         *)
LEMMA LeadingSigns ==
  ASSUME NEW d, NEW e, NEW sign, NEW digit, NEW m \in Nat, Len(d) \in Nat, Len(e) = m + Len(d),
         Base * sign + digit = sign,
         \A n \in 1 .. m : e[n] = digit,
         \A n \in 1 .. Len(d) : e[m + n] = d[n]
  PROVE  Reading(e, sign)[Len(e)] = Reading(d, sign)[Len(d)]
<1> DEFINE f == Reading(d, sign)
           g == Reading(e, sign)
<1>1. Len(e) \in Nat
  OBVIOUS
<1>2. f[0] = sign /\ \A n \in 1 .. Len(d) : f[n] = Base * f[n - 1] + d[n]
  BY ReadingReads
<1>3. g[0] = sign /\ \A n \in 1 .. m + Len(d) : g[n] = Base * g[n - 1] + e[n]
  BY <1>1, ReadingReads
<1> HIDE DEF f, g
<1>4. g[m] = sign
  <2> DEFINE S == {n \in Nat : n <= m => g[n] = sign}
  <2>1. 0 \in S
    BY <1>3
  <2>2. ASSUME NEW n \in Nat, n \in S, n + 1 <= m PROVE g[n + 1] = sign
    <3>1. g[n] = sign /\ e[n + 1] = digit
      BY <2>2
    <3>2. g[n + 1] = Base * g[n] + e[n + 1]
      <4>1. n + 1 \in 1 .. m + Len(d) /\ (n + 1) - 1 = n
        BY <2>2
      <4> QED
        BY <1>3, <4>1
    <3> QED
      BY <3>1, <3>2
  <2>3. \A n \in Nat : n \in S => n + 1 \in S
    BY <2>2
  <2> HIDE DEF S
  <2>4. Nat \subseteq S
    BY <2>1, <2>3, SetInduction
  <2> QED
    BY <2>4 DEF S
<1>5. g[m + Len(d)] = f[Len(d)]
  <2> DEFINE S == {n \in Nat : n <= Len(d) => g[m + n] = f[n]}
  <2>1. 0 \in S
    BY <1>2, <1>4
  <2>2. ASSUME NEW n \in Nat, n \in S, n + 1 <= Len(d) PROVE g[m + (n + 1)] = f[n + 1]
    <3>1. g[m + n] = f[n] /\ e[m + (n + 1)] = d[n + 1]
      BY <2>2
    <3>2. g[m + (n + 1)] = Base * g[m + n] + e[m + (n + 1)]
      <4>1. m + (n + 1) \in 1 .. m + Len(d) /\ (m + (n + 1)) - 1 = m + n
        BY <2>2
      <4> QED
        BY <1>3, <4>1
    <3>3. f[n + 1] = Base * f[n] + d[n + 1]
      <4>1. n + 1 \in 1 .. Len(d) /\ (n + 1) - 1 = n
        BY <2>2
      <4> QED
        BY <1>2, <4>1
    <3> QED
      BY <3>1, <3>2, <3>3
  <2>3. \A n \in Nat : n \in S => n + 1 \in S
    BY <2>2
  <2> HIDE DEF S
  <2>4. Nat \subseteq S
    BY <2>1, <2>3, SetInduction
  <2> QED
    BY <2>4 DEF S
<1> QED
  BY <1>5 DEF f, g

(* On a little endian machine a number grows by the digits of its sign.    *)
LEMMA DigitsFromTheLast ==
  ASSUME littleEndian, NEW n \in Nat, NEW b \in Bytes(n)
  PROVE  /\ Len(b) = n /\ Len(Digits(b)) = n
         /\ \A i \in 1 .. n : Digits(b)[i] = b[n - i + 1]
<1>1. b \in Seq(0 .. Base - 1) /\ Len(b) = n
  BY BytesAreSequences
<1>2. Digits(b) = [i \in 1 .. n |-> b[(n - i) + 1]]
  BY <1>1 DEF Digits, Reverse
<1>3. Digits(b) \in Bytes(n)
  BY <1>2 DEF Bytes
<1>4. Len(Digits(b)) = n
  BY <1>3, BytesAreSequences
<1> QED
  BY <1>1, <1>2, <1>4

LEMMA SignedDigits ==
  ASSUME littleEndian, NEW t, NEW u, NEW n \in Nat \ {0}, NEW m \in Nat,
         NEW b \in Bytes(n), NEW c \in Bytes(n + m),
         \A i \in 1 .. n : c[i] = b[i],
         \A i \in n + 1 .. n + m : c[i] = IF Negative(t, b) THEN Base - 1 ELSE 0,
         Negative(u, c) <=> Negative(t, b)
  PROVE  Number(u, c) = Number(t, b)
<1> DEFINE sign == IF Negative(t, b) THEN -1 ELSE 0
           digit == IF Negative(t, b) THEN Base - 1 ELSE 0
           d == Digits(b)
           e == Digits(c)
<1>1. n + m \in Nat /\ n \in Nat
  OBVIOUS
<1>2. /\ Len(b) = n /\ Len(d) = n /\ \A i \in 1 .. n : d[i] = b[n - i + 1]
      /\ Len(c) = n + m /\ Len(e) = n + m /\ \A i \in 1 .. n + m : e[i] = c[(n + m) - i + 1]
  BY <1>1, DigitsFromTheLast
<1>3. Base * sign + digit = sign
  BY BaseAssumption
<1>4. ASSUME NEW i \in 1 .. m PROVE e[i] = digit
  <2>1. (n + m) - i + 1 \in n + 1 .. n + m /\ i \in 1 .. n + m
    BY <1>4
  <2> QED
    BY <1>2, <2>1
<1>5. ASSUME NEW i \in 1 .. n PROVE e[m + i] = d[i]
  <2>1. m + i \in 1 .. n + m /\ (n + m) - (m + i) + 1 = n - i + 1 /\ n - i + 1 \in 1 .. n
    BY <1>5
  <2> QED
    BY <1>2, <2>1
<1>6. Number(t, b) = Reading(d, sign)[Len(d)] /\ Number(u, c) = Reading(e, sign)[Len(e)]
  BY <1>2 DEF Number
<1> HIDE DEF sign, digit, d, e
<1>7. Reading(e, sign)[Len(e)] = Reading(d, sign)[Len(d)]
  <2>1. Len(d) \in Nat /\ Len(e) = m + Len(d) /\ \A i \in 1 .. Len(d) : e[m + i] = d[i]
    BY <1>1, <1>2, <1>5
  <2> QED
    BY <1>3, <1>4, <2>1, LeadingSigns
<1> QED
  BY <1>6, <1>7

(* static_cast to a wider integer, through the old sign, keeps the number: *)
(* always, unless a negative number becomes an unsigned one.               *)
THEOREM WideningKeepsTheNumber ==
  ASSUME littleEndian, NEW to, NEW from, to.size \in Nat, from.size \in Nat \ {0},
         from.size < to.size, Integral(to), Integral(from), NEW b \in Bytes(from.size),
         Negative(from, b) => to.kind = "signed"
  PROVE  Number(to, Cast(to, from, b)) = Number(from, b)
<1> DEFINE c == Cast(to, from, b)
<1>1. /\ c \in Bytes(from.size + (to.size - from.size)) /\ to.size - from.size \in Nat
      /\ \A i \in 1 .. to.size : c[i] = IF i <= from.size THEN b[i] ELSE Padding(to, from, b)
  BY CastIsBytes
<1>2. /\ \A i \in 1 .. from.size : c[i] = b[i]
      /\ \A i \in from.size + 1 .. from.size + (to.size - from.size) :
           c[i] = IF Negative(from, b) THEN Base - 1 ELSE 0
  BY <1>1 DEF Padding
<1>3. Digits(c)[1] = c[to.size] /\ c[to.size] = IF Negative(from, b) THEN Base - 1 ELSE 0
  <2>1. c \in Bytes(to.size) /\ to.size \in 1 .. to.size
    BY <1>1
  <2>2. to.size \in from.size + 1 .. from.size + (to.size - from.size)
    OBVIOUS
  <2> HIDE DEF c
  <2>3. Digits(c)[1] = c[to.size - 1 + 1]
    BY <2>1, DigitsFromTheLast
  <2> QED
    BY <1>2, <2>2, <2>3
<1>4. Negative(to, c) <=> Negative(from, b)
  BY <1>3, BaseAssumption DEF Negative
<1> HIDE DEF c
<1>5. Number(to, c) = Number(from, b)
  BY <1>1, <1>2, <1>4, SignedDigits
<1> QED
  BY <1>5 DEF c

-------------------------------------------------------------------------------
(* The bytes after the domain's go on with the sign of its number.  The    *)
(* number alone would not be inductive: what a conversion adds depends on  *)
(* the last byte.                                                          *)
Sign == IF Negative(domain, original) THEN Base - 1 ELSE 0
PaddingFollows ==
  NumberIsSafe => \A i \in domain.size + 1 .. type.size : storage[i] = Sign

LEMMA TopBit ==
  ASSUME littleEndian, NEW t, NEW n \in Nat \ {0}, NEW b \in Bytes(n)
  PROVE  /\ b[n] \in 0 .. Base - 1 /\ Last(b) = b[n]
         /\ Negative(t, b) <=> t.kind = "signed" /\ b[n] >= Base \div 2
<1>1. b \in Seq(0 .. Base - 1) /\ Len(b) = n /\ Digits(b)[1] = b[n - 1 + 1]
  BY BytesAreSequences, DigitsFromTheLast
<1>2. b[n] \in 0 .. Base - 1
  BY DEF Bytes
<1>3. Digits(b)[1] = b[n] /\ Last(b) = b[n]
  BY <1>1 DEF Last
<1>4. QED
  BY <1>2, <1>3 DEF Negative

(* The erased number is negative when the code's is.                       *)
LEMMA SameSign ==
  ASSUME IInv, DomainReadsItsValue, PaddingFollows, NumberIsSafe, domain.size <= type.size
  PROVE  Negative(type, Value) <=> Negative(domain, original)
<1>1. /\ domain.size \in Nat \ {0} /\ type.size \in Nat \ {0}
      /\ original \in Bytes(domain.size) /\ type.kind \in kinds
  BY SlotHoldsValue DEF IInv, TypeOK
<1>2. Value \in Bytes(type.size) /\ Value[type.size] = storage[type.size]
  BY <1>1, ValueIsBytes
<1>3. /\ original[domain.size] \in 0 .. Base - 1 /\ Last(original) = original[domain.size]
      /\ Negative(domain, original) <=> domain.kind = "signed" /\ original[domain.size] >= Base \div 2
      /\ Negative(type, Value) <=> type.kind = "signed" /\ storage[type.size] >= Base \div 2
  BY <1>1, <1>2, TopBit DEF NumberIsSafe
<1>4. Last(original) < Base \div 2 \/ type.kind = domain.kind
  BY <1>1 DEF NumberIsSafe
<1>5. CASE type.size = domain.size
  <2>1. storage[type.size] = original[domain.size]
    BY <1>1, <1>5 DEF NumberIsSafe, DomainReadsItsValue
  <2>2. QED
    BY <1>3, <1>4, <2>1, BaseAssumption
<1>6. CASE type.size > domain.size
  <2>1. storage[type.size] = IF Negative(domain, original) THEN Base - 1 ELSE 0
    BY <1>1, <1>6 DEF PaddingFollows, Sign
  <2>2. QED
    BY <1>3, <1>4, <2>1, BaseAssumption
<1>7. QED
  BY <1>1, <1>5, <1>6

(* What a conversion adds is the sign.                                     *)
LEMMA ConversionFollows ==
  ASSUME IInv, DomainReadsItsValue, PaddingFollows, NEW to \in Erased \cup {domain},
         Converts(to), NumberIsSafe'
  PROVE  /\ NumberIsSafe /\ domain.size <= type.size
         /\ Padding(to, type, Value) = Sign
<1>1. domain.size \in Nat \ {0} /\ type.size \in Nat \ {0} /\ kept \subseteq 1 .. domain.size
  BY SlotHoldsValue DEF IInv, TypeOK
<1>2. /\ kept' = kept \cap (1 .. type.size) \cap (1 .. to.size)
      /\ kinds' = kinds \cup {to.kind}
      /\ UNCHANGED <<littleEndian, domain, original>>
  BY DEF Converts
<1>3. kept' = 1 .. domain.size
  BY <1>2 DEF NumberIsSafe
<1>4. domain.size \in 1 .. type.size /\ kept = 1 .. domain.size
  <2>1. kept' \subseteq kept /\ kept' \subseteq 1 .. type.size
    BY <1>2
  <2>2. domain.size \in 1 .. domain.size
    BY <1>1
  <2>3. QED
    BY <1>1, <1>3, <2>1, <2>2
<1>5. /\ {domain.kind, type.kind} \subseteq kinds
      /\ Last(original) < Base \div 2 \/ (kinds = {domain.kind} /\ to.kind = domain.kind)
  BY <1>2 DEF IInv, TypeOK, NumberIsSafe
<1>6. NumberIsSafe /\ domain.size <= type.size /\ littleEndian
  BY <1>1, <1>2, <1>4, <1>5 DEF NumberIsSafe
<1>7. Negative(type, Value) <=> Negative(domain, original)
  BY <1>6, SameSign
<1>8. Negative(domain, original) => Integral(type) /\ Integral(to)
  <2>1. original \in Bytes(domain.size)
    BY DEF IInv, TypeOK
  <2>2. /\ original[domain.size] \in 0 .. Base - 1 /\ Last(original) = original[domain.size]
        /\ Negative(domain, original) <=> domain.kind = "signed" /\ original[domain.size] >= Base \div 2
    BY <1>1, <1>6, <2>1, TopBit
  <2>3. Negative(domain, original) => domain.kind = "signed" /\ ~(Last(original) < Base \div 2)
    BY <2>2, BaseAssumption
  <2>4. QED
    BY <1>5, <2>3 DEF Integral
<1>9. QED
  BY <1>6, <1>7, <1>8 DEF Padding, Sign

LEMMA PaddingPreserved ==
  ASSUME IInv, DomainReadsItsValue, PaddingFollows, [Next]_vars
  PROVE  PaddingFollows'
<1> SUFFICES ASSUME NumberIsSafe', NEW i \in domain'.size + 1 .. type'.size
             PROVE  storage'[i] = Sign'
  BY DEF PaddingFollows
<1>1. /\ domain.size \in Nat \ {0} /\ type.size \in Nat \ {0}
      /\ kept \subseteq 1 .. domain.size /\ original \in Bytes(domain.size)
  BY SlotHoldsValue DEF IInv, TypeOK
<1>2. NumberIsSafe => \A k \in domain.size + 1 .. type.size : storage[k] = Sign
  BY DEF PaddingFollows
<1>3. ASSUME NEW to \in Erased \cup {domain}, Slot(type) <= Slot(to), Converts(to)
      PROVE  storage'[i] = Sign'
  <2>1. Sign' = Sign /\ to.size \in Nat /\ i \in domain.size + 1 .. to.size
    BY <1>3, SlotHoldsValue DEF Converts, Sign, Negative, Digits, IInv, TypeOK
  <2>2. NumberIsSafe /\ domain.size <= type.size /\ Padding(to, type, Value) = Sign
    BY <1>3, ConversionFollows
  <2>3. storage'[i] = IF i <= type.size THEN storage[i] ELSE Padding(to, type, Value)
    BY <1>1, <1>3, <2>1, ConversionStores
  <2>4. QED
    BY <1>1, <1>2, <2>1, <2>2, <2>3
<1>4. ASSUME NEW to \in Erased, Erase(to) PROVE storage'[i] = Sign'
  BY <1>3, <1>4 DEF Erase, ErasureIsSafe
<1>5. CASE Unerase
  BY <1>3, <1>5 DEF Unerase, ErasureIsSafe
<1>6. CASE Move
  <2>1. /\ kept' = kept \cap (1 .. type.size)
        /\ UNCHANGED <<littleEndian, domain, original, type, kinds>>
    BY <1>6 DEF Move
  <2>2. Sign' = Sign /\ i \in domain.size + 1 .. type.size
    BY <2>1 DEF Sign, Negative, Digits
  <2>3. NumberIsSafe
    <3>1. kept' = 1 .. domain.size
      BY <2>1 DEF NumberIsSafe
    <3>2. kept = 1 .. domain.size
      BY <1>1, <2>1, <3>1
    <3>3. QED
      BY <2>1, <3>2 DEF NumberIsSafe
  <2>4. QED
    BY <1>1, <1>2, <1>6, <2>2, <2>3, MoveStores
<1>7. ASSUME NEW to \in Erased, (Clone /\ to = type) \/ CopyUnknown(to) PROVE storage'[i] = Sign'
  <2>1. /\ type' = to /\ kinds' = kinds \cup {to.kind, "unsigned"}
        /\ UNCHANGED <<littleEndian, domain, original, kept>>
        /\ \A k \in domain.size + 1 .. to.size : storage'[k] = 0
    BY <1>7, CopyStores
  <2>2. Last(original) < Base \div 2 \/ domain.kind = "unsigned"
    BY <2>1 DEF NumberIsSafe
  <2>3. /\ original[domain.size] \in 0 .. Base - 1 /\ Last(original) = original[domain.size]
        /\ Negative(domain, original) <=> domain.kind = "signed" /\ original[domain.size] >= Base \div 2
    BY <1>1, <2>1, TopBit DEF NumberIsSafe
  <2>4. ~Negative(domain, original)
    BY <2>2, <2>3, BaseAssumption
  <2>5. Sign' = 0
    BY <2>1, <2>4 DEF Sign, Negative, Digits
  <2>6. QED
    BY <2>1, <2>5
<1>8. CASE UNCHANGED vars
  <2>1. /\ UNCHANGED <<littleEndian, domain, original, type, storage, kept, kinds>>
    BY <1>8 DEF vars, history
  <2>2. NumberIsSafe /\ Sign' = Sign
    BY <2>1 DEF NumberIsSafe, Sign, Negative, Digits
  <2>3. QED
    BY <1>2, <2>1, <2>2
<1>9. QED
  BY <1>4, <1>5, <1>6, <1>7, <1>8 DEF Next, Clone, IInv, TypeOK

(* On little endian machines an erased integer shows the number the code   *)
(* was made with, for every size of bytes, integers and pointers, as long  *)
(* as nothing was cut off and its sign was not lost: the padding that a    *)
(* conversion adds, and that a clone leaves blank, is the sign.            *)
THEOREM ErasedNumbersAreTheCodes == Spec => []ErasedNumberIsTheCode
<1>1. Init => PaddingFollows
  BY SlotHoldsValue DEF Init, PaddingFollows
<1>2. IInv /\ DomainReadsItsValue /\ PaddingFollows /\ [Next]_vars => PaddingFollows'
  BY PaddingPreserved
<1>3. ASSUME IInv, DomainReadsItsValue, PaddingFollows PROVE ErasedNumberIsTheCode
  <2> SUFFICES ASSUME NumberIsSafe, domain.size <= type.size
               PROVE  Number(type, Value) = Number(domain, original)
    BY DEF ErasedNumberIsTheCode
  <2>1. /\ domain.size \in Nat \ {0} /\ type.size \in Nat \ {0}
        /\ original \in Bytes(domain.size)
    BY <1>3, SlotHoldsValue DEF IInv, TypeOK
  <2>2. Value \in Bytes(type.size) /\ \A i \in 1 .. type.size : Value[i] = storage[i]
    BY <1>3, ValueIsBytes
  <2>3. Negative(type, Value) <=> Negative(domain, original)
    BY <1>3, SameSign
  <2> DEFINE m == type.size - domain.size
  <2>4. m \in Nat /\ domain.size + m = type.size
    BY <2>1
  <2>5. \A i \in 1 .. domain.size : Value[i] = original[i]
    BY <1>3, <2>1, <2>2 DEF NumberIsSafe, DomainReadsItsValue
  <2>6. \A i \in domain.size + 1 .. domain.size + m :
          Value[i] = IF Negative(domain, original) THEN Base - 1 ELSE 0
    BY <1>3, <2>1, <2>2, <2>4 DEF PaddingFollows, Sign
  <2>7. littleEndian
    BY DEF NumberIsSafe
  <2> HIDE DEF m
  <2>8. QED
    BY <2>1, <2>2, <2>3, <2>4, <2>5, <2>6, <2>7, SignedDigits
<1>4. QED
  BY <1>1, <1>2, <1>3, InitEstablishes, Invariance, ValuesSurviveErasure, PTL DEF Spec

(* The value a cast to a larger type makes is cast back to the one it was  *)
(* made from, on machines of either byte order and between any kinds.      *)
THEOREM CastingBackIsIdentity ==
  ASSUME NEW to, NEW from, to.size \in Nat \ {0}, from.size \in Nat \ {0}, from.size <= to.size,
         NEW b \in Bytes(from.size)
  PROVE  Cast(from, to, Cast(to, from, b)) = b
<1> DEFINE c == Cast(to, from, b)
           d == Cast(from, to, c)
<1>1. c \in Bytes(to.size) /\ \A i \in 1 .. from.size : c[i] = b[i]
  BY CastIsBytes
<1> HIDE DEF c
<1>2. d \in Bytes(from.size) /\ \A i \in 1 .. from.size : d[i] = c[i]
  BY <1>1, CastIsBytes
<1> HIDE DEF d
<1>3. d = b
  BY <1>1, <1>2 DEF Bytes
<1>4. QED
  BY <1>3 DEF c, d
===============================================================================
