------------------------- MODULE ThrownExceptionProofs -------------------------
(***************************************************************************)
(* Proofs about ThrownException for any number of threads and slots.       *)
(***************************************************************************)
EXTENDS ThrownException, TLAPS

Stored == 0 .. idx - 1  \* the exceptions added so far

(* A slot is used once: slot s is for exception s.                         *)
SlotsInOrder ==
  /\ idx \in 0 .. MaxItems
  /\ items = [s \in Objects |-> IF s < idx THEN s ELSE None]
  /\ classOf \in [Objects -> Thrown \cup {"none"}]

(* Every index and every text the program has came from add().             *)
KnownAreStored ==
  /\ codes \subseteq {<<i, i>> : i \in Stored}
  /\ texts \subseteq Stored

(* What a thread copied is the exception its code means, or none.          *)
CopiesAreMeant ==
  /\ using \in [Threads -> {Idle} \cup
                  [op : Ops, index : Stored, e : Stored \cup {None}]]
  /\ \A t \in Threads : using[t] # Idle => using[t].e \in {using[t].index, None}

(* Nothing but the oldest exception expires, and that when there is no     *)
(* free slot; a verdict is about the exception its index means.            *)
Full == idx = MaxItems
Meant == {<<i, ToGenericCode(i)>> : i \in Stored}
OldestExpires ==
  /\ end \in {"overrun", "null rethrown"} => Full
  /\ \A t \in Threads : using[t] # Idle /\ using[t].e = None => using[t].index = 0 /\ Full
  /\ verdicts \subseteq Meant \cup IF Full THEN {<<0, "unknown">>} ELSE {}

IInv == SlotsInOrder /\ KnownAreStored /\ CopiesAreMeant /\ OldestExpires

-------------------------------------------------------------------------------
(* No index below the number of slots wraps around.                        *)
LEMMA NoWrap ==
  ASSUME NEW i \in Objects PROVE i % MaxItems = i
BY ItemsAssumption DEF Objects

LEMMA NoneIsNotStored == SlotsInOrder => None \notin Stored
BY ItemsAssumption DEF SlotsInOrder, Stored, None

(* A lookup finds the exception meant, but for the oldest of a full array. *)
LEMMA LookupFinds ==
  ASSUME SlotsInOrder, NEW i \in Stored
  PROVE  /\ Lookup(i) = IF idx - i = MaxItems THEN None ELSE i
         /\ idx - i = MaxItems => i = 0 /\ Full
<1>1. i \in Objects /\ i < idx /\ idx \in 0 .. MaxItems
  BY ItemsAssumption DEF SlotsInOrder, Stored, Objects
<1>2. items[i % MaxItems] = i
  BY <1>1, NoWrap DEF SlotsInOrder
<1>3. /\ idx - i < MaxItems <=> idx - i # MaxItems
      /\ idx - i = MaxItems => i = 0 /\ idx = MaxItems
  BY <1>1, ItemsAssumption DEF Objects
<1>4. QED
  BY <1>2, <1>3 DEF Lookup, Full

(* Verdicts keep their meaning when no class changes and nothing is        *)
(* forgotten.                                                              *)
LEMMA MeantStays ==
  ASSUME Stored \subseteq Stored', \A i \in Stored : ToGenericCode(i)' = ToGenericCode(i)
  PROVE  Meant \subseteq Meant'
BY DEF Meant

(* The class of an exception is what it is reported as, and it is set once.*)
LEMMA CodeOfSameClass ==
  ASSUME NEW e, e # None => classOf'[e] = classOf[e]
  PROVE  ToGenericCode(e)' = ToGenericCode(e)
BY DEF ToGenericCode

LEMMA AddPreserves ==
  ASSUME IInv, NEW t \in Threads, NEW class \in Thrown, Add(t, class)
  PROVE  IInv'
<1> USE ItemsAssumption DEF Add, Idling
<1>1. CASE idx < MaxItems
  <2>1. idx \in Objects /\ idx' = idx + 1 /\ Stored \subseteq Stored' /\ idx \in Stored'
    BY <1>1 DEF IInv, SlotsInOrder, Objects, Stored
  <2>2. SlotsInOrder'
    BY <1>1, <2>1 DEF IInv, SlotsInOrder, Objects
  <2>3. KnownAreStored'
    BY <1>1, <2>1 DEF IInv, KnownAreStored
  <2>4. CopiesAreMeant'
    BY <1>1, <2>1 DEF IInv, CopiesAreMeant
  <2>5. OldestExpires'
    <3>1. ASSUME NEW i \in Stored PROVE ToGenericCode(i)' = ToGenericCode(i)
      <4>1. i # idx /\ i \in Objects
        BY <2>1 DEF IInv, SlotsInOrder, Stored, Objects
      <4>2. classOf'[i] = classOf[i]
        BY <1>1, <4>1 DEF IInv, SlotsInOrder
      <4>3. QED
        BY <4>2, CodeOfSameClass
    <3>2. Meant \subseteq Meant' /\ ~Full
      BY <1>1, <2>1, <3>1, MeantStays DEF IInv, SlotsInOrder, Full
    <3>3. QED
      BY <1>1, <3>2 DEF IInv, OldestExpires
  <2>6. QED
    BY <2>2, <2>3, <2>4, <2>5 DEF IInv
<1>2. CASE ~(idx < MaxItems)
  <2>1. Full /\ UNCHANGED <<items, classOf, codes, idx, using, texts, verdicts>>
    BY <1>2 DEF IInv, SlotsInOrder, Full
  <2>2. Meant' = Meant /\ Stored' = Stored /\ Full'
    BY <2>1 DEF Meant, ToGenericCode, Stored, Full
  <2>3. SlotsInOrder' /\ KnownAreStored' /\ CopiesAreMeant'
    BY <2>1, <2>2 DEF IInv, SlotsInOrder, KnownAreStored, CopiesAreMeant
  <2>4. OldestExpires'
    BY <2>1, <2>2 DEF IInv, OldestExpires
  <2>5. QED
    BY <2>3, <2>4 DEF IInv
<1>3. QED
  BY <1>1, <1>2

LEMMA FetchPreserves ==
  ASSUME IInv, NEW t \in Threads, NEW op \in Ops, NEW i \in 0 .. MaxItems, Fetch(t, op, i)
  PROVE  IInv'
<1> USE DEF Fetch, Idling
<1>1. i \in Stored
  BY DEF IInv, KnownAreStored
<1>2. Lookup(i) \in {i, None} /\ (Lookup(i) = None => i = 0 /\ Full)
  BY <1>1, LookupFinds, NoneIsNotStored DEF IInv
<1>3. SlotsInOrder' /\ KnownAreStored'
  BY DEF IInv, SlotsInOrder, KnownAreStored, Stored
<1>4. CopiesAreMeant'
  BY <1>1, <1>2 DEF IInv, CopiesAreMeant, Stored
<1>5. OldestExpires'
  <2>1. Meant' = Meant /\ Full' = Full /\ UNCHANGED <<end, verdicts>>
    BY DEF Meant, ToGenericCode, Stored, Full
  <2>2. ASSUME NEW s \in Threads, using'[s] # Idle /\ using'[s].e = None
        PROVE  using'[s].index = 0 /\ Full
    BY <1>2, <2>2 DEF IInv, CopiesAreMeant, OldestExpires
  <2>3. QED
    BY <2>1, <2>2 DEF IInv, OldestExpires
<1>6. QED
  BY <1>3, <1>4, <1>5 DEF IInv

LEMMA ComparePreserves ==
  ASSUME IInv, NEW t \in Threads, Compare(t)
  PROVE  IInv'
<1> USE DEF Compare, Doing, Finish
<1>1. using[t].index \in Stored
  BY DEF IInv, CopiesAreMeant, Idle
<1>2. SlotsInOrder' /\ KnownAreStored'
  BY DEF IInv, SlotsInOrder, KnownAreStored, Stored
<1>3. CopiesAreMeant'
  BY DEF IInv, CopiesAreMeant, Stored
<1>4. OldestExpires'
  <2>1. Meant' = Meant /\ Full' = Full /\ UNCHANGED end
    BY DEF Meant, ToGenericCode, Stored, Full
  <2>2. CASE using[t].e = None
    BY <2>1, <2>2 DEF IInv, CopiesAreMeant, OldestExpires, ToGenericCode
  <2>3. CASE using[t].e # None
    <3>1. using[t].e = using[t].index
      BY <2>3 DEF IInv, CopiesAreMeant, Idle
    <3>2. <<using[t].index, ToGenericCode(using[t].e)>> \in Meant
      BY <1>1, <3>1 DEF Meant
    <3>3. QED
      BY <2>1, <3>2 DEF IInv, CopiesAreMeant, OldestExpires
  <2>4. QED
    BY <2>2, <2>3
<1>5. QED
  BY <1>2, <1>3, <1>4 DEF IInv

LEMMA MessagePreserves ==
  ASSUME IInv, NEW t \in Threads, Message(t)
  PROVE  IInv'
<1> USE DEF Message, Doing, Finish
<1>1. using[t].e \in Stored \cup {None}
  BY DEF IInv, CopiesAreMeant, Idle
<1>2. SlotsInOrder' /\ KnownAreStored'
  BY <1>1 DEF IInv, SlotsInOrder, KnownAreStored, Stored
<1>3. CopiesAreMeant'
  BY DEF IInv, CopiesAreMeant, Stored
<1>4. OldestExpires'
  <2>1. Meant' = Meant /\ Full' = Full /\ UNCHANGED verdicts
    BY DEF Meant, ToGenericCode, Stored, Full
  <2>2. QED
    BY <2>1 DEF IInv, CopiesAreMeant, OldestExpires
<1>5. QED
  BY <1>2, <1>3, <1>4 DEF IInv

LEMMA ThrowExceptionPreserves ==
  ASSUME IInv, NEW t \in Threads, ThrowException(t)
  PROVE  IInv'
<1> USE DEF ThrowException, Doing, Finish
<1>1. using[t].e = None => Full
  BY DEF IInv, OldestExpires
<1>2. SlotsInOrder' /\ KnownAreStored'
  BY DEF IInv, SlotsInOrder, KnownAreStored, Stored
<1>3. CopiesAreMeant'
  BY DEF IInv, CopiesAreMeant, Stored
<1>4. OldestExpires'
  <2>1. Meant' = Meant /\ Full' = Full /\ UNCHANGED verdicts
    BY DEF Meant, ToGenericCode, Stored, Full
  <2>2. QED
    BY <1>1, <2>1 DEF IInv, CopiesAreMeant, OldestExpires
<1>5. QED
  BY <1>2, <1>3, <1>4 DEF IInv

LEMMA InitEstablishes == Init => IInv
BY ItemsAssumption DEF Init, IInv, SlotsInOrder, KnownAreStored, CopiesAreMeant,
   OldestExpires, Objects, Stored, Meant, Full

LEMMA StutterPreserves == IInv /\ UNCHANGED vars => IInv'
<1> SUFFICES ASSUME IInv, UNCHANGED vars PROVE IInv'
  OBVIOUS
<1>1. Meant' = Meant /\ Full' = Full /\ Stored' = Stored
  BY DEF vars, Meant, ToGenericCode, Stored, Full
<1>2. SlotsInOrder' /\ KnownAreStored' /\ CopiesAreMeant'
  BY <1>1 DEF vars, IInv, SlotsInOrder, KnownAreStored, CopiesAreMeant
<1>3. OldestExpires'
  BY <1>1 DEF vars, IInv, OldestExpires
<1>4. QED
  BY <1>2, <1>3 DEF IInv

(* The invariant holds however many threads store and use exceptions.      *)
THEOREM Invariance == Spec => []IInv
<1>1. IInv /\ [Next]_vars => IInv'
  BY AddPreserves, FetchPreserves, ComparePreserves, MessagePreserves,
     ThrowExceptionPreserves, StutterPreserves DEF Next
<1>2. QED
  BY <1>1, InitEstablishes, PTL DEF Spec

(* The text of a message is never freed while somebody keeps it.           *)
THEOREM KeptTextsStayValid == Spec => []TextsStayValid
<1>1. IInv => TextsStayValid
  BY ItemsAssumption DEF IInv, SlotsInOrder, KnownAreStored, TextsStayValid, Lives, Stored,
     Objects
<1>2. QED
  BY <1>1, Invariance, PTL

(* A code never refers to the exception of another, and refers to its own  *)
(* but when it is the oldest of a full array.                              *)
THEOREM NoCodeIsMistaken == Spec => []CodesNameTheirException
<1>1. IInv => CodesNameTheirException
  BY LookupFinds DEF IInv, KnownAreStored, CodesNameTheirException
<1>2. QED
  BY <1>1, Invariance, PTL

(* The array is overrun, a null pointer rethrown or a comparison mistaken  *)
(* only when every slot is used, and the comparison only for the oldest.   *)
THEOREM NothingElseExpires == Spec => []OnlyTheOldestExpires
<1>1. IInv => OnlyTheOldestExpires
  <2> SUFFICES ASSUME IInv PROVE OnlyTheOldestExpires
    OBVIOUS
  <2>1. ASSUME NEW v \in verdicts, NEW code \in codes, v[1] = code[1]
        PROVE  \/ v[2] = ToGenericCode(code[2])
               \/ v = <<0, "unknown">> /\ idx = MaxItems
    <3>1. PICK i \in Stored : code = <<i, i>>
      BY DEF IInv, KnownAreStored
    <3>2. v \in Meant \/ (v = <<0, "unknown">> /\ Full)
      BY Zenon DEF IInv, OldestExpires
    <3>3. QED
      BY <2>1, <3>1, <3>2 DEF Meant, Full
  <2>2. QED
    BY <2>1 DEF IInv, OldestExpires, OnlyTheOldestExpires, Full
<1>2. QED
  BY <1>1, Invariance, PTL
===============================================================================
