-------------------------- MODULE SystemMessageProofs --------------------------
(***************************************************************************)
(* Proofs about SystemMessage for texts of any length.                     *)
(***************************************************************************)
EXTENDS SystemMessage, SequenceTheorems, FiniteSetTheorems, TLAPS

Buffered == WideSources \cup {"com_ansi"}  \* those that use a temporary buffer

(* What the text handed out must be.                                       *)
Whole(s) ==
  /\ IsPrefix(s, sys)
  /\ s # <<>>
  /\ LET tail == SubSeq(sys, Len(s) + 1, Len(sys)) IN
       /\ ToSet(tail) \subseteq {"eol"}
       /\ source \in Buffered => Last(s) # "eol"

Typed ==
  /\ source \in Sources
  /\ sys \in IF source \in WideSources THEN Texts \cup {<<>>} ELSE NarrowTexts
  /\ allocation \in Nat
  /\ buffer \in Nat
  /\ live \in Nat

(* Where each source's call can be, and that nothing but a text gets past  *)
(* the first step.                                                         *)
CallInv ==
  /\ pc \in {"fetch", "check", "done"}
       \cup IF source \in Buffered THEN {"allocate", "convert", "trim", "copy"} ELSE {}
  /\ pc \in {"allocate", "convert", "trim", "copy"} => sys # <<>>

(* The block the converter is given is of the size it is told, and the     *)
(* narrow text gets one of its size.                                       *)
Sized ==
  /\ pc = "convert" => buffer = allocation
  /\ source = "com_ansi" /\ pc \in {"allocate", "convert"} => allocation = Len(sys) + 1

(* From the trimming on the text is whole.                                 *)
TextReady ==
  /\ pc = "copy" => Whole(ret)
  /\ pc = "check" => ret = Fallback \/ Whole(ret)
  /\ outcome = "returned" => pc = "done" /\ (ret = Fallback \/ Whole(ret))

IInv == Typed /\ CallInv /\ BufferIsFreed /\ Sized /\ FitsTheBuffer /\ TextReady

-------------------------------------------------------------------------------
(* The lemmas about texts. *)
LEMMA TextsAreSequences ==
  ASSUME NEW s \in Texts \cup {<<>>}
  PROVE  s \in Seq(Units)
<1>1. CASE s \in Texts
  <2>1. PICK m \in 0 .. MaxLen : s \in [1 .. m -> Units]
    BY <1>1 DEF Texts, SeqOf
  <2>2. QED
    BY <2>1, SeqDef
<1>2. CASE s = <<>>
  BY <1>2, EmptySeq
<1>3. QED
  BY <1>1, <1>2

LEMMA AnyLineEnd ==
  ASSUME NEW s \in Texts
  PROVE  \E n \in DOMAIN s :
           s[n] # "eol" /\ \A i \in n + 1 .. Len(s) : s[i] = "eol"
<1> DEFINE T == {i \in DOMAIN s : s[i] # "eol"}
           R == OpToRel(<, Nat)
           D == {Len(s) - i : i \in T}
<1>1. s \in Seq(Units) /\ DOMAIN s = 1 .. Len(s) /\ Len(s) \in Nat
  BY TextsAreSequences, LenProperties
<1>2. D \subseteq Nat /\ D # {}
  BY <1>1 DEF Texts, ToSet
<1>3. PICK d \in D : \A e \in D : <<e, d>> \notin R
  <2> HIDE DEF D, R
  <2> QED
    BY <1>2, NatLessThanWellFounded, WFMin DEF R
<1>4. \A e \in D : ~(e < d)
  BY <1>2, <1>3 DEF OpToRel
<1>5. PICK n \in T : d = Len(s) - n
  BY <1>3
<1>6. \A i \in n + 1 .. Len(s) : i \notin T
  <2> SUFFICES ASSUME NEW i \in T, i > n PROVE FALSE
    BY <1>1, <1>5
  <2>1. Len(s) - i \in D /\ Len(s) - i < d
    BY <1>1, <1>5
  <2>2. QED
    BY <1>4, <2>1
<1>7. QED
  BY <1>1, <1>5, <1>6

LEMMA NarrowTextsAreCountedInBytes ==
  ASSUME NEW s \in NarrowTexts
  PROVE  Bytes(s) = Len(s) /\ s \in Texts /\ Len(s) \in Nat
<1>1. {i \in DOMAIN s : s[i] = "wide"} = {}
  BY DEF NarrowTexts, ToSet
<1>2. s \in Texts /\ Len(s) \in Nat
  BY TextsAreSequences, LenProperties DEF NarrowTexts
<1>3. Bytes(s) = Len(s) + (WideBytes - 1) * 0
  BY <1>1, FS_EmptySet DEF Bytes
<1>4. QED
  BY <1>2, <1>3, BoundsAssumption

LEMMA AllOfTheTextIsWhole ==
  ASSUME Typed, source \notin Buffered
  PROVE  Whole(sys)
<1>1. sys \in Texts /\ sys \in Seq(Units)
  BY NarrowTextsAreCountedInBytes, TextsAreSequences DEF Typed, Buffered
<1>2. sys # <<>>
  BY <1>1 DEF Texts, ToSet
<1>3. SubSeq(sys, Len(sys) + 1, Len(sys)) = <<>>
  BY <1>1, SubSeqEmpty, LenProperties
<1>4. ToSet(<<>>) = {}
  BY DEF ToSet
<1>5. IsPrefix(sys, sys)
  BY <1>1, LenProperties DEF IsPrefix
<1>6. QED
  BY <1>2, <1>3, <1>4, <1>5 DEF Whole

LEMMA TrimmedTextIsWhole ==
  ASSUME sys \in Texts, NEW n \in DOMAIN sys, sys[n] # "eol",
         \A i \in n + 1 .. Len(sys) : sys[i] = "eol"
  PROVE  Whole(SubSeq(sys, 1, n))
<1>1. sys \in Seq(Units) /\ Len(sys) \in Nat /\ n \in 1 .. Len(sys)
  BY TextsAreSequences, LenProperties
<1> DEFINE s == SubSeq(sys, 1, n)
<1>2. s \in Seq(Units) /\ Len(s) = n /\ \A i \in 1 .. n : s[i] = sys[i]
  BY <1>1, SubSeqProperties, ElementOfSeq
<1>3. IsPrefix(s, sys)
  BY <1>1, <1>2, SubSeqFull DEF IsPrefix
<1>4. s # <<>> /\ Last(s) # "eol"
  BY <1>1, <1>2, EmptySeq DEF Last
<1>5. ToSet(SubSeq(sys, n + 1, Len(sys))) \subseteq {"eol"}
  <2> DEFINE tail == SubSeq(sys, n + 1, Len(sys))
  <2>1. tail \in Seq({"eol"})
    BY <1>1, SubSeqProperties
  <2>2. QED
    BY <2>1, LenProperties, ElementOfSeq DEF ToSet
<1>6. QED
  BY <1>2, <1>3, <1>4, <1>5 DEF Whole

-------------------------------------------------------------------------------
(* One lemma per step of the conversion, then one per source.              *)
LEMMA BytesOfText ==
  ASSUME NEW s \in Texts
  PROVE  Len(s) \in Nat \ {0} /\ Len(s) \div 2 \in Nat
<1>1. s \in Seq(Units) /\ s # <<>>
  BY TextsAreSequences DEF Texts, ToSet
<1>2. Len(s) \in Nat \ {0}
  BY <1>1, EmptySeq
<1>3. QED
  BY <1>2

LEMMA GivesUp ==
  ASSUME IInv, NEW e, GiveUp(e), pc # "done", outcome' = outcome,
         UNCHANGED <<source, sys, allocation>>,
         live' = 0, buffer' \in Nat
  PROVE  IInv'
BY DEF GiveUp, Goto, IInv, Typed, CallInv, BufferIsFreed, Sized, FitsTheBuffer, MayWrite, TextReady,
   Buffered, WideSources

LEMMA AllocatePreserves ==
  ASSUME IInv, source \in Buffered, Allocate, UNCHANGED <<source, sys>>
  PROVE  IInv'
BY GivesUp DEF Allocate, Goto, IInv, Typed, CallInv, BufferIsFreed, Sized, FitsTheBuffer, MayWrite,
   TextReady, Buffered, WideSources

LEMMA TrimPreserves ==
  ASSUME IInv, source \in Buffered, Trim, UNCHANGED <<source, sys>>
  PROVE  IInv'
<1> USE DEF Trim, Goto
<1>1. sys \in Texts
  BY NarrowTextsAreCountedInBytes DEF IInv, Typed, CallInv
<1>2. Whole(ret')
  <2> DEFINE P(n) == sys[n] # "eol" /\ \A i \in n + 1 .. Len(sys) : sys[i] = "eol"
             c == CHOOSE n \in DOMAIN sys : P(n)
  <2>1. c \in DOMAIN sys /\ P(c)
    BY <1>1, AnyLineEnd
  <2>2. ret' = SubSeq(sys, 1, c)
    OBVIOUS
  <2>3. QED
    BY <1>1, <2>1, <2>2, TrimmedTextIsWhole
<1>3. Whole(ret)'
  BY <1>2 DEF Whole
<1>4. QED
  BY <1>3 DEF IInv, Typed, CallInv, BufferIsFreed, Sized, FitsTheBuffer, MayWrite, TextReady,
     Buffered, WideSources

LEMMA CopyPreserves ==
  ASSUME IInv, source \in Buffered, Copy, UNCHANGED <<source, sys>>
  PROVE  IInv'
<1>1. ret' = Fallback \/ Whole(ret)'
  BY DEF Copy, IInv, TextReady, Whole
<1>2. QED
  BY <1>1 DEF Copy, Free, Goto, IInv, Typed, CallInv, BufferIsFreed, Sized, FitsTheBuffer,
     MayWrite, TextReady, Buffered, WideSources

LEMMA WideTextPreserves ==
  ASSUME IInv, source \in WideSources, WideText, UNCHANGED <<source, sys>>
  PROVE  IInv'
<1> USE DEF Goto, Buffered, WideSources
<1>1. CASE Fetch
  <2>1. CASE sys = <<>>
    BY <1>1, <2>1, GivesUp DEF Fetch, IInv, Typed, CallInv, BufferIsFreed
  <2>2. CASE sys # <<>>
    <3>1. allocation' \in Nat
      BY <1>1, <2>2, BytesOfText DEF Fetch, IInv, Typed
    <3>2. QED
      BY <1>1, <2>2, <3>1 DEF Fetch, IInv, Typed, CallInv, BufferIsFreed, Sized,
         FitsTheBuffer, MayWrite, TextReady
  <2>3. QED
    BY <2>1, <2>2
<1>2. CASE Grow
  <2>1. allocation' \in Nat
    BY <1>2 DEF Grow, IInv, Typed
  <2>2. QED
    BY <1>2, <2>1 DEF Grow, Free, IInv, Typed, CallInv, BufferIsFreed, Sized, FitsTheBuffer,
       MayWrite, TextReady
<1>3. CASE ConvertFails
  BY <1>3, GivesUp DEF ConvertFails, Free, IInv, CallInv, BufferIsFreed
<1>4. CASE Convert
  BY <1>4 DEF Convert, Bytes, IInv, Typed, CallInv, BufferIsFreed, Sized, FitsTheBuffer, MayWrite,
     TextReady
<1>5. QED
  BY <1>1, <1>2, <1>3, <1>4, AllocatePreserves, TrimPreserves, CopyPreserves DEF WideText

LEMMA ComAnsiPreserves ==
  ASSUME IInv, ComAnsiMessage, UNCHANGED <<source, sys>>
  PROVE  IInv'
<1> USE DEF Goto, Buffered, WideSources
<1>1. sys \in NarrowTexts /\ source = "com_ansi"
  BY DEF ComAnsiMessage, IInv, Typed
<1>2. Bytes(sys) = Len(sys) /\ Len(sys) \in Nat /\ sys # <<>> /\ Bytes(sys)' = Bytes(sys)
  BY <1>1, NarrowTextsAreCountedInBytes, BytesOfText DEF Texts, ToSet, Bytes
<1>3. CASE /\ pc = "fetch"
           /\ allocation' = Len(sys) + 1
           /\ Goto("allocate")
           /\ UNCHANGED <<buffer, live, errcode, ret, outcome>>
  BY <1>1, <1>2, <1>3 DEF IInv, Typed, CallInv, BufferIsFreed, Sized, FitsTheBuffer, MayWrite,
     TextReady
<1>4. CASE /\ pc = "convert"
           /\ Goto("trim")
           /\ UNCHANGED <<allocation, buffer, live, errcode, ret, outcome>>
  BY <1>1, <1>2, <1>4 DEF IInv, Typed, CallInv, BufferIsFreed, Sized, FitsTheBuffer, MayWrite,
     TextReady
<1>5. QED
  BY <1>1, <1>3, <1>4, AllocatePreserves, TrimPreserves, CopyPreserves DEF ComAnsiMessage

LEMMA UnbufferedPreserves ==
  ASSUME IInv, PosixMessage \/ StdMessage, UNCHANGED <<source, sys>>
  PROVE  IInv'
<1>1. source \notin Buffered /\ pc = "fetch" /\ live = 0
  BY DEF PosixMessage, StdMessage, Buffered, WideSources, IInv, BufferIsFreed
<1>2. Whole(sys)
  BY <1>1, AllOfTheTextIsWhole DEF IInv
<1>3. ret' = Fallback \/ Whole(ret)'
  BY <1>2 DEF PosixMessage, StdMessage, GiveUp, Whole
<1>4. QED
  BY <1>1, <1>3 DEF PosixMessage, StdMessage, GiveUp, Goto, IInv, Typed, CallInv, BufferIsFreed,
     Sized, FitsTheBuffer, MayWrite, TextReady, Buffered, WideSources

LEMMA CheckThrowPreserves ==
  ASSUME IInv, CheckThrow, UNCHANGED <<source, sys>>
  PROVE  IInv'
<1>1. outcome' = "returned" => ret' = Fallback \/ Whole(ret)'
  BY DEF CheckThrow, IInv, TextReady, Whole
<1>2. QED
  BY <1>1 DEF CheckThrow, Goto, IInv, Typed, CallInv, BufferIsFreed, Sized, FitsTheBuffer, MayWrite,
     TextReady, Buffered, WideSources

LEMMA InitEstablishes == Init => IInv
BY DEF Init, IInv, Typed, CallInv, BufferIsFreed, Sized, FitsTheBuffer, MayWrite, TextReady, Sources

(* Every call of message(), for every text, keeps the invariant.           *)
THEOREM Invariance == Spec => []IInv
<1>1. IInv /\ [Next]_vars => IInv'
  <2> SUFFICES ASSUME IInv, [Next]_vars PROVE IInv'
    OBVIOUS
  <2>1. CASE UNCHANGED vars
    BY <2>1 DEF vars, IInv, Typed, CallInv, BufferIsFreed, Sized, FitsTheBuffer, MayWrite,
       TextReady, Whole, Bytes
  <2>2. CASE Next
    BY <2>2, WideTextPreserves, ComAnsiPreserves, UnbufferedPreserves, CheckThrowPreserves
    DEF Next, DoMessage, Win32Message, NtMessage, ComMessage, WideSources
  <2>3. QED
    BY <2>1, <2>2
<1>2. QED
  BY <1>1, InitEstablishes, PTL DEF Spec

(* No way out of the loop leaks the temporary buffer or frees it twice.    *)
THEOREM BufferAlwaysFreed == Spec => []BufferIsFreed
<1>1. IInv => BufferIsFreed
  BY DEF IInv
<1>2. QED
  BY <1>1, Invariance, PTL

(* The conversion of no text writes past the end of the block it is given, *)
(* in no round of the loop.                                                *)
THEOREM NoOverrun == Spec => []FitsTheBuffer
<1>1. IInv => FitsTheBuffer
  BY DEF IInv
<1>2. QED
  BY <1>1, Invariance, PTL

(* The reader gets the whole text, without its line end, or the fallback.  *)
THEOREM NoTextIsCut == Spec => []TextIsWhole
<1>1. IInv => TextIsWhole
  BY DEF IInv, TextReady, Whole, TextIsWhole, Buffered
<1>2. QED
  BY <1>1, Invariance, PTL

-------------------------------------------------------------------------------
(* The retries. *)
LEMMA BytesAreANumber ==
  ASSUME NEW s \in Texts
  PROVE  Bytes(s) \in Nat
<1>1. s \in Seq(Units) /\ DOMAIN s = 1 .. Len(s) /\ Len(s) \in Nat
  BY TextsAreSequences, LenProperties
<1> DEFINE wide == {i \in DOMAIN s : s[i] = "wide"}
<1>2. Cardinality(wide) \in Nat
  <2>1. IsFiniteSet(1 .. Len(s))
    BY <1>1, FS_Interval
  <2>2. QED
    BY <1>1, <2>1, FS_Subset, FS_CardinalityType
<1>3. Bytes(s) = Len(s) + (WideBytes - 1) * Cardinality(wide)
  BY DEF Bytes
<1> HIDE DEF wide
<1>4. WideBytes - 1 \in {1, 2}
  BY BoundsAssumption
<1>5. QED
  BY <1>1, <1>2, <1>3, <1>4

FirstSize == Len(sys) + Len(sys) \div 2
Trying == source \in WideSources /\ pc \in {"allocate", "convert"}

(* The buffer never shrinks from the first one, and one of less than four  *)
(* bytes does not grow either.                                             *)
SizeInv ==
  Trying => allocation >= FirstSize /\ (FirstSize < 4 => allocation = FirstSize)

Retry == pc = "convert" /\ pc' = "allocate"
Rank == [fetch |-> 0, allocate |-> 1, convert |-> 2, trim |-> 3, copy |-> 4, check |-> 5, done |-> 6]

LEMMA TextIsTried ==
  ASSUME IInv, source \in WideSources, sys # <<>>
  PROVE  /\ sys \in Texts /\ Bytes(sys) \in Nat /\ allocation \in Nat
         /\ Len(sys) \in Nat \ {0} /\ FirstSize \in Nat \ {0}
BY BytesAreANumber, BytesOfText DEF IInv, Typed, FirstSize

LEMMA SizePreserved ==
  ASSUME IInv, SizeInv, [Next]_vars
  PROVE  SizeInv'
<1> SUFFICES ASSUME Trying' PROVE (allocation >= FirstSize /\ (FirstSize < 4 => allocation = FirstSize))'
  BY DEF SizeInv
<1>1. source \in WideSources /\ UNCHANGED <<source, sys>> /\ FirstSize' = FirstSize
  BY DEF Next, vars, Trying, FirstSize
<1>2. CASE UNCHANGED vars
  BY <1>1, <1>2 DEF vars, Trying, SizeInv
<1>3. CASE Next
  <2>1. Fetch \/ Allocate \/ Grow
    BY <1>1, <1>3 DEF Next, DoMessage, Win32Message, NtMessage, ComMessage, ComAnsiMessage,
       PosixMessage, StdMessage, CheckThrow, WideText, ConvertFails, Convert, Trim, Copy, GiveUp,
       Goto, Trying, WideSources
  <2>2. CASE Fetch
    <3>1. sys # <<>> /\ allocation' = FirstSize
      BY <2>2 DEF Fetch, GiveUp, Goto, Trying, FirstSize
    <3>2. QED
      BY <1>1, <3>1, TextIsTried
  <2>3. CASE Allocate
    BY <1>1, <2>3 DEF Allocate, SizeInv, Trying
  <2>4. CASE Grow
    <3>1. /\ allocation >= FirstSize /\ (FirstSize < 4 => allocation = FirstSize)
          /\ allocation' = allocation + allocation \div 4 /\ sys # <<>>
      BY <1>1, <2>4 DEF Grow, SizeInv, Trying, IInv, CallInv
    <3>2. allocation \in Nat /\ FirstSize \in Nat
      BY <1>1, <3>1, TextIsTried
    <3>3. QED
      BY <1>1, <3>1, <3>2
  <2>5. QED
    BY <2>1, <2>2, <2>3, <2>4
<1>4. QED
  BY <1>2, <1>3

LEMMA SizesAreRight == Spec => [](IInv /\ SizeInv)
<1>1. Init => SizeInv
  BY DEF Init, SizeInv, Trying
<1>2. QED
  BY <1>1, SizePreserved, Invariance, PTL DEF Spec

(* Every step of a call gets further, but for the retries; and a retry     *)
(* finds a larger buffer while the text does not fit, unless it NeverFits. *)
(* So a text is retried at most once for each of its bytes, and message()  *)
(* ends, whatever the lengths.                                             *)
StepsGetFurther ==
  \/ Rank[pc'] > Rank[pc]
  \/ Retry /\ (NeverFits \/ (allocation <= Bytes(sys) /\ allocation' > allocation))

(* The one loop of message() makes progress. *)
THEOREM EveryStepGetsFurther == Spec => [][StepsGetFurther]_vars
<1>1. ASSUME IInv, SizeInv, Next PROVE StepsGetFurther
  <2>1. CASE source \in WideSources /\ Grow
    <3>1. /\ Retry /\ Bytes(sys) + 1 > allocation /\ allocation' = allocation + allocation \div 4
          /\ allocation >= FirstSize /\ (FirstSize < 4 => allocation = FirstSize)
          /\ sys # <<>>
      BY <1>1, <2>1 DEF Grow, Goto, Retry, SizeInv, Trying, IInv, CallInv
    <3>2. allocation \in Nat /\ FirstSize \in Nat /\ Bytes(sys) \in Nat
      BY <1>1, <2>1, <3>1, TextIsTried
    <3>3. CASE FirstSize < 4
      BY <2>1, <3>1, <3>3 DEF StepsGetFurther, NeverFits, FirstSize
    <3>4. CASE FirstSize >= 4
      BY <3>1, <3>2, <3>4 DEF StepsGetFurther
    <3>5. QED
      BY <3>2, <3>3, <3>4
  <2>2. CASE ~(source \in WideSources /\ Grow)
    BY <1>1, <2>2 DEF Next, DoMessage, Win32Message, NtMessage, ComMessage, ComAnsiMessage,
       PosixMessage, StdMessage, CheckThrow, WideText, Fetch, Allocate, ConvertFails, Convert,
       Trim, Copy, GiveUp, Goto, WideSources, StepsGetFurther, Rank
  <2>3. QED
    BY <2>1, <2>2
<1>2. QED
  BY <1>1, SizesAreRight, PTL DEF Spec

(* The exception is exact: no retry ever makes the buffer of a text that   *)
(* NeverFits large enough.  message() does not return for such a text: it  *)
(* tries for ever, or an allocation or conversion fails and the noexcept   *)
(* function throws.                                                        *)
THEOREM WhatNeverFitsIsNotShown == Spec => [](NeverFits => pc # "trim" /\ outcome # "returned")
<1> DEFINE Unseen == NeverFits => /\ pc \notin {"trim", "copy"}
                                  /\ pc \in {"check", "done"} => errcode # "0"
                                  /\ outcome # "returned"
<1>1. Init => Unseen
  BY DEF Init
<1>2. IInv /\ SizeInv /\ Unseen /\ [Next]_vars => Unseen'
  <2> SUFFICES ASSUME IInv, SizeInv, Unseen, [Next]_vars, NeverFits' PROVE Unseen'
    BY DEF Unseen
  <2>1. NeverFits /\ UNCHANGED <<source, sys>>
    BY DEF Next, vars, NeverFits, Bytes
  <2>2. source \in WideSources /\ sys # <<>> /\ FirstSize < 4 /\ Bytes(sys) + 1 > FirstSize
    BY <2>1 DEF NeverFits, FirstSize
  <2>3. ~Convert
    <3>1. Convert => allocation = FirstSize /\ Bytes(sys) + 1 <= allocation
      BY <2>2 DEF Convert, SizeInv, Trying
    <3>2. Bytes(sys) \in Nat /\ FirstSize \in Nat
      BY <2>2, TextIsTried
    <3>3. QED
      BY <2>2, <3>1, <3>2
  <2>4. CASE UNCHANGED vars
    BY <2>1, <2>4 DEF vars
  <2>5. CASE Next
    BY <2>1, <2>2, <2>3, <2>5 DEF Next, DoMessage, Win32Message, NtMessage, ComMessage, ComAnsiMessage,
       PosixMessage, StdMessage, CheckThrow, WideText, Fetch, Allocate, Grow, ConvertFails, Convert,
       Trim, Copy, GiveUp, Goto, WideSources
  <2>6. QED
    BY <2>4, <2>5
<1>3. Unseen => (NeverFits => pc # "trim" /\ outcome # "returned")
  OBVIOUS
<1> HIDE DEF Unseen
<1>4. QED
  BY <1>1, <1>2, <1>3, SizesAreRight, PTL DEF Spec
===============================================================================
