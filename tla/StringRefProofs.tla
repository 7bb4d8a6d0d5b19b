--------------------------- MODULE StringRefProofs ---------------------------
(***************************************************************************)
(* Proofs about StringRef, and about the memory ordering that              *)
(* StringRefOrder adds, for any number of threads, objects and blocks.     *)
(***************************************************************************)
EXTENDS StringRefOrder, FiniteSetTheorems, TLAPS

(* TypeOK without its bound on the counts, which follows from CountIsExact.*)
Typed ==
  /\ ref \in [Refs -> RefValue]
  /\ text \in [Blocks -> Texts \cup {"free"}]
  /\ count \in [Blocks -> Nat]
  /\ op \in [Threads -> {Idle} \cup Operation]

(* What an operation in progress relies on between its steps.              *)
OperationInv ==
  \A t \in Threads : op[t] # Idle =>
    LET o == op[t] IN
      /\ o.stage = "acquire" =>
           /\ o.kind \in {"copy", "copyassign"}
           /\ o.src \in Refs \ {o.dst}
           /\ ref[o.dst] = ref[o.src]
           /\ Counted(ref[o.dst])
      /\ o.stage \in {"drop", "free"} => Counted(o.victim)
      /\ o.stage = "finish" => o.kind = "moveassign"
      /\ o.kind = "copy" => o.stage = "acquire" /\ o.victim = NullRef
      /\ o.kind = "moveassign" =>
           /\ o.stage # "acquire"
           /\ o.src \in Refs \ {o.dst}
           /\ ref[o.dst] = NullRef
           /\ Object(o.src)

(* Nobody uses an object another thread's operation writes.                *)
Exclusive ==
  \A t, u \in Threads : t # u =>
    \A r \in Refs : ~(r \in Used(op[t]) /\ r \in Written(op[u]))

Frees(t, b) == At(t, {"free"}) /\ op[t].victim.msg = b

(* A block holds a text while it is counted and until the one thread that  *)
(* found it uncounted has freed it.                                        *)
BlockInv ==
  \A b \in Blocks :
    /\ text[b] = "free" => count[b] = 0
    /\ text[b] # "free" /\ count[b] = 0 => \E t \in Threads : Frees(t, b)
    /\ \A t \in Threads : Frees(t, b) =>
         /\ text[b] # "free"
         /\ count[b] = 0
         /\ \A u \in Threads : Frees(u, b) => u = t

(* Counts alone are not inductive: that a new reference is not the first   *)
(* to a freed block needs its source to be still there, so nobody may      *)
(* write it meanwhile.                                                     *)
IInv == Typed /\ OperationInv /\ Exclusive /\ CountIsExact /\ BlockInv

-------------------------------------------------------------------------------
(* The lemmas about counting: who holds a block is finite, one holder is   *)
(* enough for a positive count, and how the count follows the changes.     *)
LEMMA HoldersAreFinite == ASSUME NEW b PROVE IsFiniteSet(Holders(b))
<1>1. IsFiniteSet(Refs \cup Threads)
  BY FiniteAssumption, FS_Union
<1>2. Holders(b) \subseteq Refs \cup Threads
  BY DEF Holders
<1>3. QED
  BY <1>1, <1>2, FS_Subset

LEMMA HeldIsCounted ==
  ASSUME Typed, CountIsExact, NEW b \in Blocks, NEW x \in Holders(b)
  PROVE  count[b] > 0
<1>1. Cardinality(Holders(b)) # 0
  BY HoldersAreFinite, FS_EmptySet
<1>2. QED
  BY <1>1 DEF Typed, CountIsExact

LEMMA UncountedIsNotHeld ==
  ASSUME Typed, CountIsExact, NEW b \in Blocks, count[b] = 0
  PROVE  Holders(b) = {}
BY HoldersAreFinite, FS_EmptySet DEF Typed, CountIsExact

(* y takes over from x.                                                    *)
Swapped(b, x, y) == (Holders(b) \ {x}) \cup {y}

LEMMA SwapKeepsCount ==
  ASSUME NEW b, NEW x \in Holders(b), NEW y, y \notin Holders(b)
  PROVE  Cardinality(Swapped(b, x, y)) = Cardinality(Holders(b))
<1>1. IsFiniteSet(Holders(b) \ {x}) /\ Cardinality(Holders(b) \ {x}) = Cardinality(Holders(b)) - 1
  BY HoldersAreFinite, FS_RemoveElement
<1>2. Cardinality(Swapped(b, x, y)) = Cardinality(Holders(b) \ {x}) + 1
  BY <1>1, FS_AddElement DEF Swapped
<1>3. QED
  BY <1>1, <1>2, HoldersAreFinite, FS_CardinalityType

LEMMA OneMoreHolder ==
  ASSUME NEW b, NEW x, x \notin Holders(b), Holders(b)' = Holders(b) \cup {x}
  PROVE  Cardinality(Holders(b)') = Cardinality(Holders(b)) + 1
<1>1. Cardinality(Holders(b) \cup {x}) = Cardinality(Holders(b)) + 1
  BY HoldersAreFinite, FS_AddElement
<1>2. QED
  BY <1>1

LEMMA OneHolderLess ==
  ASSUME NEW b, NEW x \in Holders(b), Holders(b)' = Holders(b) \ {x}
  PROVE  Cardinality(Holders(b)') = Cardinality(Holders(b)) - 1
<1>1. Cardinality(Holders(b) \ {x}) = Cardinality(Holders(b)) - 1
  BY HoldersAreFinite, FS_RemoveElement
<1>2. QED
  BY <1>1

LEMMA CountsFollowHolders ==
  ASSUME CountIsExact, UNCHANGED count,
         \A b \in Blocks :
           \/ Holders(b)' = Holders(b)
           \/ \E x \in Holders(b) : \E y : y \notin Holders(b) /\ Holders(b)' = Swapped(b, x, y)
  PROVE  CountIsExact'
BY SwapKeepsCount DEF CountIsExact

(* The source of a copy whose block is not counted yet keeps it alive.     *)
LEMMA SourceOfCopyHolds ==
  ASSUME IInv, NEW t \in Threads, At(t, {"acquire"})
  PROVE  /\ op[t].src \in Holders(ref[op[t].dst].msg)
         /\ ref[op[t].dst].msg \in Blocks
BY NullAssumption DEF IInv, Typed, OperationInv, Exclusive, At, Holders, Pending, Used,
   Written, Idle, Operation,
   Counted, RefValue, Shared, Thunks, Absent, NullRef, Literal

-------------------------------------------------------------------------------
(* What the values of objects and operations are is used by every proof of *)
(* a step below.                                                           *)
USE DEF Thunks, RefValue, Shared, Absent, NullRef, Literal, Idle, Operation, Counted,
        Object

(* One lemma per action: the invariant, conjunct by conjunct, and who holds *)
(* each block after the step.                                              *)
LEMMA MakeStaticPreserves ==
  ASSUME IInv, NEW t \in Threads, NEW r \in Refs, MakeStatic(t, r)
  PROVE  IInv'
<1> USE NullAssumption, DisjointAssumption, TextsAssumption DEF MakeStatic, MayWrite
<1>1. Typed'
  BY DEF IInv, Typed, OperationInv
<1>2. OperationInv'
  BY DEF IInv, Typed, OperationInv, Exclusive, Used, Written
<1>3. Exclusive'
  BY DEF IInv, Typed, OperationInv, Exclusive, Used, Written
<1>4. ASSUME NEW b \in Blocks
      PROVE  Holders(b)' = Holders(b)
  <2> DEFINE H == Holders(b)
  <2>1. ASSUME NEW x \in Refs PROVE x \in Holders(b)' <=> x \in H
    BY <2>1 DEF IInv, Typed, OperationInv, Exclusive, Used, Written, Holders, Pending, At,
       Swapped
  <2>2. ASSUME NEW x \in Threads PROVE x \in Holders(b)' <=> x \in H
    BY <2>2 DEF IInv, Typed, OperationInv, Exclusive, Used, Written, Holders, Pending, At,
       Swapped
  <2>3. QED
    BY <2>1, <2>2 DEF Holders, Swapped, IInv, Typed
<1>5. CountIsExact'
  BY <1>4, CountsFollowHolders DEF IInv
<1>6. BlockInv'
  BY DEF IInv, Typed, BlockInv, Frees, At
<1>7. QED
  BY <1>1, <1>2, <1>3, <1>5, <1>6 DEF IInv

LEMMA MakeSharedPreserves ==
  ASSUME IInv, NEW t \in Threads, NEW r \in Refs, NEW k \in Thunks, NEW c \in Blocks,
         NEW m \in Texts, MakeShared(t, r, k, c, m)
  PROVE  IInv'
<1> USE NullAssumption, DisjointAssumption, TextsAssumption DEF MakeShared, MayWrite
<1>1. Typed'
  BY DEF IInv, Typed, OperationInv
<1>2. OperationInv'
  BY DEF IInv, Typed, OperationInv, Exclusive, Used, Written
<1>3. Exclusive'
  BY DEF IInv, Typed, OperationInv, Exclusive, Used, Written
<1>4. ASSUME NEW b \in Blocks
      PROVE  Holders(b)' = IF b = c THEN Holders(b) \cup {r} ELSE Holders(b)
  <2> DEFINE H == IF b = c THEN Holders(b) \cup {r} ELSE Holders(b)
  <2>1. ASSUME NEW x \in Refs PROVE x \in Holders(b)' <=> x \in H
    BY <2>1 DEF IInv, Typed, OperationInv, Exclusive, Used, Written, Holders, Pending, At,
       Swapped
  <2>2. ASSUME NEW x \in Threads PROVE x \in Holders(b)' <=> x \in H
    BY <2>2 DEF IInv, Typed, OperationInv, Exclusive, Used, Written, Holders, Pending, At,
       Swapped
  <2>3. QED
    BY <2>1, <2>2 DEF Holders, Swapped, IInv, Typed
<1>5. CountIsExact'
  <2>1. Holders(c) = {}
    BY UncountedIsNotHeld DEF IInv, Typed, BlockInv
  <2>2. Cardinality(Holders(c)') = 1
    <3>1. Holders(c)' = {r}
      BY <1>4, <2>1
    <3>2. Cardinality({r}) = 1
      BY FS_Singleton
    <3>3. QED
      BY ONLY <3>1, <3>2
  <2>3. QED
    BY <1>4, <2>2 DEF IInv, Typed, CountIsExact
<1>6. BlockInv'
  BY DEF IInv, Typed, BlockInv, Frees, At
<1>7. QED
  BY <1>1, <1>2, <1>3, <1>5, <1>6 DEF IInv

LEMMA CopyConstructPreserves ==
  ASSUME IInv, NEW t \in Threads, NEW r \in Refs, NEW s \in Refs, CopyConstruct(t, r, s)
  PROVE  IInv'
<1> USE NullAssumption, DisjointAssumption, TextsAssumption
    DEF CopyConstruct, Start, MayRead, MayWrite
<1>1. Typed'
  BY DEF IInv, Typed, OperationInv
<1>2. OperationInv'
  BY DEF IInv, Typed, OperationInv, Exclusive, Used, Written
<1>3. Exclusive'
  BY DEF IInv, Typed, OperationInv, Exclusive, Used, Written
<1>4. ASSUME NEW b \in Blocks
      PROVE  Holders(b)' = Holders(b)
  <2> DEFINE H == Holders(b)
  <2>1. ASSUME NEW x \in Refs PROVE x \in Holders(b)' <=> x \in H
    BY <2>1 DEF IInv, Typed, OperationInv, Exclusive, Used, Written, Holders, Pending, At,
       Swapped
  <2>2. ASSUME NEW x \in Threads PROVE x \in Holders(b)' <=> x \in H
    BY <2>2 DEF IInv, Typed, OperationInv, Exclusive, Used, Written, Holders, Pending, At,
       Swapped
  <2>3. QED
    BY <2>1, <2>2 DEF Holders, Swapped, IInv, Typed
<1>5. CountIsExact'
  BY <1>4, CountsFollowHolders DEF IInv
<1>6. BlockInv'
  BY DEF IInv, Typed, BlockInv, Frees, At
<1>7. QED
  BY <1>1, <1>2, <1>3, <1>5, <1>6 DEF IInv

LEMMA MoveConstructPreserves ==
  ASSUME IInv, NEW t \in Threads, NEW r \in Refs, NEW s \in Refs, MoveConstruct(t, r, s)
  PROVE  IInv'
<1> USE NullAssumption, DisjointAssumption, TextsAssumption DEF MoveConstruct, MayWrite
<1>1. Typed'
  BY DEF IInv, Typed, OperationInv
<1>2. OperationInv'
  BY DEF IInv, Typed, OperationInv, Exclusive, Used, Written
<1>3. Exclusive'
  BY DEF IInv, Typed, OperationInv, Exclusive, Used, Written
<1>4. ASSUME NEW b \in Blocks
      PROVE  Holders(b)' = IF ref[s].msg = b THEN Swapped(b, s, r) ELSE Holders(b)
  <2> DEFINE H == IF ref[s].msg = b THEN Swapped(b, s, r) ELSE Holders(b)
  <2>1. ASSUME NEW x \in Refs PROVE x \in Holders(b)' <=> x \in H
    BY <2>1 DEF IInv, Typed, OperationInv, Exclusive, Used, Written, Holders, Pending, At,
       Swapped
  <2>2. ASSUME NEW x \in Threads PROVE x \in Holders(b)' <=> x \in H
    BY <2>2 DEF IInv, Typed, OperationInv, Exclusive, Used, Written, Holders, Pending, At,
       Swapped
  <2>3. QED
    BY <2>1, <2>2 DEF Holders, Swapped, IInv, Typed
<1>5. CountIsExact'
  <2>1. ASSUME NEW b \in Blocks, ref[s].msg = b
        PROVE  s \in Holders(b) /\ r \notin Holders(b)
    BY <2>1 DEF IInv, Typed, OperationInv, Exclusive, Used, Written, Holders, Pending, At
  <2>2. QED
    BY <1>4, <2>1, CountsFollowHolders DEF IInv
<1>6. BlockInv'
  BY DEF IInv, Typed, BlockInv, Frees, At
<1>7. QED
  BY <1>1, <1>2, <1>3, <1>5, <1>6 DEF IInv

LEMMA CopyAssignPreserves ==
  ASSUME IInv, NEW t \in Threads, NEW r \in Refs, NEW s \in Refs, CopyAssign(t, r, s)
  PROVE  IInv'
<1> USE NullAssumption, DisjointAssumption, TextsAssumption
    DEF CopyAssign, Start, MayRead, MayWrite
<1>1. Typed'
  BY DEF IInv, Typed, OperationInv
<1>2. OperationInv'
  BY DEF IInv, Typed, OperationInv, Exclusive, Used, Written
<1>3. Exclusive'
  BY DEF IInv, Typed, OperationInv, Exclusive, Used, Written
<1>4. ASSUME NEW b \in Blocks
      PROVE  Holders(b)' = IF ref[r].msg = b THEN Swapped(b, r, t) ELSE Holders(b)
  <2> DEFINE H == IF ref[r].msg = b THEN Swapped(b, r, t) ELSE Holders(b)
  <2>1. ASSUME NEW x \in Refs PROVE x \in Holders(b)' <=> x \in H
    BY <2>1 DEF IInv, Typed, OperationInv, Exclusive, Used, Written, Holders, Pending, At,
       Swapped
  <2>2. ASSUME NEW x \in Threads PROVE x \in Holders(b)' <=> x \in H
    BY <2>2 DEF IInv, Typed, OperationInv, Exclusive, Used, Written, Holders, Pending, At,
       Swapped
  <2>3. QED
    BY <2>1, <2>2 DEF Holders, Swapped, IInv, Typed
<1>5. CountIsExact'
  <2>1. ASSUME NEW b \in Blocks, ref[r].msg = b
        PROVE  r \in Holders(b) /\ t \notin Holders(b)
    BY <2>1 DEF IInv, Typed, OperationInv, Exclusive, Used, Written, Holders, Pending, At
  <2>2. QED
    BY <1>4, <2>1, CountsFollowHolders DEF IInv
<1>6. BlockInv'
  BY DEF IInv, Typed, BlockInv, Frees, At
<1>7. QED
  BY <1>1, <1>2, <1>3, <1>5, <1>6 DEF IInv

LEMMA MoveAssignPreserves ==
  ASSUME IInv, NEW t \in Threads, NEW r \in Refs, NEW s \in Refs, MoveAssign(t, r, s)
  PROVE  IInv'
<1> USE NullAssumption, DisjointAssumption, TextsAssumption DEF MoveAssign, Start, MayWrite
<1>1. Typed'
  BY DEF IInv, Typed, OperationInv
<1>2. OperationInv'
  BY DEF IInv, Typed, OperationInv, Exclusive, Used, Written
<1>3. Exclusive'
  BY DEF IInv, Typed, OperationInv, Exclusive, Used, Written
<1>4. ASSUME NEW b \in Blocks
      PROVE  Holders(b)' = IF ref[r].msg = b THEN Swapped(b, r, t) ELSE Holders(b)
  <2> DEFINE H == IF ref[r].msg = b THEN Swapped(b, r, t) ELSE Holders(b)
  <2>1. ASSUME NEW x \in Refs PROVE x \in Holders(b)' <=> x \in H
    BY <2>1 DEF IInv, Typed, OperationInv, Exclusive, Used, Written, Holders, Pending, At,
       Swapped
  <2>2. ASSUME NEW x \in Threads PROVE x \in Holders(b)' <=> x \in H
    BY <2>2 DEF IInv, Typed, OperationInv, Exclusive, Used, Written, Holders, Pending, At,
       Swapped
  <2>3. QED
    BY <2>1, <2>2 DEF Holders, Swapped, IInv, Typed
<1>5. CountIsExact'
  <2>1. ASSUME NEW b \in Blocks, ref[r].msg = b
        PROVE  r \in Holders(b) /\ t \notin Holders(b)
    BY <2>1 DEF IInv, Typed, OperationInv, Exclusive, Used, Written, Holders, Pending, At
  <2>2. QED
    BY <1>4, <2>1, CountsFollowHolders DEF IInv
<1>6. BlockInv'
  BY DEF IInv, Typed, BlockInv, Frees, At
<1>7. QED
  BY <1>1, <1>2, <1>3, <1>5, <1>6 DEF IInv

LEMMA FinishMovePreserves ==
  ASSUME IInv, NEW t \in Threads, FinishMove(t)
  PROVE  IInv'
<1> USE NullAssumption, DisjointAssumption, TextsAssumption DEF FinishMove, Done
<1>1. Typed'
  BY DEF IInv, Typed, OperationInv
<1>2. OperationInv'
  BY DEF IInv, Typed, OperationInv, Exclusive, Used, Written
<1>3. Exclusive'
  BY DEF IInv, Typed, OperationInv, Exclusive, Used, Written
<1>4. ASSUME NEW b \in Blocks
      PROVE  Holders(b)' = IF ref[op[t].src].msg = b THEN Swapped(b, op[t].src, op[t].dst) ELSE Holders(b)
  <2> DEFINE H == IF ref[op[t].src].msg = b THEN Swapped(b, op[t].src, op[t].dst) ELSE Holders(b)
  <2>1. ASSUME NEW x \in Refs PROVE x \in Holders(b)' <=> x \in H
    BY <2>1 DEF IInv, Typed, OperationInv, Exclusive, Used, Written, Holders, Pending, At,
       Swapped
  <2>2. ASSUME NEW x \in Threads PROVE x \in Holders(b)' <=> x \in H
    BY <2>2 DEF IInv, Typed, OperationInv, Exclusive, Used, Written, Holders, Pending, At,
       Swapped
  <2>3. QED
    BY <2>1, <2>2 DEF Holders, Swapped, IInv, Typed
<1>5. CountIsExact'
  <2>1. ASSUME NEW b \in Blocks, ref[op[t].src].msg = b
        PROVE  op[t].src \in Holders(b) /\ op[t].dst \notin Holders(b)
    BY <2>1 DEF IInv, Typed, OperationInv, Exclusive, Used, Written, Holders, Pending, At
  <2>2. QED
    BY <1>4, <2>1, CountsFollowHolders DEF IInv
<1>6. BlockInv'
  BY DEF IInv, Typed, BlockInv, Frees, At
<1>7. QED
  BY <1>1, <1>2, <1>3, <1>5, <1>6 DEF IInv

LEMMA DestroyPreserves ==
  ASSUME IInv, NEW t \in Threads, NEW r \in Refs, Destroy(t, r)
  PROVE  IInv'
<1> USE NullAssumption, DisjointAssumption, TextsAssumption DEF Destroy, Start, MayWrite
<1>1. Typed'
  BY DEF IInv, Typed, OperationInv
<1>2. OperationInv'
  BY DEF IInv, Typed, OperationInv, Exclusive, Used, Written
<1>3. Exclusive'
  BY DEF IInv, Typed, OperationInv, Exclusive, Used, Written
<1>4. ASSUME NEW b \in Blocks
      PROVE  Holders(b)' = IF ref[r].msg = b THEN Swapped(b, r, t) ELSE Holders(b)
  <2> DEFINE H == IF ref[r].msg = b THEN Swapped(b, r, t) ELSE Holders(b)
  <2>1. ASSUME NEW x \in Refs PROVE x \in Holders(b)' <=> x \in H
    BY <2>1 DEF IInv, Typed, OperationInv, Exclusive, Used, Written, Holders, Pending, At,
       Swapped
  <2>2. ASSUME NEW x \in Threads PROVE x \in Holders(b)' <=> x \in H
    BY <2>2 DEF IInv, Typed, OperationInv, Exclusive, Used, Written, Holders, Pending, At,
       Swapped
  <2>3. QED
    BY <2>1, <2>2 DEF Holders, Swapped, IInv, Typed
<1>5. CountIsExact'
  <2>1. ASSUME NEW b \in Blocks, ref[r].msg = b
        PROVE  r \in Holders(b) /\ t \notin Holders(b)
    BY <2>1 DEF IInv, Typed, OperationInv, Exclusive, Used, Written, Holders, Pending, At
  <2>2. QED
    BY <1>4, <2>1, CountsFollowHolders DEF IInv
<1>6. BlockInv'
  BY DEF IInv, Typed, BlockInv, Frees, At
<1>7. QED
  BY <1>1, <1>2, <1>3, <1>5, <1>6 DEF IInv

LEMMA AcquirePreserves ==
  ASSUME IInv, NEW t \in Threads, Acquire(t)
  PROVE  IInv'
<1> USE NullAssumption, DisjointAssumption, TextsAssumption DEF Acquire, Done, Continue
<1>1. Typed'
  BY DEF IInv, Typed, OperationInv
<1>2. OperationInv'
  BY DEF IInv, Typed, OperationInv, Exclusive, Used, Written
<1>3. Exclusive'
  BY DEF IInv, Typed, OperationInv, Exclusive, Used, Written
<1>4. ASSUME NEW b \in Blocks
      PROVE  Holders(b)' = IF ref[op[t].dst].msg = b THEN Holders(b) \cup {op[t].dst} ELSE Holders(b)
  <2> DEFINE H == IF ref[op[t].dst].msg = b THEN Holders(b) \cup {op[t].dst} ELSE Holders(b)
  <2>1. ASSUME NEW x \in Refs PROVE x \in Holders(b)' <=> x \in H
    BY <2>1 DEF IInv, Typed, OperationInv, Exclusive, Used, Written, Holders, Pending, At,
       Swapped
  <2>2. ASSUME NEW x \in Threads PROVE x \in Holders(b)' <=> x \in H
    BY <2>2 DEF IInv, Typed, OperationInv, Exclusive, Used, Written, Holders, Pending, At,
       Swapped
  <2>3. QED
    BY <2>1, <2>2 DEF Holders, Swapped, IInv, Typed
<1>5. CountIsExact'
  <2>1. op[t].dst \notin Holders(ref[op[t].dst].msg)
    BY DEF Holders, Pending, At, IInv, Typed
  <2>2. ASSUME NEW b \in Blocks, ref[op[t].dst].msg = b
        PROVE  Cardinality(Holders(b)') = Cardinality(Holders(b)) + 1
    BY <1>4, <2>1, <2>2, OneMoreHolder
  <2>3. QED
    BY <1>4, <2>2 DEF IInv, Typed, CountIsExact
<1>6. BlockInv'
  <2>1. count[ref[op[t].dst].msg] > 0
    BY SourceOfCopyHolds, HeldIsCounted DEF At, IInv
  <2>2. QED
    BY <2>1 DEF IInv, Typed, BlockInv, Frees, At
<1>7. QED
  BY <1>1, <1>2, <1>3, <1>5, <1>6 DEF IInv

LEMMA AcquireFailsPreserves ==
  ASSUME IInv, NEW t \in Threads, AcquireFails(t)
  PROVE  IInv'
<1> USE NullAssumption, DisjointAssumption, TextsAssumption DEF AcquireFails, Done
<1>1. Typed'
  BY DEF IInv, Typed, OperationInv
<1>2. OperationInv'
  BY DEF IInv, Typed, OperationInv, Exclusive, Used, Written
<1>3. Exclusive'
  BY DEF IInv, Typed, OperationInv, Exclusive, Used, Written
<1>4. ASSUME NEW b \in Blocks
      PROVE  Holders(b)' = IF op[t].victim.msg = b THEN Swapped(b, t, op[t].dst) ELSE Holders(b)
  <2> DEFINE H == IF op[t].victim.msg = b THEN Swapped(b, t, op[t].dst) ELSE Holders(b)
  <2>1. ASSUME NEW x \in Refs PROVE x \in Holders(b)' <=> x \in H
    BY <2>1 DEF IInv, Typed, OperationInv, Exclusive, Used, Written, Holders, Pending, At,
       Swapped
  <2>2. ASSUME NEW x \in Threads PROVE x \in Holders(b)' <=> x \in H
    BY <2>2 DEF IInv, Typed, OperationInv, Exclusive, Used, Written, Holders, Pending, At,
       Swapped
  <2>3. QED
    BY <2>1, <2>2 DEF Holders, Swapped, IInv, Typed
<1>5. CountIsExact'
  <2>1. ASSUME NEW b \in Blocks, op[t].victim.msg = b
        PROVE  t \in Holders(b) /\ op[t].dst \notin Holders(b)
    BY <2>1 DEF IInv, Typed, OperationInv, Exclusive, Used, Written, Holders, Pending, At
  <2>2. QED
    BY <1>4, <2>1, CountsFollowHolders DEF IInv
<1>6. BlockInv'
  BY DEF IInv, Typed, BlockInv, Frees, At
<1>7. QED
  BY <1>1, <1>2, <1>3, <1>5, <1>6 DEF IInv

LEMMA DropPreserves ==
  ASSUME IInv, NEW t \in Threads, Drop(t)
  PROVE  IInv'
<1> USE NullAssumption, DisjointAssumption, TextsAssumption
    DEF Drop, Done, Continue, AfterDrop
<1>1. Typed'
  <2>1. op[t].victim.msg \in Blocks /\ count[op[t].victim.msg] > 0
    BY HeldIsCounted DEF IInv, Typed, OperationInv, Holders, At
  <2>2. QED
    BY <2>1 DEF IInv, Typed, OperationInv
<1>2. OperationInv'
  BY DEF IInv, Typed, OperationInv, Exclusive, Used, Written
<1>3. Exclusive'
  BY DEF IInv, Typed, OperationInv, Exclusive, Used, Written
<1>4. ASSUME NEW b \in Blocks
      PROVE  Holders(b)' = IF op[t].victim.msg = b THEN Holders(b) \ {t} ELSE Holders(b)
  <2> DEFINE H == IF op[t].victim.msg = b THEN Holders(b) \ {t} ELSE Holders(b)
  <2>1. ASSUME NEW x \in Refs PROVE x \in Holders(b)' <=> x \in H
    BY <2>1 DEF IInv, Typed, OperationInv, Exclusive, Used, Written, Holders, Pending, At,
       Swapped
  <2>2. ASSUME NEW x \in Threads PROVE x \in Holders(b)' <=> x \in H
    BY <2>2 DEF IInv, Typed, OperationInv, Exclusive, Used, Written, Holders, Pending, At,
       Swapped
  <2>3. QED
    BY <2>1, <2>2 DEF Holders, Swapped, IInv, Typed
<1>5. CountIsExact'
  <2>1. ASSUME NEW b \in Blocks, op[t].victim.msg = b
        PROVE  Cardinality(Holders(b)') = Cardinality(Holders(b)) - 1
    <3>1. t \in Holders(b)
      BY <2>1 DEF Holders, At
    <3>2. QED
      BY <1>4, <2>1, <3>1, OneHolderLess
  <2>2. ASSUME NEW b \in Blocks
        PROVE  count'[b] = IF op[t].victim.msg = b THEN count[b] - 1 ELSE count[b]
    BY <2>2 DEF IInv, Typed
  <2>3. ASSUME NEW b \in Blocks
        PROVE  count[b] = Cardinality(Holders(b)) /\ count[b] \in Nat
    BY DEF IInv, Typed, CountIsExact
  <2>4. ASSUME NEW b \in Blocks
        PROVE  count'[b] = Cardinality(Holders(b)')
    BY ONLY <1>4, <2>1, <2>2, <2>3
  <2>5. QED
    BY ONLY <2>4 DEF CountIsExact
<1>6. BlockInv'
  <2>1. count[op[t].victim.msg] > 0
    BY HeldIsCounted DEF IInv, Typed, OperationInv, Holders, At
  <2>2. ASSUME NEW b \in Blocks, op[t].victim.msg # b
        PROVE  /\ count'[b] = count[b]
               /\ \A u \in Threads : Frees(u, b)' <=> Frees(u, b)
    BY <2>2 DEF IInv, Typed, OperationInv, Frees, At
  <2>3. ASSUME NEW b \in Blocks, op[t].victim.msg = b
        PROVE  /\ text[b] # "free"
               /\ count'[b] = count[b] - 1
               /\ \A u \in Threads : Frees(u, b)' <=> u = t /\ count[b] = 1
    <3>1. text[b] # "free" /\ ~(\E u \in Threads : Frees(u, b))
      BY <2>1, <2>3 DEF IInv, Typed, BlockInv
    <3>2. count'[b] = count[b] - 1
      BY <2>3 DEF IInv, Typed
    <3>3. Frees(t, b)' <=> count[b] = 1
      BY <2>3 DEF IInv, Typed, OperationInv, Frees, At
    <3>4. ASSUME NEW u \in Threads \ {t}
          PROVE  ~Frees(u, b)'
      BY <3>1 DEF IInv, Typed, Frees, At
    <3>5. QED
      BY ONLY <3>1, <3>2, <3>3, <3>4
  <2>4. text' = text
    OBVIOUS
  <2>5. QED
    BY ONLY IInv, <2>1, <2>2, <2>3, <2>4 DEF IInv, Typed, BlockInv
<1>7. QED
  BY <1>1, <1>2, <1>3, <1>5, <1>6 DEF IInv

LEMMA FreeBlockPreserves ==
  ASSUME IInv, NEW t \in Threads, FreeBlock(t)
  PROVE  IInv'
<1> USE NullAssumption, DisjointAssumption, TextsAssumption
    DEF FreeBlock, Done, Continue, AfterDrop
<1>1. Typed'
  BY DEF IInv, Typed, OperationInv
<1>2. OperationInv'
  BY DEF IInv, Typed, OperationInv, Exclusive, Used, Written
<1>3. Exclusive'
  BY DEF IInv, Typed, OperationInv, Exclusive, Used, Written
<1>4. ASSUME NEW b \in Blocks
      PROVE  Holders(b)' = Holders(b)
  <2> DEFINE H == Holders(b)
  <2>1. ASSUME NEW x \in Refs PROVE x \in Holders(b)' <=> x \in H
    <3>1. ASSUME NEW u \in Threads
          PROVE  /\ op'[u] # Idle /\ op'[u].stage = "acquire" => op'[u] = op[u]
                 /\ op[u] # Idle /\ op[u].stage = "acquire" => op'[u] = op[u]
      BY DEF IInv, Typed
    <3>2. Pending(x)' <=> Pending(x)
      BY ONLY <3>1 DEF Pending, At
    <3>3. QED
      BY <3>2 DEF Holders
  <2>2. ASSUME NEW x \in Threads PROVE x \in Holders(b)' <=> x \in H
    BY <2>2 DEF IInv, Typed, OperationInv, Exclusive, Used, Written, Holders, Pending, At,
       Swapped
  <2>3. QED
    BY <2>1, <2>2 DEF Holders, Swapped, IInv, Typed
<1>5. CountIsExact'
  BY <1>4, CountsFollowHolders DEF IInv
<1>6. BlockInv'
  BY DEF IInv, Typed, BlockInv, Frees, At
<1>7. QED
  BY <1>1, <1>2, <1>3, <1>5, <1>6 DEF IInv

HIDE DEF Thunks, RefValue, Shared, Absent, NullRef, Literal, Idle, Operation, Counted, Object

LEMMA InitEstablishes == Init => IInv
<1> SUFFICES ASSUME Init PROVE IInv
  OBVIOUS
<1>1. Typed /\ OperationInv /\ Exclusive /\ BlockInv
  BY DEF Init, Typed, OperationInv, Exclusive, BlockInv, Frees, At, RefValue, Idle, Used,
     Written
<1>2. ASSUME NEW b \in Blocks PROVE Holders(b) = {}
  BY NullAssumption DEF Init, Holders, At, Absent
<1>3. CountIsExact
  BY <1>2, FS_EmptySet DEF Init, CountIsExact
<1>4. QED
  BY <1>1, <1>3 DEF IInv

LEMMA StutterPreserves ==
  ASSUME IInv, UNCHANGED vars
  PROVE  IInv'
BY DEF vars, IInv, Typed, OperationInv, Exclusive, Used, Written, CountIsExact, Holders,
   Pending, At, BlockInv, Frees, Object

(* The inductive invariant holds in every interleaving of any number of    *)
(* threads.                                                                *)
THEOREM Invariance == Spec => []IInv
<1>1. IInv /\ [Next]_vars => IInv'
  <2> SUFFICES ASSUME IInv, [Next]_vars PROVE IInv'
    OBVIOUS
  <2>1. ASSUME NEW t \in Threads, Begin(t) PROVE IInv'
    BY <2>1, MakeStaticPreserves, MakeSharedPreserves, CopyConstructPreserves,
       MoveConstructPreserves,
       CopyAssignPreserves, MoveAssignPreserves, DestroyPreserves DEF Begin
  <2>2. ASSUME NEW t \in Threads, Proceed(t) PROVE IInv'
    BY <2>2, AcquirePreserves, AcquireFailsPreserves, DropPreserves, FreeBlockPreserves,
       FinishMovePreserves DEF Proceed
  <2>3. QED
    BY <2>1, <2>2, StutterPreserves DEF Next
<1>2. QED
  BY <1>1, InitEstablishes, PTL DEF Spec

(* Whatever an object shows, or will show if a copy fails, is in a block    *)
(* that is counted.                                                        *)
LiveViews ==
  /\ \A r \in Refs : ref[r].msg \in Blocks => count[ref[r].msg] > 0
  /\ \A t \in Threads : At(t, {"acquire"}) /\ op[t].victim.msg \in Blocks => count[op[t].victim.msg] > 0

LEMMA ViewsAreLive == IInv => LiveViews
<1> SUFFICES ASSUME IInv PROVE LiveViews
  OBVIOUS
<1>1. ASSUME NEW r \in Refs, ref[r].msg \in Blocks PROVE count[ref[r].msg] > 0
  <2>1. CASE Pending(r)
    <3>1. PICK t \in Threads : At(t, {"acquire"}) /\ op[t].dst = r
      BY <2>1 DEF Pending
    <3>2. QED
      BY <1>1, <3>1, SourceOfCopyHolds, HeldIsCounted DEF IInv
  <2>2. CASE ~Pending(r)
    <3>1. r \in Holders(ref[r].msg)
      BY <2>2 DEF Holders
    <3>2. QED
      BY <1>1, <3>1, HeldIsCounted DEF IInv
  <2>3. QED
    BY <2>1, <2>2
<1>2. ASSUME NEW t \in Threads, At(t, {"acquire"}), op[t].victim.msg \in Blocks
      PROVE  count[op[t].victim.msg] > 0
  BY <1>2, HeldIsCounted DEF IInv, Holders, At
<1>3. QED
  BY <1>1, <1>2 DEF LiveViews

(* Values of every type, and no count above the number of objects and      *)
(* threads there are.                                                      *)
THEOREM TypeCorrect == Spec => []TypeOK
<1>1. IInv => TypeOK
  <2> SUFFICES ASSUME IInv PROVE TypeOK
    OBVIOUS
  <2>1. Cardinality(Refs) \in Nat /\ Cardinality(Threads) \in Nat
    BY FiniteAssumption, FS_CardinalityType
  <2>2. ASSUME NEW b \in Blocks
        PROVE  count[b] <= Cardinality(Refs) + Cardinality(Threads)
    <3>1. Holders(b) \subseteq Refs \cup Threads
      BY DEF Holders
    <3>2. IsFiniteSet(Refs \cup Threads) /\ Cardinality(Refs \cup Threads) = Cardinality(Refs) + Cardinality(Threads)
      <4>1. Cardinality(Refs \cap Threads) = 0
        BY DisjointAssumption, FS_EmptySet
      <4>2. Cardinality(Refs \cup Threads) = Cardinality(Refs) + Cardinality(Threads) - 0
        BY <4>1, FiniteAssumption, FS_Union
      <4>3. IsFiniteSet(Refs \cup Threads)
        BY FiniteAssumption, FS_Union
      <4>4. QED
        BY <2>1, <4>2, <4>3
    <3>3. Cardinality(Holders(b)) <= Cardinality(Refs \cup Threads)
      BY <3>1, <3>2, FS_Subset
    <3>4. QED
      BY <3>2, <3>3 DEF IInv, CountIsExact
  <2>3. QED
    BY <2>1, <2>2 DEF IInv, Typed, TypeOK
<1>2. QED
  BY <1>1, Invariance, PTL

(* In every interleaving of copies, moves and destructions the atomic      *)
(* count is the number of references held.                                 *)
THEOREM CountsAreExact == Spec => []CountIsExact
<1>1. IInv => CountIsExact
  BY DEF IInv
<1>2. QED
  BY <1>1, Invariance, PTL

(* No object refers to freed memory, not even between the copy of the      *)
(* pointer and its fetch_add.                                              *)
THEOREM NothingDangles == Spec => []NoDangling
<1>1. IInv => NoDangling
  BY ViewsAreLive, NullAssumption DEF IInv, Typed, BlockInv, LiveViews, NoDangling, RefValue,
     Shared, Absent, NullRef, Literal
<1>2. QED
  BY <1>1, Invariance, PTL

(* However the last references are given back, one thread frees the block. *)
THEOREM EveryBlockFreedOnce == Spec => []FreedOnce
<1>1. IInv => NotFreedTwice
  <2> SUFFICES ASSUME IInv, NEW t \in Threads, NEW u \in Threads, At(t, {"free"})
               PROVE  /\ text[op[t].victim.msg] # "free"
                      /\ At(u, {"free", "drop"}) /\ op[u].victim.msg = op[t].victim.msg => u = t
    BY DEF NotFreedTwice
  <2> DEFINE b == op[t].victim.msg
  <2>1. b \in Blocks
    BY DEF IInv, Typed, OperationInv, At, Operation, RefValue, Shared, Absent, NullRef,
       Literal, Counted, Thunks
  <2>2. text[b] # "free" /\ count[b] = 0 /\ \A v \in Threads : Frees(v, b) => v = t
    BY <2>1 DEF IInv, BlockInv, Frees
  <2>3. ASSUME At(u, {"drop"}), op[u].victim.msg = b PROVE FALSE
    BY <2>1, <2>2, <2>3, HeldIsCounted DEF IInv, Holders, At
  <2>4. QED
    BY <2>2, <2>3 DEF Frees, At
<1>2. IInv => NoLeak
  BY UncountedIsNotHeld, HoldersAreFinite, FS_EmptySet DEF IInv, BlockInv, NoLeak, Frees,
     CountIsExact
<1>3. QED
  BY <1>1, <1>2, Invariance, PTL DEF FreedOnce

-------------------------------------------------------------------------------
(* The refinement of MessageValues. *)

(* Showing() with the thread named instead of chosen. *)
ShowingFacts ==
  \A r \in Refs :
    /\ \A t \in Threads : At(t, {"acquire"}) /\ op[t].dst = r =>
         Showing(r) = View(IF op[t].kind = "copy" THEN Absent ELSE op[t].victim)
    /\ \A t \in Moving(r) :
         Showing(r) = IF r = op[t].dst THEN View(ref[op[t].src]) ELSE "empty"
    /\ ~Pending(r) /\ Moving(r) = {} => Showing(r) = View(ref[r])
    /\ (\A t \in Threads : r \notin Written(op[t])) => Showing(r) = View(ref[r])

LEMMA ShowingIsDetermined == IInv => ShowingFacts
<1> SUFFICES ASSUME IInv, NEW r \in Refs
             PROVE  ShowingFacts!(r)
  BY DEF ShowingFacts
<1> USE NullAssumption
<1>1. ASSUME NEW t \in Threads, NEW u \in Threads, op[t] # Idle, op[u] # Idle,
             op[t].dst = r \/ (op[t].kind = "moveassign" /\ op[t].src = r),
             op[u].dst = r \/ (op[u].kind = "moveassign" /\ op[u].src = r)
      PROVE  t = u
  BY <1>1 DEF IInv, Typed, Exclusive, Used, Written, Operation
<1>2. ASSUME NEW t \in Threads, At(t, {"acquire"}), op[t].dst = r
      PROVE  Showing(r) = View(IF op[t].kind = "copy" THEN Absent ELSE op[t].victim)
  <2> DEFINE c == CHOOSE u \in Threads : op[u] # Idle /\ op[u].dst = r
  <2>1. c = t
    BY <1>1, <1>2 DEF At
  <2>2. Pending(r)
    BY <1>2 DEF Pending
  <2>3. Showing(r) = View(IF op[c].kind = "copy" THEN Absent ELSE op[c].victim)
    BY <2>2, Zenon DEF Showing
  <2>4. QED
    BY <2>1, <2>3
<1>3. ASSUME NEW t \in Moving(r)
      PROVE  Showing(r) = IF r = op[t].dst THEN View(ref[op[t].src]) ELSE "empty"
  <2>1. ~Pending(r)
    <3>1. SUFFICES ASSUME NEW u \in Threads, At(u, {"acquire"}), op[u].dst = r
                   PROVE  FALSE
      BY DEF Pending
    <3>2. u = t
      <4>1. t \in Threads /\ op[t] # Idle /\ (op[t].dst = r \/ (op[t].kind = "moveassign" /\ op[t].src = r))
        BY <1>3 DEF Moving
      <4>2. op[u] # Idle
        BY <3>1 DEF At
      <4>3. QED
        BY <1>1, <3>1, <4>1, <4>2
    <3>3. QED
      BY <1>3, <3>1, <3>2 DEF At, Moving, IInv, OperationInv
  <2>2. (CHOOSE u \in Moving(r) : TRUE) = t
    BY <1>1, <1>3 DEF Moving
  <2>3. QED
    BY <1>3, <2>1, <2>2 DEF Showing
<1>4. ASSUME ~Pending(r), Moving(r) = {} PROVE Showing(r) = View(ref[r])
  BY <1>4 DEF Showing
<1>5. ASSUME \A t \in Threads : r \notin Written(op[t]) PROVE Showing(r) = View(ref[r])
  <2>1. ~Pending(r) /\ Moving(r) = {}
    BY <1>5 DEF Pending, Moving, At, Written, IInv, Typed, Operation, Idle
  <2>2. QED
    BY <1>4, <2>1
<1>6. QED
  BY <1>2, <1>3, <1>4, <1>5

(* The facts of a state and the next that every step of the refinement     *)
(* relies on.                                                              *)
Facts == IInv /\ LiveViews /\ ShowingFacts

LEMMA ViewKept ==
  ASSUME NEW v \in RefValue, v.msg \in Blocks => text'[v.msg] = text[v.msg]
  PROVE  View(v)' = View(v)
BY NullAssumption DEF View, RefValue, Shared, Absent, NullRef, Literal

LEMMA ViewValues ==
  /\ View(Absent) = "absent"
  /\ View(NullRef) = "empty"
  /\ View(Literal) = "literal"
  /\ \A v \in Shared : View(v) = text[v.msg]
BY NullAssumption DEF View, Shared, Absent, NullRef, Literal, Thunks

(* A step of t leaves what an object shows alone, if the object is not     *)
(* written by its operation and texts change of uncounted blocks only.     *)
LEMMA UntouchedShows ==
  ASSUME Facts, Facts', NEW t \in Threads, NEW x \in Refs, ref'[x] = ref[x],
         x \notin Written(op[t]), x \notin Written(op'[t]),
         \A u \in Threads \ {t} :
           op'[u] = op[u] /\ \A y \in Used(op[u]) : ref'[y] = ref[y],
         \A b \in Blocks : count[b] > 0 => text'[b] = text[b]
  PROVE  Showing(x)' = Showing(x)
<1> USE NullAssumption
<1>1. CASE Pending(x)
  <2>1. PICK u \in Threads : At(u, {"acquire"}) /\ op[u].dst = x
    BY <1>1 DEF Pending
  <2>2. u # t
    BY <2>1 DEF Written, At, Facts, IInv, Typed, Idle, Operation
  <2>3. op'[u] = op[u]
    BY <2>2
  <2>4. At(u, {"acquire"})' /\ op'[u].dst = x
    BY <2>1, <2>3 DEF At
  <2> DEFINE v == IF op[u].kind = "copy" THEN Absent ELSE op[u].victim
  <2>5. Showing(x) = View(v)
    BY <2>1 DEF Facts, ShowingFacts
  <2>6. Showing(x)' = View(v)'
    BY <2>3, <2>4 DEF Facts, ShowingFacts
  <2>7. View(v)' = View(v)
    <3>1. v \in RefValue
      BY <2>1 DEF At, Facts, IInv, Typed, Operation, Idle, RefValue
    <3>2. v.msg \in Blocks => count[v.msg] > 0
      BY <2>1 DEF Facts, LiveViews, Absent
    <3>3. v.msg \in Blocks => text'[v.msg] = text[v.msg]
      BY <3>2
    <3>4. QED
      BY <2>3, <3>1, <3>3, ViewKept
  <2>8. QED
    BY <2>5, <2>6, <2>7
<1>2. CASE Moving(x) # {}
  <2>1. PICK u \in Threads : op[u] # Idle /\ op[u].kind = "moveassign" /\ x \in {op[u].dst, op[u].src}
    BY <1>2 DEF Moving
  <2>2. u # t
    BY <2>1 DEF Written, Facts, IInv, Typed, Idle, Operation
  <2>3. op'[u] = op[u]
    BY <2>2
  <2>4. u \in Moving(x) /\ u \in Moving(x)'
    BY <2>1, <2>3 DEF Moving
  <2>5. op[u].src \in Refs /\ ref'[op[u].src] = ref[op[u].src]
    BY <2>1, <2>2 DEF Facts, IInv, OperationInv, Used, Typed, Idle, Operation
  <2>6. View(ref[op[u].src])' = View(ref[op[u].src])
    BY <2>3, <2>5, ViewKept DEF Facts, IInv, Typed, LiveViews
  <2>7. QED
    BY <2>3, <2>4, <2>6 DEF Facts, ShowingFacts
<1>3. CASE ~Pending(x) /\ Moving(x) = {}
  <2>1. ~Pending(x)' /\ Moving(x)' = {}
    <3>1. \A u \in Threads : op'[u] # Idle /\ op'[u].kind # "idle" /\ x \in Written(op'[u]) => op[u] = op'[u]
      OBVIOUS
    <3>2. \A u \in Threads : op'[u] # Idle => op'[u].kind # "idle"
      BY DEF Facts, IInv, Typed, Operation
    <3>3. QED
      BY <1>3, <3>1, <3>2 DEF Pending, Moving, At, Written
  <2>2. View(ref[x])' = View(ref[x])
    BY ViewKept DEF Facts, IInv, Typed, LiveViews
  <2>3. QED
    BY <1>3, <2>1, <2>2 DEF Facts, ShowingFacts
<1>4. QED
  BY <1>1, <1>2, <1>3

-------------------------------------------------------------------------------
(* One lemma per action: the step of MessageValues it is, or a stutter.    *)
Shown == [r \in Refs |-> Showing(r)]

USE DEF Thunks, RefValue, Shared, Absent, NullRef, Literal, Idle, Operation, Counted,
        Object

LEMMA MakeStaticRefines ==
  ASSUME Facts, Facts', NEW t \in Threads, NEW r \in Refs, MakeStatic(t, r)
  PROVE  Messages!Create(r)
<1> USE NullAssumption, DisjointAssumption, TextsAssumption DEF MakeStatic, MayWrite
<1>1. \A u \in Threads \ {t} : op'[u] = op[u] /\ \A y \in Used(op[u]) : ref'[y] = ref[y]
  BY DEF Facts, IInv, Typed, OperationInv, Exclusive, Used, Written
<1>2. ASSUME NEW x \in Refs \ {r}
      PROVE  Showing(x)' = Showing(x)
  <2>1. ref'[x] = ref[x] /\ x \notin Written(op[t]) /\ x \notin Written(op'[t])
    BY DEF Facts, IInv, Typed, OperationInv, Written
  <2>2. \A b \in Blocks : count[b] > 0 => text'[b] = text[b]
    BY DEF Facts, IInv, Typed, OperationInv, BlockInv, Frees, At
  <2>3. QED
    BY ONLY Facts, Facts', <1>1, <2>1, <2>2, UntouchedShows
<1>3. Showing(r) = View(ref[r])
  <2>1. \A u \in Threads : r \notin Written(op[u])
    BY DEF Facts, IInv, Typed, Used, Written
  <2>2. QED
    BY <2>1 DEF Facts, ShowingFacts
<1>4. Showing(r)' = View(ref[r])'
  <2>1. \A u \in Threads : r \notin Written(op'[u])
    BY DEF Facts, IInv, Typed, Used, Written
  <2>2. QED
    BY <2>1 DEF Facts, ShowingFacts
<1>5. View(ref[r])' \in {"empty", "literal"}
  BY ViewValues DEF Facts, IInv, Typed, View
<1>6. Shown' = [Shown EXCEPT ![r] = Showing(r)']
  BY <1>2, <1>3, <1>4, <1>5 DEF Shown
<1>7. QED
  BY <1>3, <1>4, <1>5, <1>6, ViewValues DEF Messages!Create, Shown, Facts, IInv, Typed

LEMMA MakeSharedRefines ==
  ASSUME Facts, Facts', NEW t \in Threads, NEW r \in Refs, NEW k \in Thunks,
         NEW c \in Blocks, NEW m \in Texts, MakeShared(t, r, k, c, m)
  PROVE  Messages!Create(r)
<1> USE NullAssumption, DisjointAssumption, TextsAssumption DEF MakeShared, MayWrite
<1>1. \A u \in Threads \ {t} : op'[u] = op[u] /\ \A y \in Used(op[u]) : ref'[y] = ref[y]
  BY DEF Facts, IInv, Typed, OperationInv, Exclusive, Used, Written
<1>2. ASSUME NEW x \in Refs \ {r}
      PROVE  Showing(x)' = Showing(x)
  <2>1. ref'[x] = ref[x] /\ x \notin Written(op[t]) /\ x \notin Written(op'[t])
    BY DEF Facts, IInv, Typed, OperationInv, Written
  <2>2. \A b \in Blocks : count[b] > 0 => text'[b] = text[b]
    BY DEF Facts, IInv, Typed, OperationInv, BlockInv, Frees, At
  <2>3. QED
    BY ONLY Facts, Facts', <1>1, <2>1, <2>2, UntouchedShows
<1>3. Showing(r) = View(ref[r])
  <2>1. \A u \in Threads : r \notin Written(op[u])
    BY DEF Facts, IInv, Typed, Used, Written
  <2>2. QED
    BY <2>1 DEF Facts, ShowingFacts
<1>4. Showing(r)' = View(ref[r])'
  <2>1. \A u \in Threads : r \notin Written(op'[u])
    BY DEF Facts, IInv, Typed, Used, Written
  <2>2. QED
    BY <2>1 DEF Facts, ShowingFacts
<1>5. View(ref[r])' = m
  BY DEF Facts, IInv, Typed, View
<1>6. Shown' = [Shown EXCEPT ![r] = Showing(r)']
  BY <1>2, <1>3, <1>4, <1>5 DEF Shown
<1>7. Showing(r) = "absent"
  BY <1>3 DEF View
<1>8. Shown[r] = "absent" /\ Shown' = [Shown EXCEPT ![r] = m]
  BY <1>4, <1>5, <1>6, <1>7 DEF Shown
<1>9. QED
  BY ONLY <1>8, m \in Texts DEF Messages!Create, Shown

LEMMA MoveConstructRefines ==
  ASSUME Facts, Facts', NEW t \in Threads, NEW r \in Refs, NEW s \in Refs,
         MoveConstruct(t, r, s)
  PROVE  Messages!Move(r, s)
<1> USE NullAssumption, DisjointAssumption, TextsAssumption DEF MoveConstruct, MayWrite
<1>1. \A u \in Threads \ {t} : op'[u] = op[u] /\ \A y \in Used(op[u]) : ref'[y] = ref[y]
  BY DEF Facts, IInv, Typed, OperationInv, Exclusive, Used, Written
<1>2. ASSUME NEW x \in Refs \ {r, s}
      PROVE  Showing(x)' = Showing(x)
  <2>1. ref'[x] = ref[x] /\ x \notin Written(op[t]) /\ x \notin Written(op'[t])
    BY DEF Facts, IInv, Typed, OperationInv, Written
  <2>2. \A b \in Blocks : count[b] > 0 => text'[b] = text[b]
    BY DEF Facts, IInv, Typed, OperationInv, BlockInv, Frees, At
  <2>3. QED
    BY ONLY Facts, Facts', <1>1, <2>1, <2>2, UntouchedShows
<1>3. Showing(s) = View(ref[s])
  <2>1. \A u \in Threads : s \notin Written(op[u])
    BY DEF Facts, IInv, Typed, Used, Written
  <2>2. QED
    BY <2>1 DEF Facts, ShowingFacts
<1>4. Showing(s)' = View(ref[s])'
  <2>1. \A u \in Threads : s \notin Written(op'[u])
    BY DEF Facts, IInv, Typed, Used, Written
  <2>2. QED
    BY <2>1 DEF Facts, ShowingFacts
<1>5. Showing(r)' = View(ref[r])'
  <2>1. \A u \in Threads : r \notin Written(op'[u])
    BY DEF Facts, IInv, Typed, Used, Written
  <2>2. QED
    BY <2>1 DEF Facts, ShowingFacts
<1>6. View(ref[s])' = "empty" /\ View(ref[r])' = View(ref[s]) /\ View(ref[s]) # "absent"
  <2>1. text' = text /\ ref'[r] = ref[s] /\ ref'[s] = NullRef /\ r # s
    BY DEF Facts, IInv, Typed
  <2>2. View(ref[s])' = "empty" /\ View(ref[r])' = View(ref[s])
    BY <2>1 DEF View
  <2>3. View(ref[s]) # "absent"
    BY ViewValues DEF Facts, IInv, Typed
  <2>4. QED
    BY <2>1, <2>2, <2>3
<1>7. Shown' = [Shown EXCEPT ![r] = Showing(s), ![s] = "empty"]
  BY <1>2, <1>3, <1>4, <1>5, <1>6 DEF Shown
<1>8. QED
  BY <1>3, <1>4, <1>5, <1>6, <1>7, ViewValues DEF Messages!Move, Shown, Facts, IInv, Typed

LEMMA DestroyRefines ==
  ASSUME Facts, Facts', NEW t \in Threads, NEW r \in Refs, Destroy(t, r)
  PROVE  Messages!Destroy(r)
<1> USE NullAssumption, DisjointAssumption, TextsAssumption DEF Destroy, Start, MayWrite
<1>1. \A u \in Threads \ {t} : op'[u] = op[u] /\ \A y \in Used(op[u]) : ref'[y] = ref[y]
  BY DEF Facts, IInv, Typed, OperationInv, Exclusive, Used, Written
<1>2. ASSUME NEW x \in Refs \ {r}
      PROVE  Showing(x)' = Showing(x)
  <2>1. ref'[x] = ref[x] /\ x \notin Written(op[t]) /\ x \notin Written(op'[t])
    BY DEF Facts, IInv, Typed, OperationInv, Written
  <2>2. \A b \in Blocks : count[b] > 0 => text'[b] = text[b]
    BY DEF Facts, IInv, Typed, OperationInv, BlockInv, Frees, At
  <2>3. QED
    BY ONLY Facts, Facts', <1>1, <2>1, <2>2, UntouchedShows
<1>3. Showing(r) = View(ref[r])
  <2>1. \A u \in Threads : r \notin Written(op[u])
    BY DEF Facts, IInv, Typed, Used, Written
  <2>2. QED
    BY <2>1 DEF Facts, ShowingFacts
<1>4. Showing(r)' = "absent"
  <2>1. ref'[r] = Absent /\ ~Pending(r)' /\ Moving(r)' = {}
    BY DEF Facts, IInv, Typed, Pending, Moving, At, Used
  <2>2. View(ref[r])' = "absent"
    BY <2>1 DEF View
  <2>3. QED
    BY <2>1, <2>2 DEF Facts, ShowingFacts
<1>5. View(ref[r]) # "absent"
  BY ViewValues DEF Facts, IInv, Typed
<1>6. Shown' = [Shown EXCEPT ![r] = "absent"]
  BY <1>2, <1>3, <1>4, <1>5 DEF Shown
<1>7. QED
  BY <1>3, <1>4, <1>5, <1>6, ViewValues DEF Messages!Destroy, Shown, Facts, IInv, Typed

LEMMA CopyConstructRefines ==
  ASSUME Facts, Facts', NEW t \in Threads, NEW r \in Refs, NEW s \in Refs,
         CopyConstruct(t, r, s)
  PROVE  Messages!Copy(r, s) \/ UNCHANGED Shown
<1> USE NullAssumption, DisjointAssumption, TextsAssumption
    DEF CopyConstruct, Start, MayRead, MayWrite
<1>1. \A u \in Threads \ {t} : op'[u] = op[u] /\ \A y \in Used(op[u]) : ref'[y] = ref[y]
  BY DEF Facts, IInv, Typed, OperationInv, Exclusive, Used, Written
<1>2. ASSUME NEW x \in Refs \ {r}
      PROVE  Showing(x)' = Showing(x)
  <2>1. ref'[x] = ref[x] /\ x \notin Written(op[t]) /\ x \notin Written(op'[t])
    BY DEF Facts, IInv, Typed, OperationInv, Written
  <2>2. \A b \in Blocks : count[b] > 0 => text'[b] = text[b]
    BY DEF Facts, IInv, Typed, OperationInv, BlockInv, Frees, At
  <2>3. QED
    BY ONLY Facts, Facts', <1>1, <2>1, <2>2, UntouchedShows
<1>3. Showing(r) = View(ref[r])
  <2>1. \A u \in Threads : r \notin Written(op[u])
    BY DEF Facts, IInv, Typed, Used, Written
  <2>2. QED
    BY <2>1 DEF Facts, ShowingFacts
<1>4. Showing(s) = View(ref[s])
  <2>1. \A u \in Threads : s \notin Written(op[u])
    BY DEF Facts, IInv, Typed, Used, Written
  <2>2. QED
    BY <2>1 DEF Facts, ShowingFacts
<1>5. CASE Counted(ref[s])
  <2>1. Showing(r)' = "absent"
    <3>1. At(t, {"acquire"})' /\ op'[t].dst = r /\ op'[t].kind = "copy"
      BY <1>5 DEF Facts, IInv, Typed, At
    <3>2. View(Absent)' = "absent"
      BY DEF View
    <3>3. QED
      BY <3>1, <3>2 DEF Facts, ShowingFacts
  <2>2. Showing(r) = "absent"
    BY <1>3, ViewValues DEF Facts, IInv, Typed
  <2>3. QED
    BY <1>2, <2>1, <2>2 DEF Shown
<1>6. CASE ~Counted(ref[s])
  <2>1. \A u \in Threads : r \notin Written(op'[u])
    BY <1>6 DEF Facts, IInv, Typed, Used, Written
  <2>2. text' = text /\ ref'[r] = ref[s]
    BY DEF Facts, IInv, Typed
  <2>3. View(ref[r])' = View(ref[s])
    BY <2>2 DEF View
  <2>4. Showing(r)' = Showing(s)
    BY <1>4, <2>1, <2>3 DEF Facts, ShowingFacts
  <2>5. View(ref[s]) # "absent"
    BY ViewValues DEF Facts, IInv, Typed
  <2>6. Shown' = [Shown EXCEPT ![r] = Showing(s)]
    BY <1>2, <2>4 DEF Shown
  <2>7. Messages!Copy(r, s)
    BY <1>4, <2>5, <2>6 DEF Messages!Copy, Shown
  <2>8. QED
    BY <2>7
<1>7. QED
  BY <1>5, <1>6

LEMMA CopyAssignRefines ==
  ASSUME Facts, Facts', NEW t \in Threads, NEW r \in Refs, NEW s \in Refs,
         CopyAssign(t, r, s)
  PROVE  Messages!Copy(r, s) \/ UNCHANGED Shown
<1> USE NullAssumption, DisjointAssumption, TextsAssumption
    DEF CopyAssign, Start, MayRead, MayWrite
<1>1. \A u \in Threads \ {t} : op'[u] = op[u] /\ \A y \in Used(op[u]) : ref'[y] = ref[y]
  BY DEF Facts, IInv, Typed, OperationInv, Exclusive, Used, Written
<1>2. ASSUME NEW x \in Refs \ {r}
      PROVE  Showing(x)' = Showing(x)
  <2>1. ref'[x] = ref[x] /\ x \notin Written(op[t]) /\ x \notin Written(op'[t])
    BY DEF Facts, IInv, Typed, OperationInv, Written
  <2>2. \A b \in Blocks : count[b] > 0 => text'[b] = text[b]
    BY DEF Facts, IInv, Typed, OperationInv, BlockInv, Frees, At
  <2>3. QED
    BY ONLY Facts, Facts', <1>1, <2>1, <2>2, UntouchedShows
<1>3. Showing(r) = View(ref[r])
  <2>1. \A u \in Threads : r \notin Written(op[u])
    BY DEF Facts, IInv, Typed, Used, Written
  <2>2. QED
    BY <2>1 DEF Facts, ShowingFacts
<1>4. Showing(s) = View(ref[s])
  <2>1. \A u \in Threads : s \notin Written(op[u])
    BY DEF Facts, IInv, Typed, Used, Written
  <2>2. QED
    BY <2>1 DEF Facts, ShowingFacts
<1>5. CASE Counted(ref[s])
  <2>1. At(t, {"acquire"})' /\ op'[t].dst = r /\ op'[t].kind = "copyassign" /\ op'[t].victim = ref[r]
    BY <1>5 DEF Facts, IInv, Typed, At
  <2>2. View(op'[t].victim) = View(ref[r]) /\ View(op[t].victim)' = View(ref[r])
    BY <2>1 DEF View
  <2>3. Showing(r)' = Showing(r)
    BY <1>3, <2>1, <2>2 DEF Facts, ShowingFacts
  <2>4. QED
    BY <1>2, <2>3 DEF Shown
<1>6. CASE ~Counted(ref[s])
  <2>1. ~Pending(r)' /\ Moving(r)' = {}
    BY <1>6 DEF Facts, IInv, Typed, Pending, Moving, At, Used
  <2>2. text' = text /\ ref'[r] = ref[s]
    BY DEF Facts, IInv, Typed
  <2>3. View(ref[r])' = View(ref[s])
    BY <2>2 DEF View
  <2>4. Showing(r)' = Showing(s)
    BY <1>4, <2>1, <2>3 DEF Facts, ShowingFacts
  <2>5. View(ref[s]) # "absent"
    BY ViewValues DEF Facts, IInv, Typed
  <2>6. Shown' = [Shown EXCEPT ![r] = Showing(s)]
    BY <1>2, <2>4 DEF Shown
  <2>7. Messages!Copy(r, s)
    BY <1>4, <2>5, <2>6 DEF Messages!Copy, Shown
  <2>8. QED
    BY <2>7
<1>7. QED
  BY <1>5, <1>6

LEMMA MoveAssignRefines ==
  ASSUME Facts, Facts', NEW t \in Threads, NEW r \in Refs, NEW s \in Refs,
         MoveAssign(t, r, s)
  PROVE  Messages!Move(r, s)
<1> USE NullAssumption, DisjointAssumption, TextsAssumption DEF MoveAssign, Start, MayWrite
<1>1. \A u \in Threads \ {t} : op'[u] = op[u] /\ \A y \in Used(op[u]) : ref'[y] = ref[y]
  BY DEF Facts, IInv, Typed, OperationInv, Exclusive, Used, Written
<1>2. ASSUME NEW x \in Refs \ {r, s}
      PROVE  Showing(x)' = Showing(x)
  <2>1. ref'[x] = ref[x] /\ x \notin Written(op[t]) /\ x \notin Written(op'[t])
    BY DEF Facts, IInv, Typed, OperationInv, Written
  <2>2. \A b \in Blocks : count[b] > 0 => text'[b] = text[b]
    BY DEF Facts, IInv, Typed, OperationInv, BlockInv, Frees, At
  <2>3. QED
    BY ONLY Facts, Facts', <1>1, <2>1, <2>2, UntouchedShows
<1>3. Showing(s) = View(ref[s])
  <2>1. \A u \in Threads : s \notin Written(op[u])
    BY DEF Facts, IInv, Typed, Used, Written
  <2>2. QED
    BY <2>1 DEF Facts, ShowingFacts
<1>4. op'[t].dst = r /\ op'[t].src = s /\ t \in Moving(r)' /\ t \in Moving(s)'
  BY DEF Facts, IInv, Typed, Moving
<1>5. ref'[s] = ref[s] /\ text' = text
  BY DEF Facts, IInv, Typed
<1>6. View(ref[op[t].src])' = View(ref[s])
  BY <1>4, <1>5 DEF View
<1>7. Showing(r)' = Showing(s) /\ Showing(s)' = "empty"
  BY <1>3, <1>4, <1>6 DEF Facts, ShowingFacts
<1>8. View(ref[s]) # "absent"
  BY ViewValues DEF Facts, IInv, Typed
<1>9. Shown' = [Shown EXCEPT ![r] = Showing(s), ![s] = "empty"]
  BY <1>2, <1>3, <1>7, <1>8 DEF Shown
<1>10. QED
  BY <1>3, <1>7, <1>8, <1>9, ViewValues DEF Messages!Move, Shown, Facts, IInv, Typed

LEMMA FinishMoveRefines ==
  ASSUME Facts, Facts', NEW t \in Threads, FinishMove(t)
  PROVE  UNCHANGED Shown
<1> USE NullAssumption, DisjointAssumption, TextsAssumption DEF FinishMove, Done
<1>1. \A u \in Threads \ {t} : op'[u] = op[u] /\ \A y \in Used(op[u]) : ref'[y] = ref[y]
  BY DEF Facts, IInv, Typed, OperationInv, Exclusive, Used, Written
<1>2. ASSUME NEW x \in Refs \ {op[t].dst, op[t].src}
      PROVE  Showing(x)' = Showing(x)
  <2>1. ref'[x] = ref[x] /\ x \notin Written(op[t]) /\ x \notin Written(op'[t])
    BY DEF Facts, IInv, Typed, OperationInv, Written
  <2>2. \A b \in Blocks : count[b] > 0 => text'[b] = text[b]
    BY DEF Facts, IInv, Typed, OperationInv, BlockInv, Frees, At
  <2>3. QED
    BY ONLY Facts, Facts', <1>1, <2>1, <2>2, UntouchedShows
<1>3. PICK d \in Refs, s \in Refs :
             d = op[t].dst /\ s = op[t].src /\ s # d /\ t \in Moving(d) /\ t \in Moving(s)
  BY DEF Facts, IInv, Typed, OperationInv, Moving
<1>4. ref'[d] = ref[s] /\ ref'[s] = NullRef /\ text' = text
  BY <1>3 DEF Facts, IInv, Typed
<1>5. \A u \in Threads : d \notin Written(op'[u]) /\ s \notin Written(op'[u])
  BY <1>3 DEF Facts, IInv, Typed, OperationInv, Exclusive, Used, Written
<1>6. View(ref[d])' = View(ref[s]) /\ View(ref[s])' = "empty"
  BY <1>4 DEF View
<1>7. Showing(d)' = Showing(d) /\ Showing(s)' = Showing(s)
  <2>1. Showing(d) = View(ref[s]) /\ Showing(s) = "empty"
    BY <1>3 DEF Facts, ShowingFacts
  <2>2. Showing(d)' = View(ref[d])' /\ Showing(s)' = View(ref[s])'
    BY <1>3, <1>5 DEF Facts, ShowingFacts
  <2>3. QED
    BY <1>6, <2>1, <2>2
<1>8. QED
  BY <1>2, <1>3, <1>7 DEF Shown

LEMMA AcquireRefines ==
  ASSUME Facts, Facts', NEW t \in Threads, Acquire(t)
  PROVE  Messages!Copy(op[t].dst, op[t].src)
<1> USE NullAssumption, DisjointAssumption, TextsAssumption DEF Acquire, Done, Continue
<1>1. \A u \in Threads \ {t} : op'[u] = op[u] /\ \A y \in Used(op[u]) : ref'[y] = ref[y]
  BY DEF Facts, IInv, Typed, OperationInv, Exclusive, Used, Written
<1>2. ASSUME NEW x \in Refs \ {op[t].dst}
      PROVE  Showing(x)' = Showing(x)
  <2>1. ref'[x] = ref[x] /\ x \notin Written(op[t]) /\ x \notin Written(op'[t])
    BY DEF Facts, IInv, Typed, OperationInv, Written
  <2>2. \A b \in Blocks : count[b] > 0 => text'[b] = text[b]
    BY DEF Facts, IInv, Typed, OperationInv, BlockInv, Frees, At
  <2>3. QED
    BY ONLY Facts, Facts', <1>1, <2>1, <2>2, UntouchedShows
<1>3. PICK d \in Refs, s \in Refs :
             /\ d = op[t].dst /\ s = op[t].src /\ s # d
             /\ ref[d] = ref[s] /\ op[t].kind \in {"copy", "copyassign"}
  BY DEF Facts, IInv, Typed, OperationInv
<1>4. ~Pending(d)' /\ Moving(d)' = {}
  BY <1>3 DEF Facts, IInv, Typed, OperationInv, Exclusive, Used, Written, Pending, Moving, At
<1>5. \A u \in Threads : s \notin Written(op[u])
  BY <1>3 DEF Facts, IInv, Typed, OperationInv, Exclusive, Used, Written
<1>6. Showing(d)' = Showing(s) /\ View(ref[s]) # "absent"
  <2>1. View(ref[d])' = View(ref[s])
    BY <1>3 DEF View
  <2>2. View(ref[s]) # "absent"
    BY <1>3, ViewValues DEF Facts, IInv, Typed, OperationInv
  <2>3. QED
    BY <1>3, <1>4, <1>5, <2>1, <2>2 DEF Facts, ShowingFacts
<1>7. Showing(s) = View(ref[s])
  BY <1>3, <1>5 DEF Facts, ShowingFacts
<1>8. Shown' = [Shown EXCEPT ![d] = Showing(s)]
  BY <1>2, <1>3, <1>6, <1>7 DEF Shown
<1>9. QED
  BY <1>3, <1>6, <1>7, <1>8 DEF Messages!Copy, Shown

LEMMA AcquireFailsRefines ==
  ASSUME Facts, Facts', NEW t \in Threads, AcquireFails(t)
  PROVE  UNCHANGED Shown
<1> USE NullAssumption, DisjointAssumption, TextsAssumption DEF AcquireFails, Done
<1>1. \A u \in Threads \ {t} : op'[u] = op[u] /\ \A y \in Used(op[u]) : ref'[y] = ref[y]
  BY DEF Facts, IInv, Typed, OperationInv, Exclusive, Used, Written
<1>2. ASSUME NEW x \in Refs \ {op[t].dst}
      PROVE  Showing(x)' = Showing(x)
  <2>1. ref'[x] = ref[x] /\ x \notin Written(op[t]) /\ x \notin Written(op'[t])
    BY DEF Facts, IInv, Typed, OperationInv, Written
  <2>2. \A b \in Blocks : count[b] > 0 => text'[b] = text[b]
    BY DEF Facts, IInv, Typed, OperationInv, BlockInv, Frees, At
  <2>3. QED
    BY ONLY Facts, Facts', <1>1, <2>1, <2>2, UntouchedShows
<1>3. PICK d \in Refs, v \in RefValue :
             /\ d = op[t].dst /\ v = IF op[t].kind = "copy" THEN Absent ELSE op[t].victim
             /\ At(t, {"acquire"}) /\ ref'[d] = v /\ text' = text
  BY DEF Facts, IInv, Typed, OperationInv, At
<1>4. \A u \in Threads : d \notin Written(op'[u])
  BY <1>3 DEF Facts, IInv, Typed, OperationInv, Exclusive, Used, Written
<1>5. View(ref[d])' = View(v)
  BY <1>3 DEF View
<1>6. Showing(d)' = Showing(d)
  <2>1. Showing(d) = View(v)
    BY <1>3 DEF Facts, ShowingFacts
  <2>2. Showing(d)' = View(ref[d])'
    BY <1>3, <1>4 DEF Facts, ShowingFacts
  <2>3. QED
    BY <1>5, <2>1, <2>2
<1>7. QED
  BY <1>2, <1>3, <1>6 DEF Shown

LEMMA DropStutters ==
  ASSUME Facts, Facts', NEW t \in Threads, Drop(t)
  PROVE  UNCHANGED Shown
<1> USE NullAssumption, DisjointAssumption, TextsAssumption
    DEF Drop, Done, Continue, AfterDrop
<1>1. \A b \in Blocks : count[b] > 0 => text'[b] = text[b]
  BY DEF Facts, IInv, Typed, OperationInv, BlockInv, Frees, At
<1>2. ASSUME NEW x \in Refs
      PROVE  Showing(x)' = Showing(x)
  <2>1. CASE x \notin Written(op[t])
    <3>1. x \notin Written(op'[t])
      BY <2>1 DEF Facts, IInv, Typed, OperationInv, Written
    <3>2. \A u \in Threads \ {t} : op'[u] = op[u] /\ \A y \in Used(op[u]) : ref'[y] = ref[y]
      BY DEF Facts, IInv, Typed, OperationInv
    <3>3. QED
      BY <1>1, <2>1, <3>1, <3>2, UntouchedShows
  <2>2. CASE t \in Moving(x)
    <3>1. t \in Moving(x)' /\ op'[t].dst = op[t].dst /\ op'[t].src = op[t].src /\ op[t].src \in Refs
      BY <2>2 DEF Facts, IInv, Typed, OperationInv, Moving
    <3>2. View(ref[op[t].src])' = View(ref[op[t].src])
      BY <1>1, <3>1, ViewKept DEF Facts, IInv, Typed, OperationInv, LiveViews
    <3>3. QED
      BY <2>2, <3>1, <3>2 DEF Facts, ShowingFacts
  <2>3. CASE x \in Written(op[t]) /\ t \notin Moving(x)
    <3>1. x = op[t].dst /\ op[t].kind # "moveassign"
      BY <2>3 DEF Facts, IInv, Typed, OperationInv, Written, Moving
    <3>2. \A u \in Threads \ {t} : x \notin Written(op[u]) /\ op'[u] = op[u]
      BY <3>1 DEF Facts, IInv, Typed, OperationInv, Exclusive, Used, Written
    <3>3. ~Pending(x) /\ Moving(x) = {}
      <4>1. op[t].stage # "acquire" /\ op[t].kind # "moveassign"
        BY <3>1 DEF Facts, IInv, Typed, OperationInv
      <4>2. \A u \in Threads \ {t} : op[u] # Idle => op[u].dst # x
        BY <3>2 DEF Facts, IInv, Typed, Operation, Written
      <4>3. \A u \in Threads \ {t} : op[u].kind = "moveassign" => x \notin {op[u].dst, op[u].src}
        BY <3>2 DEF Written
      <4>4. QED
        BY <4>1, <4>2, <4>3 DEF Pending, Moving, At
    <3>4. ~Pending(x)' /\ Moving(x)' = {}
      <4>1. op'[t] = Idle \/ (op'[t].stage # "acquire" /\ op'[t].kind = op[t].kind)
        BY DEF Facts, IInv, Typed, OperationInv
      <4>2. \A u \in Threads \ {t} : op'[u] # Idle => op'[u].dst # x
        BY <3>2 DEF Facts, IInv, Typed, Operation, Written
      <4>3. \A u \in Threads \ {t} : op'[u].kind = "moveassign" => x \notin {op'[u].dst, op'[u].src}
        BY <3>2 DEF Written
      <4>4. QED
        BY <3>1, <4>1, <4>2, <4>3 DEF Pending, Moving, At
    <3>5. View(ref[x])' = View(ref[x])
      BY <1>1, ViewKept DEF Facts, IInv, Typed, OperationInv, LiveViews
    <3>6. QED
      BY <3>3, <3>4, <3>5 DEF Facts, ShowingFacts
  <2>4. QED
    BY <2>1, <2>2, <2>3
<1>3. QED
  BY <1>2 DEF Shown

LEMMA FreeBlockStutters ==
  ASSUME Facts, Facts', NEW t \in Threads, FreeBlock(t)
  PROVE  UNCHANGED Shown
<1> USE NullAssumption, DisjointAssumption, TextsAssumption
    DEF FreeBlock, Done, Continue, AfterDrop
<1>1. \A b \in Blocks : count[b] > 0 => text'[b] = text[b]
  BY DEF Facts, IInv, Typed, OperationInv, BlockInv, Frees, At
<1>2. ASSUME NEW x \in Refs
      PROVE  Showing(x)' = Showing(x)
  <2>1. CASE x \notin Written(op[t])
    <3>1. x \notin Written(op'[t])
      BY <2>1 DEF Facts, IInv, Typed, OperationInv, Written
    <3>2. \A u \in Threads \ {t} : op'[u] = op[u] /\ \A y \in Used(op[u]) : ref'[y] = ref[y]
      BY DEF Facts, IInv, Typed, OperationInv
    <3>3. QED
      BY <1>1, <2>1, <3>1, <3>2, UntouchedShows
  <2>2. CASE t \in Moving(x)
    <3>1. t \in Moving(x)' /\ op'[t].dst = op[t].dst /\ op'[t].src = op[t].src /\ op[t].src \in Refs
      BY <2>2 DEF Facts, IInv, Typed, OperationInv, Moving
    <3>2. View(ref[op[t].src])' = View(ref[op[t].src])
      BY <1>1, <3>1, ViewKept DEF Facts, IInv, Typed, OperationInv, LiveViews
    <3>3. QED
      BY <2>2, <3>1, <3>2 DEF Facts, ShowingFacts
  <2>3. CASE x \in Written(op[t]) /\ t \notin Moving(x)
    <3>1. x = op[t].dst /\ op[t].kind # "moveassign"
      BY <2>3 DEF Facts, IInv, Typed, OperationInv, Written, Moving
    <3>2. \A u \in Threads \ {t} : x \notin Written(op[u]) /\ op'[u] = op[u]
      BY <3>1 DEF Facts, IInv, Typed, OperationInv, Exclusive, Used, Written
    <3>3. ~Pending(x) /\ Moving(x) = {}
      <4>1. op[t].stage # "acquire" /\ op[t].kind # "moveassign"
        BY <3>1 DEF Facts, IInv, Typed, OperationInv
      <4>2. \A u \in Threads \ {t} : op[u] # Idle => op[u].dst # x
        BY <3>2 DEF Facts, IInv, Typed, Operation, Written
      <4>3. \A u \in Threads \ {t} : op[u].kind = "moveassign" => x \notin {op[u].dst, op[u].src}
        BY <3>2 DEF Written
      <4>4. QED
        BY <4>1, <4>2, <4>3 DEF Pending, Moving, At
    <3>4. ~Pending(x)' /\ Moving(x)' = {}
      <4>1. op'[t] = Idle \/ (op'[t].stage # "acquire" /\ op'[t].kind = op[t].kind)
        BY DEF Facts, IInv, Typed, OperationInv
      <4>2. \A u \in Threads \ {t} : op'[u] # Idle => op'[u].dst # x
        BY <3>2 DEF Facts, IInv, Typed, Operation, Written
      <4>3. \A u \in Threads \ {t} : op'[u].kind = "moveassign" => x \notin {op'[u].dst, op'[u].src}
        BY <3>2 DEF Written
      <4>4. QED
        BY <3>1, <4>1, <4>2, <4>3 DEF Pending, Moving, At
    <3>5. View(ref[x])' = View(ref[x])
      BY <1>1, ViewKept DEF Facts, IInv, Typed, OperationInv, LiveViews
    <3>6. QED
      BY <3>3, <3>4, <3>5 DEF Facts, ShowingFacts
  <2>4. QED
    BY <2>1, <2>2, <2>3
<1>3. QED
  BY <1>2 DEF Shown

HIDE DEF Thunks, RefValue, Shared, Absent, NullRef, Literal, Idle, Operation, Counted, Object

(* Reference counted strings implement strings: sharing a block is never   *)
(* seen by anybody, for any number of threads, objects and blocks.         *)
THEOREM StringRefImplementsValues == Spec => MessagesAreValues
<1>1. Init => Messages!Init
  <2> SUFFICES ASSUME Init PROVE Messages!Init
    OBVIOUS
  <2>1. ASSUME NEW r \in Refs PROVE Showing(r) = "absent"
    BY InitEstablishes, ShowingIsDetermined, ViewValues DEF Init, ShowingFacts, Written, Idle
  <2>2. QED
    BY <2>1 DEF Messages!Init
<1>2. IInv => Facts
  BY ViewsAreLive, ShowingIsDetermined DEF Facts
<1>3. Facts /\ Facts' /\ [Next]_vars => [Messages!Next]_Shown
  <2> SUFFICES ASSUME Facts, Facts', [Next]_vars
               PROVE  Messages!Next \/ UNCHANGED Shown
    OBVIOUS
  <2>1. ASSUME NEW t \in Threads, Begin(t) PROVE Messages!Next \/ UNCHANGED Shown
    BY <2>1, MakeStaticRefines, MakeSharedRefines, DestroyRefines, CopyConstructRefines,
       CopyAssignRefines,
       MoveConstructRefines, MoveAssignRefines DEF Begin, Messages!Next
  <2>2. ASSUME NEW t \in Threads, Proceed(t) PROVE Messages!Next \/ UNCHANGED Shown
    <3>1. Acquire(t) => op[t].dst \in Refs /\ op[t].src \in Refs
      BY DEF Acquire, Facts, IInv, Typed, OperationInv, Operation
    <3>2. QED
      BY <2>2, <3>1, AcquireRefines, AcquireFailsRefines, DropStutters, FreeBlockStutters,
         FinishMoveRefines
         DEF Proceed, Messages!Next
  <2>3. CASE UNCHANGED vars
    BY <2>3 DEF vars, Shown, Showing, Pending, Moving, At, View
  <2>4. QED
    BY <2>1, <2>2, <2>3 DEF Next
<1>4. QED
  BY <1>1, <1>2, <1>3, Invariance, PTL DEF Spec, MessagesAreValues, Messages!Spec, Shown

-------------------------------------------------------------------------------
(* The memory ordering. *)
LEMMA OrderStepRefines ==
  ASSUME NEW t \in Threads, OrderStep(t)
  PROVE  Next \/ UNCHANGED vars
BY DEF OrderStep, OrderFree, ReadText, Next, Proceed

(* Which uses happen before which decides nothing about the strings: with  *)
(* the history of the uses they behave as without, so that each theorem    *)
(* above holds where the uses are recorded, and reads are among them.      *)
THEOREM OrderRefines == OrderSpec => Spec
<1>1. OrderInit => Init
  BY DEF OrderInit
<1>2. [OrderNext]_<<vars, orderVars>> => [Next]_vars
  BY OrderStepRefines DEF OrderNext
<1>3. QED
  BY <1>1, <1>2, PTL DEF OrderSpec, Spec

(* What a thread used itself happens before what it does next. *)
OwnUsesKnown ==
  /\ uses \subseteq Blocks \X Threads
  /\ \A b \in Blocks, t \in Threads : <<b, t>> \in uses => <<b, t>> \in knows[t]
  /\ DOMAIN knows = Threads

LEMMA OrderKeepsOwnUses ==
  ASSUME OwnUsesKnown, NEW t \in Threads, NEW R, NEW B \in SUBSET Blocks, Order(t, R, B)
  PROVE  OwnUsesKnown'
<1> DEFINE new == B \X {t}
           seen == knows[t] \cup UNION {passedOn[r] : r \in R}
<1>1. /\ uses' = uses \cup new
      /\ knows' = [u \in Threads |-> IF u = t THEN seen \cup new ELSE knows[u] \ new]
  BY DEF Order
<1>2. new \subseteq Blocks \X {t} /\ knows[t] \subseteq seen
  OBVIOUS
<1> HIDE DEF new, seen
<1>3. uses' \subseteq Blocks \X Threads
  BY <1>1, <1>2 DEF OwnUsesKnown
<1>4. ASSUME NEW b \in Blocks, NEW u \in Threads, <<b, u>> \in uses'
      PROVE  <<b, u>> \in knows'[u]
  BY <1>1, <1>2, <1>4 DEF OwnUsesKnown
<1>5. QED
  BY <1>1, <1>3, <1>4 DEF OwnUsesKnown

LEMMA OrderFreeKeepsOwnUses ==
  ASSUME OwnUsesKnown, NEW t \in Threads, OrderFree(t)
  PROVE  OwnUsesKnown'
BY DEF OrderFree, OwnUsesKnown

(* The uses that another thread's free() may overtake are never the own    *)
(* ones: of the uses of a block, a thread about to free it has missed only *)
(* those of other threads.                                                 *)
OwnUsesPrecedeFree ==
  \A t \in Threads : At(t, {"free"}) /\ op[t].victim.thunk = "counted" =>
    {x \in uses : x[1] = op[t].victim.msg /\ x[2] = t} \subseteq knows[t]

LEMMA OwnUsesStayKnown == OrderSpec => [](IInv /\ OwnUsesKnown)
<1>1. OrderInit => OwnUsesKnown
  BY DEF OrderInit, OwnUsesKnown
<1>2. IInv /\ OwnUsesKnown /\ [OrderNext]_<<vars, orderVars>> => OwnUsesKnown'
  <2> SUFFICES ASSUME IInv, OwnUsesKnown, [OrderNext]_<<vars, orderVars>> PROVE OwnUsesKnown'
    OBVIOUS
  <2>1. ASSUME NEW t \in Threads, Order(t, Touched(t), UsedBlocks(t)) PROVE OwnUsesKnown'
    BY <2>1, OrderKeepsOwnUses DEF UsedBlocks
  <2>2. ASSUME NEW t \in Threads, NEW r \in Refs, ReadText(t, r) PROVE OwnUsesKnown'
    <3>1. ref[r].msg \in Blocks
      BY <2>2 DEF ReadText, IInv, Typed, RefValue, Shared, Counted, Thunks, Absent, NullRef, Literal
    <3>2. Order(t, {r}, {ref[r].msg})
      BY <2>2 DEF ReadText
    <3>3. QED
      BY <3>1, <3>2, OrderKeepsOwnUses
  <2>3. CASE UNCHANGED <<vars, orderVars>>
    BY <2>3 DEF orderVars, OwnUsesKnown
  <2>4. QED
    BY <2>1, <2>2, <2>3, OrderFreeKeepsOwnUses DEF OrderNext, OrderStep
<1>3. QED
  BY <1>1, <1>2, Invariance, OrderRefines, PTL DEF OrderSpec

(* The counter orders nothing, but needs to order only what other threads  *)
(* did: what a thread itself read or wrote in a block precedes its free(). *)
THEOREM OwnUsesPrecede == OrderSpec => []OwnUsesPrecedeFree
<1>1. OwnUsesKnown => OwnUsesPrecedeFree
  BY DEF OwnUsesKnown, OwnUsesPrecedeFree
<1>2. QED
  BY <1>1, OwnUsesStayKnown, PTL

(* So the release without an acquire is sound in a program of one thread:  *)
(* it takes two threads to violate what the run string_ref_order refutes.  *)
THEOREM OneThreadFreesSafely ==
  ASSUME \A t, u \in Threads : t = u
  PROVE  OrderSpec => []FreeAfterAllUses
<1>1. OwnUsesKnown => FreeAfterAllUses
  BY DEF OwnUsesKnown, FreeAfterAllUses
<1>2. QED
  BY <1>1, OwnUsesStayKnown, PTL
===============================================================================
