---------------------------- MODULE ErasedCodeProofs ---------------------------
(***************************************************************************)
(* Proofs about ErasedCode for any number of codes, heap cells and values. *)
(***************************************************************************)
EXTENDS ErasedCode, TLAPS

(* The operation in progress has its raw cell to itself, its destination   *)
(* does not exist yet and its source still holds a payload.                *)
PendingIsExclusive ==
  pending # Idle =>
    /\ heap[pending.cell] = RawCell
    /\ ~Alive(pending.dst)
    /\ pending.op \in CopyOps => domain[pending.src] = "nested"

(* Ownership alone is not inductive: that a fresh payload has no owner yet *)
(* follows from the owned ones being built, and that a failing constructor *)
(* frees only its own cell from the cell being raw.                        *)
IInv ==
  /\ TypeOK
  /\ OneOwner
  /\ OwnedIsBuilt
  /\ RawIsPending
  /\ PendingIsExclusive
  /\ LostOnlyByOverwrite

-------------------------------------------------------------------------------
(* Every operation that makes a code without a payload. *)
LEMMA FlatPutPreserves ==
  ASSUME IInv, NEW c \in Codes, NEW d \in {"null", "plain", "wide"}, NEW v \in Vals \cup Cells \cup {Nil},
         d # "null" => v \in Vals, d = "wide" => c \in Large,
         Calm, ~Alive(c), Put(c, d, v), UNCHANGED <<heap, pending, overwritten, dead>>
  PROVE  IInv'
<1> USE DisjointAssumption, NilAssumption DEF IInv, TypeOK, Calm, Put, Idle, CopyOps, Free, RawCell, Alive, Built, Owns
<1>1. TypeOK'
  OBVIOUS
<1>2. OneOwner'
  BY DEF OneOwner, OwnedIsBuilt
<1>3. OwnedIsBuilt'
  BY DEF OneOwner, OwnedIsBuilt
<1>4. RawIsPending'
  BY DEF OneOwner, OwnedIsBuilt, RawIsPending
<1>5. PendingIsExclusive'
  BY DEF OneOwner, OwnedIsBuilt, PendingIsExclusive
<1>6. LostOnlyByOverwrite'
  BY DEF OneOwner, OwnedIsBuilt, LostOnlyByOverwrite
<1>7. QED
  BY <1>1, <1>2, <1>3, <1>4, <1>5, <1>6

LEMMA MakeNestedPreserves ==
  ASSUME IInv, NEW c \in Codes, NEW v \in Vals, MakeNested(c, v)
  PROVE  IInv'
<1> USE DisjointAssumption, NilAssumption DEF IInv, TypeOK, MakeNested, Calm, Put, Idle, CopyOps, Free, RawCell, Alive, Built, Owns
<1>1. TypeOK'
  OBVIOUS
<1>2. OneOwner'
  BY DEF OneOwner, OwnedIsBuilt
<1>3. OwnedIsBuilt'
  BY DEF OneOwner, OwnedIsBuilt
<1>4. RawIsPending'
  BY DEF OneOwner, OwnedIsBuilt, RawIsPending
<1>5. PendingIsExclusive'
  BY DEF OneOwner, OwnedIsBuilt, PendingIsExclusive
<1>6. LostOnlyByOverwrite'
  BY DEF OneOwner, OwnedIsBuilt, LostOnlyByOverwrite
<1>7. QED
  BY <1>1, <1>2, <1>3, <1>4, <1>5, <1>6

LEMMA CopyNestedPreserves ==
  ASSUME IInv, NEW c \in Codes, NEW d \in Codes, NEW o \in CopyOps, CopyNested(o, c, d)
  PROVE  IInv'
<1> USE DisjointAssumption, NilAssumption DEF IInv, TypeOK, CopyNested, Calm, Put, Idle, CopyOps, Free, RawCell, Alive, Built, Owns
<1>1. TypeOK'
  OBVIOUS
<1>2. OneOwner'
  BY DEF OneOwner, OwnedIsBuilt
<1>3. OwnedIsBuilt'
  BY DEF OneOwner, OwnedIsBuilt
<1>4. RawIsPending'
  BY DEF OneOwner, OwnedIsBuilt, RawIsPending
<1>5. PendingIsExclusive'
  BY DEF OneOwner, OwnedIsBuilt, PendingIsExclusive
<1>6. LostOnlyByOverwrite'
  BY DEF OneOwner, OwnedIsBuilt, LostOnlyByOverwrite
<1>7. QED
  BY <1>1, <1>2, <1>3, <1>4, <1>5, <1>6

LEMMA CopyNestedNoMemoryPreserves ==
  ASSUME IInv, NEW c \in Codes, NEW d \in Codes, CopyNestedNoMemory(c, d)
  PROVE  IInv'
<1> USE DisjointAssumption, NilAssumption DEF IInv, TypeOK, CopyNestedNoMemory, Calm, Put, Idle, CopyOps, Free, RawCell, Alive, Built, Owns
<1>1. TypeOK'
  OBVIOUS
<1>2. OneOwner'
  BY DEF OneOwner, OwnedIsBuilt
<1>3. OwnedIsBuilt'
  BY DEF OneOwner, OwnedIsBuilt
<1>4. RawIsPending'
  BY DEF OneOwner, OwnedIsBuilt, RawIsPending
<1>5. PendingIsExclusive'
  BY DEF OneOwner, OwnedIsBuilt, PendingIsExclusive
<1>6. LostOnlyByOverwrite'
  BY DEF OneOwner, OwnedIsBuilt, LostOnlyByOverwrite
<1>7. QED
  BY <1>1, <1>2, <1>3, <1>4, <1>5, <1>6

(* What the operation in progress works with. *)
LEMMA PendingFacts ==
  ASSUME IInv, pending # Idle
  PROVE  /\ pending.cell \in Cells /\ pending.dst \in Codes
         /\ heap[pending.cell] = RawCell
         /\ domain[pending.dst] = "unborn"
         /\ IF pending.op = "make" THEN pending.val \in Vals
            ELSE pending.src \in Codes /\ heap[value[pending.src]] \in Vals
<1>1. pending \in [op : {"make"}, dst : Codes, cell : Cells, val : Vals]
                     \cup [op : CopyOps, dst : Codes, cell : Cells, src : Codes]
  BY DEF IInv, TypeOK, Idle
<1>2. CASE pending \in [op : {"make"}, dst : Codes, cell : Cells, val : Vals]
  BY <1>2 DEF IInv, PendingIsExclusive, Alive
<1>3. CASE pending \in [op : CopyOps, dst : Codes, cell : Cells, src : Codes]
  BY <1>3 DEF IInv, PendingIsExclusive, OwnedIsBuilt, Built, Alive, CopyOps
<1>4. QED
  BY <1>1, <1>2, <1>3

(* The new payload is built in a cell nobody owns. *)
LEMMA PayloadBuiltPreserves ==
  ASSUME IInv, PayloadBuilt
  PROVE  IInv'
<1> DEFINE p == pending.cell
           c == pending.dst
           v == IF pending.op = "make" THEN pending.val ELSE heap[value[pending.src]]
<1>1. p \in Cells /\ c \in Codes /\ v \in Vals /\ heap[p] = RawCell /\ domain[c] = "unborn"
  BY PendingFacts DEF PayloadBuilt
<1>2. /\ heap' = [heap EXCEPT ![p] = v]
      /\ domain' = [domain EXCEPT ![c] = "nested"]
      /\ value' = [value EXCEPT ![c] = p]
      /\ pending' = Idle /\ ~dead /\ UNCHANGED <<overwritten, dead>>
      /\ pending # Idle
  BY DEF PayloadBuilt, Put
<1> HIDE DEF p, c, v
<1> USE <1>1, <1>2, DisjointAssumption DEF IInv, TypeOK, Alive, Built, Owns, Idle, RawCell, Free
<1>3. TypeOK'
  OBVIOUS
<1>4. OneOwner'
  BY DEF OneOwner, OwnedIsBuilt
<1>5. OwnedIsBuilt'
  BY DEF OwnedIsBuilt
<1>6. RawIsPending'
  BY DEF RawIsPending, p
<1>7. PendingIsExclusive'
  BY DEF PendingIsExclusive
<1>8. LostOnlyByOverwrite'
  BY DEF LostOnlyByOverwrite
<1>9. QED
  BY <1>3, <1>4, <1>5, <1>6, <1>7, <1>8

(* The cell that is given back was raw, hence not owned. *)
LEMMA PayloadThrowsPreserves ==
  ASSUME IInv, PayloadThrows
  PROVE  IInv'
<1> DEFINE p == pending.cell
           c == pending.dst
<1>1. p \in Cells /\ c \in Codes /\ heap[p] = RawCell /\ domain[c] = "unborn"
  BY PendingFacts DEF PayloadThrows
<1>2. /\ heap' = [heap EXCEPT ![p] = Free]
      /\ \/ Put(c, "null", Nil)
         \/ UNCHANGED <<domain, value>>
      /\ pending' = Idle /\ dead' \in BOOLEAN /\ ~dead /\ UNCHANGED overwritten
      /\ pending # Idle
  BY DEF PayloadThrows
<1> HIDE DEF p, c
<1> USE <1>1, <1>2, DisjointAssumption DEF IInv, TypeOK, Put, Alive, Built, Owns, Idle, RawCell, Free
<1>3. TypeOK'
  OBVIOUS
<1>4. OneOwner'
  BY DEF OneOwner
<1>5. OwnedIsBuilt'
  BY DEF OwnedIsBuilt
<1>6. RawIsPending'
  BY DEF RawIsPending, p
<1>7. PendingIsExclusive'
  BY DEF PendingIsExclusive
<1>8. LostOnlyByOverwrite'
  BY DEF LostOnlyByOverwrite
<1>9. QED
  BY <1>3, <1>4, <1>5, <1>6, <1>7, <1>8

LEMMA MoveConstructPreserves ==
  ASSUME IInv, NEW c \in Codes, NEW d \in Codes, MoveConstruct(c, d)
  PROVE  IInv'
<1> USE DisjointAssumption, NilAssumption DEF IInv, TypeOK, MoveConstruct, Calm, Put, Idle, CopyOps, Free, RawCell, Alive, Built, Owns
<1>1. TypeOK'
  OBVIOUS
<1>2. OneOwner'
  BY DEF OneOwner, OwnedIsBuilt
<1>3. OwnedIsBuilt'
  BY DEF OneOwner, OwnedIsBuilt
<1>4. RawIsPending'
  BY DEF OneOwner, OwnedIsBuilt, RawIsPending
<1>5. PendingIsExclusive'
  BY DEF OneOwner, OwnedIsBuilt, PendingIsExclusive
<1>6. LostOnlyByOverwrite'
  BY DEF OneOwner, OwnedIsBuilt, LostOnlyByOverwrite
<1>7. QED
  BY <1>1, <1>2, <1>3, <1>4, <1>5, <1>6

LEMMA MoveAssignPreserves ==
  ASSUME IInv, NEW c \in Codes, NEW d \in Codes, MoveAssign(c, d)
  PROVE  IInv'
<1> USE DisjointAssumption, NilAssumption DEF IInv, TypeOK, MoveAssign, Calm, Put, Idle, CopyOps, Free, RawCell, Alive, Built, Owns
<1>1. TypeOK'
  OBVIOUS
<1>2. OneOwner'
  BY DEF OneOwner, OwnedIsBuilt
<1>3. OwnedIsBuilt'
  BY DEF OneOwner, OwnedIsBuilt
<1>4. RawIsPending'
  BY DEF OneOwner, OwnedIsBuilt, RawIsPending
<1>5. PendingIsExclusive'
  BY DEF OneOwner, OwnedIsBuilt, PendingIsExclusive
<1>6. LostOnlyByOverwrite'
  BY DEF OneOwner, OwnedIsBuilt, LostOnlyByOverwrite
<1>7. QED
  BY <1>1, <1>2, <1>3, <1>4, <1>5, <1>6

LEMMA ClearPreserves ==
  ASSUME IInv, NEW c \in Codes, Clear(c)
  PROVE  IInv'
<1> USE DisjointAssumption, NilAssumption DEF IInv, TypeOK, Clear, Calm, Put, Idle, CopyOps, Free, RawCell, Alive, Built, Owns
<1>1. TypeOK'
  OBVIOUS
<1>2. OneOwner'
  BY DEF OneOwner, OwnedIsBuilt
<1>3. OwnedIsBuilt'
  BY DEF OneOwner, OwnedIsBuilt
<1>4. RawIsPending'
  BY DEF OneOwner, OwnedIsBuilt, RawIsPending
<1>5. PendingIsExclusive'
  BY DEF OneOwner, OwnedIsBuilt, PendingIsExclusive
<1>6. LostOnlyByOverwrite'
  BY DEF OneOwner, OwnedIsBuilt, LostOnlyByOverwrite
<1>7. QED
  BY <1>1, <1>2, <1>3, <1>4, <1>5, <1>6

LEMMA ModifyNestedPreserves ==
  ASSUME IInv, NEW c \in Codes, NEW v \in Vals, ModifyNested(c, v)
  PROVE  IInv'
<1> USE DisjointAssumption, NilAssumption DEF IInv, TypeOK, ModifyNested, Calm, Put, Idle, CopyOps, Free, RawCell, Alive, Built, Owns
<1>1. TypeOK'
  OBVIOUS
<1>2. OneOwner'
  BY DEF OneOwner, OwnedIsBuilt
<1>3. OwnedIsBuilt'
  BY DEF OneOwner, OwnedIsBuilt
<1>4. RawIsPending'
  BY DEF OneOwner, OwnedIsBuilt, RawIsPending
<1>5. PendingIsExclusive'
  BY DEF OneOwner, OwnedIsBuilt, PendingIsExclusive
<1>6. LostOnlyByOverwrite'
  BY DEF OneOwner, OwnedIsBuilt, LostOnlyByOverwrite
<1>7. QED
  BY <1>1, <1>2, <1>3, <1>4, <1>5, <1>6

LEMMA DestroyPreserves ==
  ASSUME IInv, NEW c \in Codes, Destroy(c)
  PROVE  IInv'
<1> USE DisjointAssumption, NilAssumption DEF IInv, TypeOK, Destroy, Calm, Put, Idle, CopyOps, Free, RawCell, Alive, Built, Owns
<1>1. TypeOK'
  OBVIOUS
<1>2. OneOwner'
  BY DEF OneOwner, OwnedIsBuilt
<1>3. OwnedIsBuilt'
  BY DEF OneOwner, OwnedIsBuilt
<1>4. RawIsPending'
  BY DEF OneOwner, OwnedIsBuilt, RawIsPending
<1>5. PendingIsExclusive'
  BY DEF OneOwner, OwnedIsBuilt, PendingIsExclusive
<1>6. LostOnlyByOverwrite'
  BY DEF OneOwner, OwnedIsBuilt, LostOnlyByOverwrite
<1>7. QED
  BY <1>1, <1>2, <1>3, <1>4, <1>5, <1>6

-------------------------------------------------------------------------------
LEMMA InitEstablishes == Init => IInv
BY NilAssumption, DisjointAssumption DEF Init, IInv, TypeOK, OneOwner, OwnedIsBuilt, RawIsPending, PendingIsExclusive,
   LostOnlyByOverwrite, Owns, Built, Alive, Free, RawCell, Idle

LEMMA StepPreserves == IInv /\ [Next]_vars => IInv'
<1> SUFFICES ASSUME IInv, [Next]_vars
             PROVE  IInv'
  OBVIOUS
<1>1. ASSUME NEW c \in Codes, DefaultConstruct(c)
      PROVE  IInv'
  BY <1>1, FlatPutPreserves, NilAssumption DEF DefaultConstruct
<1>2. ASSUME NEW c \in Codes, NEW v \in Vals, NEW d \in {"plain", "wide"}, FromTyped(c, d, v)
      PROVE  IInv'
  BY <1>2, FlatPutPreserves DEF FromTyped
<1>3. ASSUME NEW c \in Codes, NEW d \in Codes, NEW o \in CopyOps, CopyPlain(o, c, d)
      PROVE  IInv'
  <2>1. value[d] \in Vals /\ (domain[d] = "wide" => c \in Large)
    BY <1>3 DEF CopyPlain, IInv, TypeOK, Fits, Refused
  <2>2. Calm /\ ~Alive(c) /\ Put(c, domain[d], value[d]) /\ UNCHANGED <<heap, pending, overwritten, dead>>
    BY <1>3 DEF CopyPlain
  <2>3. domain[d] \in {"null", "plain", "wide"}
    BY <1>3 DEF CopyPlain
  <2>4. QED
    BY <2>1, <2>2, <2>3, FlatPutPreserves
<1>4. ASSUME NEW c \in Codes, NEW d \in Codes, CopyRefused(c, d) \/ CloneEmpty(c, d)
      PROVE  IInv'
  BY <1>4, FlatPutPreserves DEF CopyRefused, CloneEmpty
<1>5. ASSUME NEW c \in Codes, Clear(c) \/ Destroy(c)
      PROVE  IInv'
  BY <1>5, ClearPreserves, DestroyPreserves
<1>6. ASSUME NEW c \in Codes, NEW v \in Vals, MakeNested(c, v) \/ ModifyNested(c, v)
      PROVE  IInv'
  BY <1>6, MakeNestedPreserves, ModifyNestedPreserves
<1>7. ASSUME NEW c \in Codes, NEW d \in Codes, NEW o \in CopyOps, CopyNested(o, c, d)
      PROVE  IInv'
  BY <1>7, CopyNestedPreserves
<1>8. ASSUME NEW c \in Codes, NEW d \in Codes,
             CopyNestedNoMemory(c, d) \/ MoveConstruct(c, d) \/ MoveAssign(c, d)
      PROVE  IInv'
  BY <1>8, CopyNestedNoMemoryPreserves, MoveConstructPreserves, MoveAssignPreserves
<1>9. CASE PayloadBuilt \/ PayloadThrows
  BY <1>9, PayloadBuiltPreserves, PayloadThrowsPreserves
<1>10. CASE UNCHANGED vars
  BY <1>10 DEF vars, IInv, TypeOK, OneOwner, OwnedIsBuilt, RawIsPending, PendingIsExclusive,
     LostOnlyByOverwrite, Owns, Built, Alive
<1>11. QED
  BY <1>1, <1>2, <1>3, <1>4, <1>5, <1>6, <1>7, <1>8, <1>9, <1>10 DEF Next

-------------------------------------------------------------------------------
(* The inductive invariant holds of every behaviour. *)
THEOREM Invariance == Spec => []IInv
BY InitEstablishes, StepPreserves, PTL DEF Spec

(* Every variable has its type; a code's value fits its storage. *)
THEOREM TypeCorrect == Spec => []TypeOK
<1>1. IInv => TypeOK
  BY DEF IInv
<1>2. QED
  BY <1>1, Invariance, PTL

(* No payload is destroyed twice: it never has two owners. *)
THEOREM PayloadHasOneOwner == Spec => []OneOwner
<1>1. IInv => OneOwner
  BY DEF IInv
<1>2. QED
  BY <1>1, Invariance, PTL

(* No code dangles: what a nested code points at is a built payload. *)
THEOREM NestedCodesAreBacked == Spec => []OwnedIsBuilt
<1>1. IInv => OwnedIsBuilt
  BY DEF IInv
<1>2. QED
  BY <1>1, Invariance, PTL

(* A payload constructor that throws leaks no memory. *)
THEOREM ThrowingLeaksNothing == Spec => []RawIsPending
<1>1. IInv => RawIsPending
  BY DEF IInv
<1>2. QED
  BY <1>1, Invariance, PTL

(* Move assignment and clear() are the only ways to lose a payload. *)
THEOREM OnlyOverwritingLeaks == Spec => []LostOnlyByOverwrite
<1>1. IInv => LostOnlyByOverwrite
  BY DEF IInv
<1>2. QED
  BY <1>1, Invariance, PTL
-------------------------------------------------------------------------------
(* Refinement.  A step of the code changes what at most two codes hold.    *)
H == [c \in Codes |-> HeldBy(c)]
Holds(c, x) == H' = [H EXCEPT ![c] = x]

(* What a code holds follows from its domain, its value and, for a nested  *)
(* one, its payload.                                                       *)
LEMMA HeldFacts ==
  ASSUME NEW c \in Codes
  PROVE  /\ H[c] = HeldBy(c)
         /\ domain[c] = "unborn" => HeldBy(c) = [kind |-> "unborn"]
         /\ domain[c] = "null" => HeldBy(c) = [kind |-> "empty"]
         /\ domain[c] \in {"plain", "wide"} => HeldBy(c) = [kind |-> domain[c], val |-> value[c]]
         /\ domain[c] = "nested" => HeldBy(c) = [kind |-> "nested", val |-> heap[value[c]]]
BY DEF H, HeldBy

(* A code holds the same when its members and its payload stay.            *)
LEMMA HeldUnchanged ==
  ASSUME NEW c \in Codes, domain'[c] = domain[c], value'[c] = value[c],
         domain[c] = "nested" => heap'[value[c]] = heap[value[c]]
  PROVE  HeldBy(c)' = HeldBy(c)
BY DEF HeldBy

LEMMA UnbornIff ==
  ASSUME IInv, NEW c \in Codes
  PROVE  /\ H[c] = Values!Unborn <=> ~Alive(c)
         /\ H[c] = Values!Empty <=> domain[c] = "null"
         /\ domain[c] = "nested" <=> H[c].kind = "nested"
         /\ domain[c] = "wide" => H[c].kind = "wide"
<1>1. domain[c] \in {"unborn", "null", "plain", "wide", "nested"}
  BY DEF IInv, TypeOK
<1>2. QED
  BY <1>1, HeldFacts DEF Values!Unborn, Values!Empty, Alive

(* Making a code that owns nothing. *)
LEMMA HeldAfterPut ==
  ASSUME IInv, NEW c \in Codes, NEW d \in {"unborn", "null", "plain", "wide"}, NEW v,
         Put(c, d, v),
         \A x \in Codes \ {c} : domain[x] = "nested" => heap'[value[x]] = heap[value[x]]
  PROVE  Holds(c, CASE d = "unborn" -> Values!Unborn
                    [] d = "null" -> Values!Empty
                    [] OTHER -> [kind |-> d, val |-> v])
<1> DEFINE X == CASE d = "unborn" -> Values!Unborn
                  [] d = "null" -> Values!Empty
                  [] OTHER -> [kind |-> d, val |-> v]
<1>1. ASSUME NEW x \in Codes, x # c
      PROVE  HeldBy(x)' = HeldBy(x)
  BY <1>1, HeldUnchanged DEF Put, IInv, TypeOK
<1>2. HeldBy(c)' = X
  BY DEF Put, IInv, TypeOK, HeldBy, Values!Unborn, Values!Empty
<1>3. QED
  BY <1>1, <1>2 DEF Holds, H

(* Every step of the code is a step of CodeValues, or none. *)
LEMMA ConstructRefines ==
  ASSUME IInv, NEW c \in Codes,
         DefaultConstruct(c) \/ \E v \in Vals, d \in {"plain", "wide"} : FromTyped(c, d, v)
  PROVE  Values!Construct(c) /\ UNCHANGED dead
<1>1. H[c] = Values!Unborn
  BY UnbornIff DEF DefaultConstruct, FromTyped
<1>2. CASE DefaultConstruct(c)
  <2>1. Holds(c, Values!Empty)
    BY <1>2, HeldAfterPut DEF DefaultConstruct
  <2>2. QED
    BY <1>1, <1>2, <2>1 DEF Values!Construct, Holds, H, DefaultConstruct
<1>3. ASSUME NEW v \in Vals, NEW d \in {"plain", "wide"}, FromTyped(c, d, v)
      PROVE  Values!Construct(c) /\ UNCHANGED dead
  <2>1. Holds(c, [kind |-> d, val |-> v])
    BY <1>3, HeldAfterPut DEF FromTyped
  <2>2. [kind |-> d, val |-> v] \in {Values!Plain(v), Values!Wide(v), Values!Nested(v)}
    BY DEF Values!Plain, Values!Wide, Values!Nested
  <2>3. QED
    BY <1>1, <1>3, <2>1, <2>2 DEF Values!Construct, Holds, H, FromTyped
<1>4. QED
  BY <1>2, <1>3

LEMMA CopyRefines ==
  ASSUME IInv, NEW c \in Codes, NEW d \in Codes,
         \/ \E o \in CopyOps : CopyPlain(o, c, d)
         \/ CloneEmpty(c, d)
         \/ CopyRefused(c, d)
  PROVE  (Values!Copy(c, d) \/ Values!CopyFails(c, d)) /\ UNCHANGED dead
<1>1. H[c] = Values!Unborn
  BY UnbornIff DEF CopyPlain, CloneEmpty, CopyRefused
<1>2. ASSUME NEW o \in CopyOps, CopyPlain(o, c, d)
      PROVE  Values!Copy(c, d) /\ UNCHANGED dead
  <2>1. Holds(c, [kind |-> domain[d], val |-> value[d]])
    BY <1>2, HeldAfterPut DEF CopyPlain
  <2>2. H[d] = [kind |-> domain[d], val |-> value[d]] /\ H[d] # Values!Unborn
    BY <1>2, HeldFacts, UnbornIff DEF CopyPlain, Alive
  <2>3. QED
    BY <1>1, <1>2, <2>1, <2>2 DEF Values!Copy, Holds, H, CopyPlain
<1>3. CASE CloneEmpty(c, d)
  <2>1. Holds(c, Values!Empty)
    BY <1>3, HeldAfterPut DEF CloneEmpty
  <2>2. H[d] = Values!Empty /\ H[d] # Values!Unborn
    BY <1>3, UnbornIff DEF CloneEmpty, Alive
  <2>3. QED
    BY <1>1, <1>3, <2>1, <2>2 DEF Values!Copy, Holds, H, CloneEmpty
<1>4. CASE CopyRefused(c, d)
  <2>1. Holds(c, Values!Empty)
    BY <1>4, HeldAfterPut DEF CopyRefused
  <2>2. H[d].kind = "wide"
    BY <1>4, UnbornIff DEF CopyRefused, Refused
  <2>3. QED
    BY <1>1, <1>4, <2>1, <2>2 DEF Values!CopyFails, Holds, H, CopyRefused
<1>5. QED
  BY <1>2, <1>3, <1>4

(* Allocating a payload shows nothing yet: no code points at a free cell.  *)
LEMMA AllocationIsInvisible ==
  ASSUME IInv, NEW p \in Cells, heap[p] = Free, NEW z, heap' = [heap EXCEPT ![p] = z],
         UNCHANGED <<domain, value>>
  PROVE  H' = H
<1>1. ASSUME NEW x \in Codes
      PROVE  HeldBy(x)' = HeldBy(x)
  BY DisjointAssumption, HeldUnchanged DEF IInv, TypeOK, OwnedIsBuilt, Built, Free
<1>2. QED
  BY <1>1 DEF H

(* A payload appears where its operation promised it: in a new code, equal *)
(* to the value nested or to what the source of the copy holds.            *)
LEMMA PayloadBuiltRefines ==
  ASSUME IInv, PayloadBuilt
  PROVE  \E c \in Codes :
           /\ Values!Construct(c) \/ \E d \in Codes : Values!Copy(c, d)
           /\ UNCHANGED dead
<1>1. PICK p \in Cells, c \in Codes, v \in Vals :
        /\ heap[p] = RawCell /\ domain[c] = "unborn"
        /\ heap' = [heap EXCEPT ![p] = v]
        /\ domain' = [domain EXCEPT ![c] = "nested"]
        /\ value' = [value EXCEPT ![c] = p]
        /\ pending.op # "make" => v = heap[value[pending.src]]
  BY PendingFacts DEF PayloadBuilt, Put
<1>2. H[c] = Values!Unborn
  BY <1>1, UnbornIff DEF Alive
<1>3. Holds(c, Values!Nested(v))
  <2>1. ASSUME NEW x \in Codes, x # c
        PROVE  HeldBy(x)' = HeldBy(x)
    BY <1>1, <2>1, DisjointAssumption, HeldUnchanged
       DEF IInv, TypeOK, OwnedIsBuilt, Built, RawCell
  <2>2. HeldBy(c)' = Values!Nested(v)
    BY <1>1 DEF HeldBy, IInv, TypeOK, Values!Nested
  <2>3. QED
    BY <2>1, <2>2 DEF Holds, H
<1>4. CASE pending.op = "make"
  <2>1. Values!Nested(v) \in {Values!Plain(v), Values!Wide(v), Values!Nested(v)}
    OBVIOUS
  <2>2. QED
    BY <1>1, <1>2, <1>3, <2>1 DEF Values!Construct, Holds, H, PayloadBuilt
<1>5. CASE pending.op # "make"
  <2>1. pending.src \in Codes /\ domain[pending.src] = "nested"
    BY <1>5, PendingFacts DEF PayloadBuilt, IInv, TypeOK, PendingIsExclusive, Idle
  <2>2. H[pending.src] = Values!Nested(v) /\ H[pending.src] # Values!Unborn
    BY <1>1, <1>5, <2>1, HeldFacts, UnbornIff DEF Values!Nested, Alive
  <2>3. QED
    BY <1>1, <1>2, <1>3, <2>1, <2>2 DEF Values!Copy, Holds, H, PayloadBuilt
<1>6. QED
  BY <1>4, <1>5

(* A throwing constructor gives back a cell no code points at, and makes   *)
(* at most an empty code.                                                  *)
LEMMA PayloadThrowsRefines ==
  ASSUME IInv, PayloadThrows
  PROVE  \/ \E c, d \in Codes : Values!CopyFails(c, d)
         \/ Values!Die
         \/ H' = H /\ UNCHANGED dead
<1>1. PICK p \in Cells, c \in Codes :
        /\ p = pending.cell /\ c = pending.dst
        /\ heap[p] = RawCell /\ domain[c] = "unborn"
        /\ heap' = [heap EXCEPT ![p] = Free]
  BY PendingFacts DEF PayloadThrows
<1>2. ASSUME NEW x \in Codes, domain[x] = "nested"
      PROVE  heap'[value[x]] = heap[value[x]]
  BY <1>1, <1>2, DisjointAssumption DEF IInv, TypeOK, OwnedIsBuilt, Built, RawCell
<1>3. CASE pending.op = "nothrow"
  <2>1. Holds(c, Values!Empty)
    BY <1>1, <1>2, <1>3, HeldAfterPut DEF PayloadThrows, IInv, TypeOK
  <2>2. pending.src \in Codes /\ domain[pending.src] = "nested"
    BY <1>3, PendingFacts DEF PayloadThrows, IInv, TypeOK, PendingIsExclusive, Idle, CopyOps
  <2>3. H[pending.src].kind = "nested" /\ H[c] = Values!Unborn
    BY <1>1, <2>2, UnbornIff DEF Alive
  <2>4. dead = FALSE /\ dead' = FALSE
    BY <1>3 DEF PayloadThrows, IInv, TypeOK
  <2>5. QED
    BY <2>1, <2>2, <2>3, <2>4 DEF Values!CopyFails, Holds, H
<1>4. CASE pending.op # "nothrow"
  <2>1. \A x \in Codes : HeldBy(x)' = HeldBy(x)
    BY <1>2, <1>4, HeldUnchanged DEF PayloadThrows
  <2>2. H' = H
    BY <2>1 DEF H
  <2>3. dead = FALSE /\ dead' \in BOOLEAN
    BY DEF PayloadThrows, IInv, TypeOK
  <2>4. CASE dead' = TRUE
    BY <2>2, <2>3, <2>4 DEF Values!Die, H
  <2>5. CASE dead' = FALSE
    BY <2>2, <2>3, <2>5
  <2>6. QED
    BY <2>3, <2>4, <2>5
<1>5. QED
  BY <1>3, <1>4

LEMMA MoveRefines ==
  ASSUME IInv, NEW c \in Codes, NEW d \in Codes, MoveConstruct(c, d) \/ MoveAssign(c, d)
  PROVE  Values!MoveInto(c, d) /\ UNCHANGED dead
<1>1. /\ domain[d] # "unborn" /\ UNCHANGED <<heap, dead>>
      /\ domain' = [[domain EXCEPT ![c] = domain[d]] EXCEPT ![d] = "null"]
      /\ value' = [value EXCEPT ![c] = value[d]]
  BY DEF MoveConstruct, MoveAssign, Alive
<1>2. H[d] # Values!Unborn
  BY <1>1, UnbornIff DEF Alive
<1>3. ASSUME NEW x \in Codes, x # c, x # d
      PROVE  HeldBy(x)' = HeldBy(x)
  BY <1>1, <1>3, HeldUnchanged DEF IInv, TypeOK
<1>4. c # d => HeldBy(c)' = HeldBy(d)
  BY <1>1 DEF HeldBy, IInv, TypeOK
<1>5. HeldBy(d)' = Values!Empty
  BY <1>1 DEF HeldBy, IInv, TypeOK, Values!Empty
<1>6. H' = [H EXCEPT ![c] = H[d], ![d] = Values!Empty]
  BY <1>3, <1>4, <1>5 DEF H
<1>7. QED
  BY <1>1, <1>2, <1>6 DEF Values!MoveInto, H

LEMMA OverwriteRefines ==
  ASSUME IInv, NEW c \in Codes,
         Clear(c) \/ Destroy(c) \/ \E v \in Vals : ModifyNested(c, v)
  PROVE  (Values!Reset(c) \/ Values!Destroy(c) \/ Values!Modify(c)) /\ UNCHANGED dead
<1>1. CASE Clear(c)
  <2>1. Holds(c, Values!Empty) /\ H[c] # Values!Unborn
    BY <1>1, HeldAfterPut, UnbornIff DEF Clear
  <2>2. QED
    BY <1>1, <2>1 DEF Clear, Values!Reset, Holds, H
<1>2. CASE Destroy(c)
  <2>1. ASSUME NEW x \in Codes \ {c}, domain[x] = "nested"
        PROVE  heap'[value[x]] = heap[value[x]]
    BY <1>2, <2>1 DEF Destroy, IInv, TypeOK, OneOwner, OwnedIsBuilt, Owns
  <2>2. Holds(c, Values!Unborn) /\ H[c] # Values!Unborn
    BY <1>2, <2>1, HeldAfterPut, UnbornIff DEF Destroy
  <2>3. QED
    BY <1>2, <2>2 DEF Destroy, Values!Destroy, Holds, H
<1>3. ASSUME NEW v \in Vals, ModifyNested(c, v)
      PROVE  Values!Modify(c) /\ UNCHANGED dead
  <2>1. ASSUME NEW x \in Codes, x # c
        PROVE  HeldBy(x)' = HeldBy(x)
    BY <1>3, <2>1, HeldUnchanged DEF ModifyNested, IInv, TypeOK, OneOwner, OwnedIsBuilt, Owns
  <2>2. HeldBy(c)' = Values!Nested(v)
    BY <1>3 DEF ModifyNested, HeldBy, IInv, TypeOK, OwnedIsBuilt, Values!Nested
  <2>3. H' = [H EXCEPT ![c] = Values!Nested(v)] /\ H[c].kind = "nested"
    BY <1>3, <2>1, <2>2, UnbornIff DEF H, ModifyNested
  <2>4. QED
    BY <1>3, <2>3 DEF Values!Modify, H, ModifyNested
<1>4. QED
  BY <1>1, <1>2, <1>3

LEMMA AllocationRefines ==
  ASSUME IInv, NEW c \in Codes,
         \/ \E v \in Vals : MakeNested(c, v)
         \/ \E d \in Codes, o \in CopyOps : CopyNested(o, c, d)
  PROVE  H' = H /\ UNCHANGED dead
<1>1. PICK p \in Cells : heap[p] = Free /\ heap' = [heap EXCEPT ![p] = RawCell]
  BY DEF MakeNested, CopyNested
<1>2. QED
  BY <1>1, AllocationIsInvisible DEF MakeNested, CopyNested

LEMMA StepRefines == IInv /\ [Next]_vars => [Values!Next]_(Values!vars)
<1> SUFFICES ASSUME IInv, [Next]_vars
             PROVE  Values!Next \/ (H' = H /\ dead' = dead)
  BY DEF Values!vars, H
<1> USE DEF Values!Next
<1>1. ASSUME NEW c \in Codes,
             DefaultConstruct(c) \/ \E v \in Vals, d \in {"plain", "wide"} : FromTyped(c, d, v)
      PROVE  Values!Next
  BY <1>1, ConstructRefines
<1>2. ASSUME NEW c \in Codes, NEW d \in Codes,
             \/ \E o \in CopyOps : CopyPlain(o, c, d)
             \/ CloneEmpty(c, d)
             \/ CopyRefused(c, d)
      PROVE  Values!Next
  BY <1>2, CopyRefines
<1>3. ASSUME NEW c \in Codes,
             Clear(c) \/ Destroy(c) \/ \E v \in Vals : ModifyNested(c, v)
      PROVE  Values!Next
  BY <1>3, OverwriteRefines
<1>4. ASSUME NEW c \in Codes,
             \/ \E v \in Vals : MakeNested(c, v)
             \/ \E d \in Codes, o \in CopyOps : CopyNested(o, c, d)
      PROVE  H' = H /\ dead' = dead
  BY <1>4, AllocationRefines
<1>5. ASSUME NEW c \in Codes, NEW d \in Codes, MoveConstruct(c, d) \/ MoveAssign(c, d)
      PROVE  Values!Next
  BY <1>5, MoveRefines
<1>6. ASSUME NEW c \in Codes, NEW d \in Codes, CopyNestedNoMemory(c, d)
      PROVE  Values!Next
  BY <1>6, HeldUnchanged DEF CopyNestedNoMemory, Calm, Values!Die, HeldBy
<1>7. CASE PayloadBuilt
  BY <1>7, PayloadBuiltRefines
<1>8. CASE PayloadThrows
  BY <1>8, PayloadThrowsRefines DEF H
<1>9. CASE UNCHANGED vars
  BY <1>9 DEF vars, H, HeldBy
<1>10. QED
  BY <1>1, <1>2, <1>3, <1>4, <1>5, <1>6, <1>7, <1>8, <1>9 DEF Next

(* Erased codes implement values: clones are equal and independent, moves  *)
(* empty the source, and no operation on one code changes another, for any *)
(* number of codes and any heap.                                           *)
THEOREM CodesImplementValues == Spec => CodesAreValues
<1>1. Init => Values!Init
  BY DEF Init, Values!Init, HeldBy, Values!Unborn
<1>2. QED
  BY <1>1, Invariance, StepRefines, PTL DEF Spec, CodesAreValues, Values!Spec
===============================================================================
