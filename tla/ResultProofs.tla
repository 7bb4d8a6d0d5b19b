------------------------------ MODULE ResultProofs ------------------------------
(***************************************************************************)
(* Proofs about Result and ErroredCode for any number of variables,        *)
(* results and failures.                                                   *)
(***************************************************************************)
EXTENDS Result, FiniteSetTheorems, TLAPS

(* A code that is held is empty, a success or a failure made before.       *)
Contents == {"empty", "success"} \cup made

WellTyped ==
  /\ err \in [Errors -> Contents \cup {"unborn"}]
  /\ res \in [Results -> {Unborn, Valueless, Value} \cup {Error(x) : x \in Contents}]
  /\ made \subseteq Failures

(* OneHolder without counting.                                             *)
Alone == \A x \in made \ copied : \A p, q \in Holders(x) : p = q

(* Alone is inductive because a code that is constructed is fresh: nothing *)
(* holds a failure that was not made.                                      *)
IInv == WellTyped /\ Alone /\ NoFailureLost /\ FailuresOnly

-------------------------------------------------------------------------------
(* What every proof of a step uses.                                        *)
USE FailuresAssumption, ResultsAssumption, TypedAssumption
    DEF Lives, Put, Drop, There, Set, HasError, HasValue, DropHeld, Unborn, Valueless, Value,
        Error

(* One lemma per action. *)
LEMMA DefaultConstructPreserves ==
  ASSUME IInv, NEW e \in Errors, DefaultConstruct(e),
         UNCHANGED <<throughBase, res>>
  PROVE  IInv'
<1> USE DEF DefaultConstruct
<1>1. WellTyped'
  BY DEF IInv, WellTyped, Contents
<1>2. Alone'
  BY DEF IInv, WellTyped, Contents, Alone, Holders
<1>3. NoFailureLost'
  BY DEF IInv, WellTyped, Contents, NoFailureLost, Holders
<1>4. FailuresOnly'
  BY DEF IInv, WellTyped, Contents, FailuresOnly, Holders
<1>5. QED
  BY <1>1, <1>2, <1>3, <1>4 DEF IInv

LEMMA ConstructPreserves ==
  ASSUME IInv, NEW e \in Errors, NEW x \in Failures \cup {"success"},
         Construct(e, x), UNCHANGED <<throughBase, res>>
  PROVE  IInv'
<1> USE DEF Construct, Fresh, Checked, Successful, Make
<1>1. WellTyped'
  BY DEF IInv, WellTyped, Contents
<1>2. Alone'
  BY DEF IInv, WellTyped, Contents, Alone, Holders
<1>3. NoFailureLost'
  BY DEF IInv, WellTyped, Contents, NoFailureLost, Holders
<1>4. FailuresOnly'
  BY DEF IInv, WellTyped, Contents, FailuresOnly, Holders
<1>5. QED
  BY <1>1, <1>2, <1>3, <1>4 DEF IInv

LEMMA ConstructRefusedPreserves ==
  ASSUME IInv, NEW e \in Errors, ConstructRefused(e),
         UNCHANGED <<throughBase, res>>
  PROVE  IInv'
<1> USE DEF ConstructRefused, Checked, Successful
<1>1. WellTyped'
  BY DEF IInv, WellTyped, Contents
<1>2. Alone'
  BY DEF IInv, WellTyped, Contents, Alone, Holders
<1>3. NoFailureLost'
  BY DEF IInv, WellTyped, Contents, NoFailureLost, Holders
<1>4. FailuresOnly'
  BY DEF IInv, WellTyped, Contents, FailuresOnly, Holders
<1>5. QED
  BY <1>1, <1>2, <1>3, <1>4 DEF IInv

LEMMA CopyPreserves ==
  ASSUME IInv, NEW e \in Errors, NEW f \in Errors, Copy(e, f),
         UNCHANGED <<throughBase, res>>
  PROVE  IInv'
<1> USE DEF Copy, Checked, Successful
<1>1. WellTyped'
  BY DEF IInv, WellTyped, Contents
<1>2. Alone'
  BY DEF IInv, WellTyped, Contents, Alone, Holders
<1>3. NoFailureLost'
  BY DEF IInv, WellTyped, Contents, NoFailureLost, Holders
<1>4. FailuresOnly'
  BY DEF IInv, WellTyped, Contents, FailuresOnly, Holders
<1>5. QED
  BY <1>1, <1>2, <1>3, <1>4 DEF IInv

LEMMA MovePreserves ==
  ASSUME IInv, NEW e \in Errors, NEW f \in Errors, Move(e, f),
         UNCHANGED <<throughBase, res>>
  PROVE  IInv'
<1> USE DEF Move, Checked, Successful
<1>1. WellTyped'
  BY DEF IInv, WellTyped, Contents
<1>2. Alone'
  BY DEF IInv, WellTyped, Contents, Alone, Holders
<1>3. NoFailureLost'
  BY DEF IInv, WellTyped, Contents, NoFailureLost, Holders
<1>4. FailuresOnly'
  BY DEF IInv, WellTyped, Contents, FailuresOnly, Holders
<1>5. QED
  BY <1>1, <1>2, <1>3, <1>4 DEF IInv

LEMMA ClearPreserves ==
  ASSUME IInv, NEW e \in Errors, Clear(e), UNCHANGED <<throughBase, res>>
  PROVE  IInv'
<1> USE DEF Clear
<1>1. WellTyped'
  BY DEF IInv, WellTyped, Contents
<1>2. Alone'
  BY DEF IInv, WellTyped, Contents, Alone, Holders
<1>3. NoFailureLost'
  BY DEF IInv, WellTyped, Contents, NoFailureLost, Holders
<1>4. FailuresOnly'
  BY DEF IInv, WellTyped, Contents, FailuresOnly, Holders
<1>5. QED
  BY <1>1, <1>2, <1>3, <1>4 DEF IInv

LEMMA AssignThroughBasePreserves ==
  ASSUME IInv, NEW e \in Errors, NEW x \in Failures \cup {"success"},
         AssignThroughBase(e, x), UNCHANGED <<throughBase, res>>
  PROVE  IInv'
<1> USE DEF AssignThroughBase, Fresh, Make
<1>1. WellTyped'
  BY DEF IInv, WellTyped, Contents
<1>2. Alone'
  BY DEF IInv, WellTyped, Contents, Alone, Holders
<1>3. NoFailureLost'
  BY DEF IInv, WellTyped, Contents, NoFailureLost, Holders
<1>4. FailuresOnly'
  BY DEF IInv, WellTyped, Contents, FailuresOnly, Holders
<1>5. QED
  BY <1>1, <1>2, <1>3, <1>4 DEF IInv

LEMMA DestroyPreserves ==
  ASSUME IInv, NEW e \in Errors, Destroy(e), UNCHANGED <<throughBase, res>>
  PROVE  IInv'
<1> USE DEF Destroy
<1>1. WellTyped'
  BY DEF IInv, WellTyped, Contents
<1>2. Alone'
  BY DEF IInv, WellTyped, Contents, Alone, Holders
<1>3. NoFailureLost'
  BY DEF IInv, WellTyped, Contents, NoFailureLost, Holders
<1>4. FailuresOnly'
  BY DEF IInv, WellTyped, Contents, FailuresOnly, Holders
<1>5. QED
  BY <1>1, <1>2, <1>3, <1>4 DEF IInv

(* The steps of results. *)
LEMMA FromValuePreserves ==
  ASSUME IInv, NEW r \in Results, FromValue(r), UNCHANGED throughBase
  PROVE  IInv'
<1> USE DEF FromValue, errVars
<1>1. WellTyped'
  BY DEF IInv, WellTyped, Contents
<1>2. Alone'
  BY DEF IInv, WellTyped, Contents, Alone, Holders
<1>3. NoFailureLost'
  BY DEF IInv, WellTyped, Contents, NoFailureLost, Holders
<1>4. FailuresOnly'
  BY DEF IInv, WellTyped, Contents, FailuresOnly, Holders
<1>5. QED
  BY <1>1, <1>2, <1>3, <1>4 DEF IInv

LEMMA FromCodePreserves ==
  ASSUME IInv, NEW r \in Results, NEW x \in Failures \cup {"success"},
         FromCode(r, x), UNCHANGED throughBase
  PROVE  IInv'
<1> USE DEF FromCode, Fresh, Successful, Make, errVars
<1>1. WellTyped'
  <2>1. Contents \subseteq Contents'
    BY DEF Contents
  <2>2. res' = res \/ (res' = [res EXCEPT ![r] = Error(x)] /\ x \in Contents')
    BY DEF Contents
  <2>3. res' \in [Results -> {Unborn, Valueless, Value} \cup {Error(y) : y \in Contents'}]
    BY <2>1, <2>2 DEF IInv, WellTyped
  <2>4. QED
    BY <2>1, <2>3 DEF IInv, WellTyped
<1>2. Alone'
  BY DEF IInv, WellTyped, Contents, Alone, Holders
<1>3. NoFailureLost'
  BY DEF IInv, WellTyped, Contents, NoFailureLost, Holders
<1>4. FailuresOnly'
  BY DEF IInv, WellTyped, Contents, FailuresOnly, Holders
<1>5. QED
  BY <1>1, <1>2, <1>3, <1>4 DEF IInv

LEMMA FromErrorPreserves ==
  ASSUME IInv, NEW r \in Results, NEW e \in Errors, FromError(r, e),
         UNCHANGED throughBase
  PROVE  IInv'
<1> USE DEF FromError, errVars
<1>1. WellTyped'
  BY DEF IInv, WellTyped, Contents
<1>2. Alone'
  BY DEF IInv, WellTyped, Contents, Alone, Holders
<1>3. NoFailureLost'
  BY DEF IInv, WellTyped, Contents, NoFailureLost, Holders
<1>4. FailuresOnly'
  BY DEF IInv, WellTyped, Contents, FailuresOnly, Holders
<1>5. QED
  BY <1>1, <1>2, <1>3, <1>4 DEF IInv

LEMMA TakeErrorPreserves ==
  ASSUME IInv, NEW r \in Results, NEW e \in Errors, TakeError(r, e),
         UNCHANGED throughBase
  PROVE  IInv'
<1> USE DEF TakeError, errVars
<1>1. WellTyped'
  BY DEF IInv, WellTyped, Contents
<1>2. Alone'
  BY DEF IInv, WellTyped, Contents, Alone, Holders
<1>3. NoFailureLost'
  BY DEF IInv, WellTyped, Contents, NoFailureLost, Holders
<1>4. FailuresOnly'
  BY DEF IInv, WellTyped, Contents, FailuresOnly, Holders
<1>5. QED
  BY <1>1, <1>2, <1>3, <1>4 DEF IInv

LEMMA ClearErrorPreserves ==
  ASSUME IInv, NEW r \in Results, ClearError(r), UNCHANGED throughBase
  PROVE  IInv'
<1> USE DEF ClearError, errVars
<1>1. WellTyped'
  BY DEF IInv, WellTyped, Contents
<1>2. Alone'
  BY DEF IInv, WellTyped, Contents, Alone, Holders
<1>3. NoFailureLost'
  BY DEF IInv, WellTyped, Contents, NoFailureLost, Holders
<1>4. FailuresOnly'
  BY DEF IInv, WellTyped, Contents, FailuresOnly, Holders
<1>5. QED
  BY <1>1, <1>2, <1>3, <1>4 DEF IInv

LEMMA MoveResultPreserves ==
  ASSUME IInv, NEW r \in Results, NEW s \in Results, MoveResult(r, s),
         UNCHANGED throughBase
  PROVE  IInv'
<1> USE DEF MoveResult, errVars
<1>1. WellTyped'
  BY DEF IInv, WellTyped, Contents
<1>2. Alone'
  BY DEF IInv, WellTyped, Contents, Alone, Holders
<1>3. NoFailureLost'
  BY DEF IInv, WellTyped, Contents, NoFailureLost, Holders
<1>4. FailuresOnly'
  BY DEF IInv, WellTyped, Contents, FailuresOnly, Holders
<1>5. QED
  BY <1>1, <1>2, <1>3, <1>4 DEF IInv

LEMMA MoveThrowsPreserves ==
  ASSUME IInv, NEW r \in Results, NEW s \in Results, MoveThrows(r, s),
         UNCHANGED throughBase
  PROVE  IInv'
<1> USE DEF MoveThrows, errVars
<1>1. WellTyped'
  BY DEF IInv, WellTyped, Contents
<1>2. Alone'
  BY DEF IInv, WellTyped, Contents, Alone, Holders
<1>3. NoFailureLost'
  BY DEF IInv, WellTyped, Contents, NoFailureLost, Holders
<1>4. FailuresOnly'
  BY DEF IInv, WellTyped, Contents, FailuresOnly, Holders
<1>5. QED
  BY <1>1, <1>2, <1>3, <1>4 DEF IInv

LEMMA ClonePreserves ==
  ASSUME IInv, NEW r \in Results, NEW s \in Results, Clone(r, s),
         UNCHANGED throughBase
  PROVE  IInv'
<1> USE DEF Clone, Successful, errVars
<1>1. WellTyped'
  BY DEF IInv, WellTyped, Contents
<1>2. Alone'
  BY DEF IInv, WellTyped, Contents, Alone, Holders
<1>3. NoFailureLost'
  BY DEF IInv, WellTyped, Contents, NoFailureLost, Holders
<1>4. FailuresOnly'
  BY DEF IInv, WellTyped, Contents, FailuresOnly, Holders
<1>5. QED
  BY <1>1, <1>2, <1>3, <1>4 DEF IInv

LEMMA GetValuePreserves ==
  ASSUME IInv, NEW r \in Results, GetValue(r), UNCHANGED throughBase
  PROVE  IInv'
<1> USE DEF GetValue, errVars
<1>1. WellTyped'
  BY DEF IInv, WellTyped, Contents
<1>2. Alone'
  BY DEF IInv, WellTyped, Contents, Alone, Holders
<1>3. NoFailureLost'
  BY DEF IInv, WellTyped, Contents, NoFailureLost, Holders
<1>4. FailuresOnly'
  BY DEF IInv, WellTyped, Contents, FailuresOnly, Holders
<1>5. QED
  BY <1>1, <1>2, <1>3, <1>4 DEF IInv

LEMMA SwapPreserves ==
  ASSUME IInv, NEW r \in Results, NEW s \in Results, Swap(r, s),
         UNCHANGED throughBase
  PROVE  IInv'
<1> USE DEF Swap, errVars
<1>1. WellTyped'
  BY DEF IInv, WellTyped, Contents
<1>2. Alone'
  <2> DEFINE there(p) == IF p = r THEN s ELSE IF p = s THEN r ELSE p
  <2>1. ASSUME NEW x, NEW p \in Holders(x)' PROVE there(p) \in Holders(x)
    BY <2>1 DEF IInv, WellTyped, Holders
  <2>2. \A p, q : there(p) = there(q) => p = q
    OBVIOUS
  <2>3. QED
    BY <2>1, <2>2 DEF IInv, Alone
<1>3. NoFailureLost'
  BY DEF IInv, WellTyped, Contents, NoFailureLost, Holders
<1>4. FailuresOnly'
  BY DEF IInv, WellTyped, Contents, FailuresOnly, Holders
<1>5. QED
  BY <1>1, <1>2, <1>3, <1>4 DEF IInv

LEMMA DestroyResultPreserves ==
  ASSUME IInv, NEW r \in Results, DestroyResult(r), UNCHANGED throughBase
  PROVE  IInv'
<1> USE DEF DestroyResult, errVars
<1>1. WellTyped'
  BY DEF IInv, WellTyped, Contents
<1>2. Alone'
  BY DEF IInv, WellTyped, Contents, Alone, Holders
<1>3. NoFailureLost'
  BY DEF IInv, WellTyped, Contents, NoFailureLost, Holders
<1>4. FailuresOnly'
  BY DEF IInv, WellTyped, Contents, FailuresOnly, Holders
<1>5. QED
  BY <1>1, <1>2, <1>3, <1>4 DEF IInv

HIDE DEF Lives, Put, Drop, There, Set, HasError, HasValue, DropHeld, Unborn, Valueless,
         Value, Error

LEMMA InitEstablishes == Init => IInv
BY FailuresAssumption DEF Init, ErrInit, IInv, WellTyped, Alone,
   NoFailureLost, FailuresOnly, Holders, Contents, Unborn, Error

LEMMA StutterPreserves == IInv /\ UNCHANGED vars => IInv'
BY DEF vars, errVars, IInv, WellTyped, Alone, NoFailureLost, FailuresOnly,
   Holders, Contents

(* The invariant holds whatever is constructed, moved, cloned and dropped. *)
THEOREM Invariance == Spec => []IInv
<1>1. IInv /\ [Next]_vars => IInv'
  <2> SUFFICES ASSUME IInv, [Next]_vars PROVE IInv'
    OBVIOUS
  <2>1. CASE ErrNext /\ UNCHANGED <<res, thrown>>
    BY <2>1, DefaultConstructPreserves, ConstructPreserves, ConstructRefusedPreserves,
       CopyPreserves, MovePreserves, ClearPreserves, AssignThroughBasePreserves,
       DestroyPreserves DEF ErrNext
  <2>2. ASSUME NEW r \in Results, UNCHANGED throughBase,
               \/ FromValue(r)
               \/ GetValue(r)
               \/ ClearError(r)
               \/ DestroyResult(r)
               \/ \E x \in Failures \cup {"success"} : FromCode(r, x)
               \/ \E e \in Errors : FromError(r, e) \/ TakeError(r, e)
               \/ \E s \in Results :
                    MoveResult(r, s) \/ MoveThrows(r, s) \/ Clone(r, s) \/ Swap(r, s)
        PROVE  IInv'
    BY <2>2, FromValuePreserves, GetValuePreserves, ClearErrorPreserves,
       DestroyResultPreserves, FromCodePreserves, FromErrorPreserves, TakeErrorPreserves,
       MoveResultPreserves, MoveThrowsPreserves, ClonePreserves, SwapPreserves
  <2>3. QED
    BY <2>1, <2>2, StutterPreserves DEF Next
<1>2. QED
  BY <1>1, InitEstablishes, PTL DEF Spec

(* No success gets into an errored code or a result as its error, by any   *)
(* sequence of calls that does not assign through the base class.          *)
THEOREM SuccessesAreRefused == Spec => []FailuresOnly
<1>1. IInv => FailuresOnly
  BY DEF IInv
<1>2. QED
  BY <1>1, Invariance, PTL

(* No move from error to result to result doubles a failure.               *)
THEOREM MovesDoNotDouble == Spec => []OneHolder
<1>1. IInv => OneHolder
  <2> SUFFICES ASSUME IInv, NEW x \in made \ copied
               PROVE  Cardinality(Holders(x)) <= 1
    BY DEF OneHolder
  <2>1. CASE Holders(x) = {}
    BY <2>1, FS_EmptySet
  <2>2. CASE Holders(x) # {}
    <3>1. PICK p \in Holders(x) : TRUE
      BY <2>2
    <3>2. Holders(x) = {p}
      BY <3>1 DEF IInv, Alone
    <3>3. Cardinality({p}) = 1
      BY FS_Singleton
    <3>4. QED
      BY <3>2, <3>3
  <2>3. QED
    BY <2>1, <2>2
<1>2. QED
  BY <1>1, Invariance, PTL

(* A failure is lost only by the destruction, overwriting or clearing of   *)
(* one that holds it.                                                      *)
THEOREM FailuresAreKept == Spec => []NoFailureLost
<1>1. IInv => NoFailureLost
  BY DEF IInv
<1>2. QED
  BY <1>1, Invariance, PTL
===============================================================================
