-------------------------------- MODULE Result --------------------------------
(***************************************************************************)
(* result<T>: a std::variant of `error` and T, together with the errors    *)
(* (see ErroredCode) that go into and come out of it.  T's own moves and   *)
(* copies may throw, which can leave the variant without a value.          *)
(***************************************************************************)
EXTENDS ErroredCode

CONSTANT Results  \* variables of type result<T>

ASSUME ResultsAssumption == Results \cap Errors = {}

VARIABLES
  res,    \* which alternative each result holds, and the error if any
  thrown  \* the exception the last call of a result's function threw

vars == <<errVars, res, thrown>>

Unborn == [alternative |-> "unborn"]
Valueless == [alternative |-> "valueless"]
Value == [alternative |-> "value"]
Error(x) == [alternative |-> "error", code |-> x]

HasValue(r) == res[r].alternative = "value"
HasError(r) == res[r].alternative = "error"
There(r) == res[r] # Unborn
Set(r, v) == res' = [res EXCEPT ![r] = v]
Throw(what) == thrown' = what

(* What becomes of the error r holds when r is destroyed or overwritten. *)
DropHeld(r) == IF HasError(r) THEN Drop(res[r].code) ELSE UNCHANGED dropped

Init ==
  /\ ErrInit
  /\ res = [r \in Results |-> Unborn]
  /\ thrown = "nothing"

-------------------------------------------------------------------------------
FromValue(r) ==
  /\ Running /\ ~There(r)
  /\ Set(r, Value)
  /\ Throw("nothing")
  /\ UNCHANGED errVars

(* The error is constructed in place from a code, an enumeration or what   *)
(* make_status_code() returns, and checked.                                *)
FromCode(r, x) ==
  /\ Running /\ ~There(r)
  /\ Fresh(x)
  /\ IF Successful(x)
     THEN end' = "terminated" /\ UNCHANGED <<res, made>>
     ELSE Set(r, Error(x)) /\ Make(x) /\ UNCHANGED end
  /\ Throw("nothing")
  /\ UNCHANGED <<err, copied, dropped>>

(* An `error` is moved in: no check. *)
FromError(r, e) ==
  /\ Running /\ ~There(r)
  /\ e \notin Typed /\ Lives(e)
  /\ Set(r, Error(err[e]))
  /\ Put(e, "empty")
  /\ Throw("nothing")
  /\ UNCHANGED <<made, copied, dropped, end>>

(* error e(std::move(r).error()); bad_result_access if there is none. *)
TakeError(r, e) ==
  /\ Running /\ There(r)
  /\ e \notin Typed /\ ~Lives(e)
  /\ IF HasError(r)
     THEN Put(e, res[r].code) /\ Set(r, Error("empty")) /\ Throw("nothing")
     ELSE Throw("bad_result_access") /\ UNCHANGED <<err, res>>
  /\ UNCHANGED <<made, copied, dropped, end>>

(* Mutant: the moved-from result keeps its error. *)
MoveResultKeepsError(r, s) ==
  /\ Running /\ r # s /\ There(s)
  /\ Set(r, res[s])
  /\ DropHeld(r)
  /\ Throw("nothing")
  /\ UNCHANGED <<err, made, copied, end>>

(* error() gives a reference, and `error` has a public clear(). *)
ClearError(r) ==
  /\ Running /\ There(r)
  /\ IF HasError(r)
     THEN Set(r, Error("empty")) /\ DropHeld(r) /\ Throw("nothing")
     ELSE Throw("bad_result_access") /\ UNCHANGED <<res, dropped>>
  /\ UNCHANGED <<err, made, copied, end>>

(* The variant's move constructor and move assignment: an error moves      *)
(* without fail and leaves an empty one behind.                            *)
MoveResult(r, s) ==
  /\ Running /\ r # s /\ There(s)
  /\ res' = [res EXCEPT ![r] = res[s], ![s] = IF HasError(s) THEN Error("empty") ELSE @]
  /\ DropHeld(r)
  /\ Throw("nothing")
  /\ UNCHANGED <<err, made, copied, end>>

(* T throws while it is moved.  A result that held no T has destroyed what *)
(* it held by then.                                                        *)
MoveThrows(r, s) ==
  /\ Running /\ r # s /\ HasValue(s)
  /\ Set(r, IF There(r) /\ ~HasValue(r) THEN Valueless ELSE res[r])
  /\ DropHeld(r)
  /\ Throw("T's")
  /\ UNCHANGED <<err, made, copied, end>>

(* Mutant: the clone takes the error out of its source. *)
CloneMoves(r, s) ==
  /\ Running /\ ~There(r) /\ HasError(s)
  /\ res' = [res EXCEPT ![r] = Error("empty"), ![s] = Error("empty")]
  /\ Throw("nothing")
  /\ UNCHANGED errVars

(* clone(): result(value()), or result(error().clone()), which makes an    *)
(* `error` from a system_code and so checks it; T's copy may throw.        *)
Clone(r, s) ==
  /\ Running /\ ~There(r) /\ There(s)
  /\ IF HasValue(s)
     THEN /\ \/ Set(r, Value) /\ Throw("nothing")
             \/ Throw("T's") /\ UNCHANGED res
          /\ UNCHANGED <<copied, end>>
     ELSE IF HasError(s)
     THEN /\ IF Successful(res[s].code)
             THEN end' = "terminated" /\ UNCHANGED <<res, copied>>
             ELSE /\ Set(r, res[s])
                  /\ copied' = copied \cup ({res[s].code} \cap Failures)
                  /\ UNCHANGED end
          /\ Throw("nothing")
     ELSE Throw("bad_result_access") /\ UNCHANGED <<res, copied, end>>
  /\ UNCHANGED <<err, made, dropped>>

(* value(): _check() throws the error, through the null domain of an empty *)
(* one as through any other; without either, std::get() throws.            *)
GetValue(r) ==
  /\ Running /\ There(r)
  /\ end' = IF res[r] = Error("empty") THEN "undefined" ELSE end
  /\ Throw(IF HasValue(r) \/ res[r] = Error("empty") THEN "nothing"
           ELSE IF HasError(r) THEN "status_error" ELSE "bad_variant_access")
  /\ UNCHANGED <<err, made, copied, dropped, res>>

(* swap() where no T throws *)
Swap(r, s) ==
  /\ Running /\ There(r) /\ There(s)
  /\ res' = [res EXCEPT ![r] = res[s], ![s] = res[r]]
  /\ Throw("nothing")
  /\ UNCHANGED errVars

DestroyResult(r) ==
  /\ Running /\ There(r)
  /\ Set(r, Unborn)
  /\ DropHeld(r)
  /\ Throw("nothing")
  /\ UNCHANGED <<err, made, copied, end>>

Next ==
  \/ ErrNext /\ UNCHANGED <<res, thrown>>
  \/ /\ \E r \in Results :
          \/ FromValue(r)
          \/ GetValue(r)
          \/ ClearError(r)
          \/ DestroyResult(r)
          \/ \E x \in Failures \cup {"success"} : FromCode(r, x)
          \/ \E e \in Errors : FromError(r, e) \/ TakeError(r, e)
          \/ \E s \in Results :
               MoveResult(r, s) \/ MoveThrows(r, s) \/ Clone(r, s) \/ Swap(r, s)
     /\ UNCHANGED throughBase

Spec == Init /\ [][Next]_vars

-------------------------------------------------------------------------------
Holders(x) == {e \in Errors : err[e] = x} \cup {r \in Results : res[r] = Error(x)}

(* "Never successful (this contract is checked on construction, if fails   *)
(* then it terminates the process)": by no sequence of constructions,      *)
(* conversions and moves does a success get into an errored code or into   *)
(* a result as its error, unless it is assigned through the base class.    *)
FailuresOnly == ~throughBase => Holders("success") = {}

(* A failure that was never copied or cloned is in one place: moving it    *)
(* from error to result to result never doubles it.                        *)
OneHolder == \A x \in made \ copied : Cardinality(Holders(x)) <= 1

(* A failure stays with some error or result until one that holds it is    *)
(* destroyed, overwritten or cleared: moves, swaps, clones and refused     *)
(* accesses lose none.                                                     *)
NoFailureLost == \A x \in made \ dropped : Holders(x) # {}
===============================================================================
