------------------------------ MODULE ErroredCode ------------------------------
(***************************************************************************)
(* errored_status_code, the status code that is always a failure, and its  *)
(* erased form `error`.  The contract is checked by the constructors that  *)
(* take a code from outside; copies, moves and assignments are those of    *)
(* status_code, and a moved-from code is empty.                            *)
(*                                                                         *)
(* A failure code is made once and then passed on, so that the model can   *)
(* tell a code that was moved from one that was copied.                    *)
(***************************************************************************)
EXTENDS Naturals, FiniteSets

CONSTANTS
  Errors,      \* variables of an errored status code type
  Typed,       \* those that are typed; the others are of type `error`
  Failures     \* the failure codes there are

ASSUME TypedAssumption == Typed \subseteq Errors
ASSUME FailuresAssumption == {"unborn", "empty", "success"} \cap Failures = {}

VARIABLES
  err,      \* the code each variable holds
  made,     \* failure codes made so far
  copied,   \* history: those that were copied or cloned
  dropped,  \* history: those destroyed, overwritten or cleared somewhere
  end,      \* how the program ended, if it did
  throughBase  \* whether the program ever assigns through a status_code reference

errVars == <<err, made, copied, dropped, end, throughBase>>

ErrInit ==
  /\ err = [e \in Errors |-> "unborn"]
  /\ made = {}
  /\ copied = {}
  /\ dropped = {}
  /\ end = "running"
  /\ throughBase \in BOOLEAN

Running == end = "running"
Lives(e) == err[e] # "unborn"
Fresh(x) == x \in (Failures \ made) \cup {"success"}
Put(e, x) == err' = [err EXCEPT ![e] = x]
Make(x) == made' = made \cup ({x} \cap Failures)
Drop(x) == dropped' = dropped \cup ({x} \cap Failures)

(* Mutant: the check never finds a success. *)
NothingSuccessful(x) ==
  FALSE

(* success() of an empty code is false, and so is failure(). *)
Successful(x) ==
  x = "success"

(* The base was constructed from x: _check() terminates on a success. *)
Checked(x, construct) ==
  IF Successful(x)
  THEN end' = "terminated" /\ UNCHANGED <<err, made, copied, dropped>>
  ELSE construct /\ UNCHANGED end

-------------------------------------------------------------------------------
DefaultConstruct(e) ==
  /\ Running /\ ~Lives(e)
  /\ Put(e, "empty")
  /\ UNCHANGED <<made, copied, dropped, end>>

(* From a value, a status code, an enumeration or what make_status_code()  *)
(* returns.                                                                *)
Construct(e, x) ==
  /\ Running /\ ~Lives(e)
  /\ Fresh(x)
  /\ Checked(x, Put(e, x) /\ Make(x) /\ UNCHANGED <<copied, dropped>>)

(* From a code of unknown type whose domain refuses the copy: the nothrow  *)
(* constructor leaves an empty code, and the check lets it pass.           *)
ConstructRefused(e) ==
  /\ Running /\ ~Lives(e)
  /\ e \notin Typed
  /\ Checked("empty", Put(e, "empty") /\ UNCHANGED <<made, copied, dropped>>)

(* Copies of a typed code: its copy constructor and copy assignment, and   *)
(* the conversion to `error`, which alone checks.                          *)
Copy(e, f) ==
  /\ Running
  /\ f \in Typed /\ Lives(f)
  /\ e # f
  /\ Lives(e) => e \in Typed
  /\ LET construct == /\ Put(e, err[f])
                      /\ copied' = copied \cup ({err[f]} \cap Failures)
                      /\ Drop(err[e])
                      /\ UNCHANGED made
     IN  IF e \in Typed THEN construct /\ UNCHANGED end ELSE Checked(err[f], construct)

(* Move construction and assignment, which empty the source; assignment to *)
(* itself only empties it.  Moving a typed code into a new `error` checks, *)
(* and an `error` is never moved into a typed code.                        *)
Move(e, f) ==
  /\ Running
  /\ Lives(f)
  /\ e \in Typed => f \in Typed
  /\ f \in Typed /\ e \notin Typed => ~Lives(e)
  /\ LET construct == /\ err' = [err EXCEPT ![e] = err[f], ![f] = "empty"]
                      /\ Drop(err[e])
                      /\ UNCHANGED <<made, copied>>
     IN  IF f \in Typed /\ e \notin Typed THEN Checked(err[f], construct)
         ELSE construct /\ UNCHANGED end

(* The erased form does not hide clear(). *)
Clear(e) ==
  /\ Running
  /\ Lives(e)
  /\ e \notin Typed
  /\ Put(e, "empty")
  /\ Drop(err[e])
  /\ UNCHANGED <<made, copied, end>>

(* static_cast<status_code<D> &>(e) = x: the base class is public. *)
AssignThroughBase(e, x) ==
  /\ throughBase
  /\ Running
  /\ Lives(e)
  /\ Fresh(x)
  /\ Put(e, x)
  /\ Make(x)
  /\ Drop(err[e])
  /\ UNCHANGED <<copied, end>>

Destroy(e) ==
  /\ Running
  /\ Lives(e)
  /\ Put(e, "unborn")
  /\ Drop(err[e])
  /\ UNCHANGED <<made, copied, end>>

ErrNext ==
  /\ \/ \E e \in Errors :
          \/ DefaultConstruct(e)
          \/ ConstructRefused(e)
          \/ Clear(e)
          \/ Destroy(e)
          \/ \E x \in Failures \cup {"success"} : Construct(e, x) \/ AssignThroughBase(e, x)
     \/ \E e, f \in Errors : Copy(e, f) \/ Move(e, f)
  /\ UNCHANGED throughBase
===============================================================================
