------------------------------ MODULE ExceptionMap ------------------------------
(***************************************************************************)
(* Codes become exceptions and exceptions become codes: throw_exception(), *)
(* and system_code_from_exception(), which turns the exception behind the  *)
(* caller's exception_ptr into a system_code and resets the pointer when   *)
(* it did.                                                                 *)
(*                                                                         *)
(* The program of StatusDomains throws the code `two`, or meets somebody   *)
(* else's exception, makes a code of it, and throws that in turn.  `one`   *)
(* is then the code the exceptions began with.                             *)
(***************************************************************************)
EXTENDS StatusDomains, ExceptionClasses

CONSTANT Large  \* domains whose codes do not fit into a system_code

(* What system_code is the common type of does fit. *)
ASSUME LargeAssumption == Large \cap {"generic", "posix", "win32"} = {}

VARIABLES
  thrown,  \* the exception
  ep,      \* the caller's exception_ptr: "null" or "held"
  pc,      \* the try block or handler the call is in
  result   \* what the call returned

catchVars == <<thrown, ep, pc, result>>
allVars == <<vars, catchVars>>

NoException == [class |-> "none"]
NotMatched == [dom |-> "not_matched"]
NoResult == [dom |-> "none"]
Success == Generic("success")

HasCode(e) == "code" \in DOMAIN e
UnknownCategory(e) == HasCode(e) /\ e.code.dom = "std" /\ e.code.cat \notin {"generic", "system"}

(* What other libraries throw. *)
StdErrors == {c \in FlatCodes(platform) : c.dom = "std"}
Foreign ==
  [class : {c \in Classes : ~IsA(c, "system_error")} \ {"status_error", "boost_system_error"}]
    \cup [class : {"system_error", "ios_failure"}, code : StdErrors]

CatchInit ==
  /\ Init
  /\ thrown = NoException
  /\ ep = "null"
  /\ pc = "compare"
  /\ result = NoResult

-------------------------------------------------------------------------------
(* A step of the program that only compares. *)
PassOn == pc = "compare" /\ Next /\ UNCHANGED catchVars

(* _do_throw_exception(): std_error_code and boost_error_code throw the    *)
(* system_error of their library, the others a status_error with the code  *)
(* and its message in it; the message is taken to be there (see            *)
(* SystemMessage for one that is not).  The indirecting domain throws what *)
(* the domain it indirects to throws.                                      *)
ThrownBy(c) ==
  [class |-> CASE c.dom = "std" -> "system_error"
               [] c.dom = "boost" -> "boost_system_error"
               [] OTHER -> "status_error",
   code |-> c]

(* The exception e is in flight, with a pointer to it. *)
Raise(e) ==
  /\ thrown' = e
  /\ ep' = IF e = NoException THEN "null" ELSE "held"
  /\ pc' = "call"
  /\ result' = NoResult
  /\ UNCHANGED platform

ThrowException ==
  /\ pc \in {"compare", "idle"}
  /\ two # Empty
  /\ Raise(ThrownBy(Innermost(two)))
  /\ one' = IF pc = "compare" THEN two ELSE one
  /\ UNCHANGED two

(* An exception of somebody else's, or a null pointer. *)
Meet(e) ==
  /\ pc = "compare"
  /\ Raise(e)
  /\ one' = IF HasCode(e) THEN e.code ELSE Empty
  /\ two' = one'

Return(code) == pc' = "done" /\ result' = code

(* No exception, or the inner try block rethrows it. *)
Call ==
  /\ pc = "call"
  /\ IF ep = "null" THEN Return(Success) ELSE pc' = "inner" /\ UNCHANGED result
  /\ UNCHANGED <<vars, thrown, ep>>

(* Mutant: a code that cannot be copied is reported as success instead of  *)
(* being treated as any other exception.                                   *)
InnerHandlersKeepRefused ==
  /\ pc = "inner"
  /\ IF thrown.class = "status_error"
     THEN Return(IF thrown.code.dom \notin Large THEN thrown.code ELSE Success)
     ELSE pc' = "handlers" /\ UNCHANGED result
  /\ UNCHANGED <<vars, thrown, ep>>

(* catch(const status_error<void> &): its code is returned when it can be  *)
(* copied, and ep is left alone; otherwise, as for any other class, the    *)
(* exception goes on to the outer handlers.                                *)
InnerHandlers ==
  /\ pc = "inner"
  /\ IF thrown.class = "status_error" /\ thrown.code.dom \notin Large
     THEN Return(thrown.code)
     ELSE pc' = "handlers" /\ UNCHANGED result
  /\ UNCHANGED <<vars, thrown, ep>>

(* Mutant: every value is taken for an errno. *)
SystemErrorIgnoresCategory(c) ==
  IF c.cat \notin {"generic", "system"} THEN NotMatched ELSE Generic(c.val)

(* The code of a std::system_error.  One of an unknown category cannot be  *)
(* wrapped in a system_code, and the clauses that follow do not get a      *)
(* second try.                                                             *)
SystemError(c) ==
  CASE c.cat = "generic" -> Generic(c.val)
    [] c.cat = "system" -> (CASE platform = "windows" -> Win32(c.val)
                              [] platform = "posix" -> Posix(c.val)
                              [] platform = "neither" -> Generic(c.val))
    [] OTHER -> NotMatched

(* Mutant: ep is reset once for all handlers, catch(...) included. *)
OuterHandlersResetAlways ==
  /\ pc = "handlers"
  /\ ep' = "null"
  /\ IF Matching(thrown.class) = {} THEN Return(NotMatched)
     ELSE IF Caught(thrown.class).class = "system_error" THEN Return(SystemError(thrown.code))
     ELSE Return(Generic(Caught(thrown.class).errc))
  /\ UNCHANGED <<vars, thrown>>

(* Every clause but catch(...) resets ep before anything else. *)
OuterHandlers ==
  /\ pc = "handlers"
  /\ IF Matching(thrown.class) = {}
     THEN Return(NotMatched) /\ UNCHANGED ep
     ELSE /\ ep' = "null"
          /\ Return(IF Caught(thrown.class).class = "system_error"
                    THEN SystemError(thrown.code)
                    ELSE Generic(Caught(thrown.class).errc))
  /\ UNCHANGED <<vars, thrown>>

(* What the parameter not_matched defaults to. *)
CodeOf(r) == IF r = NotMatched THEN Generic("resource_unavailable_try_again") ELSE r

(* The program has the code, the first if the exception carried none. *)
Receive ==
  /\ pc = "done"
  /\ two' = CodeOf(result)
  /\ one' = IF one = Empty THEN two' ELSE one
  /\ pc' = "idle"
  /\ UNCHANGED <<platform, thrown, ep, result>>

CatchNext ==
  \/ PassOn
  \/ ThrowException
  \/ \E e \in Foreign \cup {NoException} : Meet(e)
  \/ Call
  \/ InnerHandlers
  \/ OuterHandlers
  \/ Receive

CatchSpec == CatchInit /\ [][CatchNext]_allVars

-------------------------------------------------------------------------------
Returned == pc = "done" /\ thrown # NoException

(* An exception is reported as the nearest of its classes that has a       *)
(* clause, never as a base class whose clause comes too early; a           *)
(* boost::system::system_error is a runtime_error like any other.          *)
NearestClassWins ==
  Returned /\ ~IsA(thrown.class, "system_error") /\ Matching(thrown.class) # {} =>
    result = Generic(Clauses[Nearest(thrown.class)].errc)

(* What it could not map it leaves to the caller to rethrow: ep still      *)
(* holds the exception.  A std::system_error of an unknown category is the *)
(* exception: that one, and only that one, is reported as not mapped after *)
(* ep was reset, so that nobody can rethrow it.                            *)
KeepsWhatItCannotMap ==
  Returned /\ result = NotMatched => (ep = "held" <=> ~UnknownCategory(thrown))

(* An exception becomes a success only if it carried one itself.           *)
ThrownMeansFailure ==
  Returned /\ result # NotMatched /\ Succeeding(result) =>
    HasCode(thrown) /\ Succeeding(thrown.code)

(* However often a code is thrown and caught, nested or wrapped as it may  *)
(* be at first, and whoever threw it first, the code that comes back       *)
(* compares equal to the first one: all but those of unknown categories,   *)
(* those boost throws and those too large to be caught.                    *)
CaughtEqualsThrown ==
  /\ pc # "compare" /\ two # one
  /\ one.dom # "boost" /\ (one.dom = "std" => one.cat \in {"generic", "system"})
  /\ Innermost(one).dom \notin Large
  => Equivalent(one, two)
===============================================================================
