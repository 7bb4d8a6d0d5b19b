---------------------------- MODULE ThrownException ----------------------------
(***************************************************************************)
(* The worked example of a custom domain: exceptions are kept in a global  *)
(* array under a mutex, and a thrown_exception_code is an index into it.   *)
(* Several threads store exceptions and use codes that refer to them.      *)
(*                                                                         *)
(* An exception object lives as long as the array or a local               *)
(* exception_ptr refers to it.  What the program does after undefined      *)
(* behaviour is not modelled, so the index never comes near its wrap.      *)
(***************************************************************************)
EXTENDS ExceptionClasses, Integers

CONSTANTS
  Threads,
  MaxItems,  \* max_exception_ptrs
  Thrown     \* the classes of the exceptions stored

ASSUME ItemsAssumption == MaxItems \in Nat \ {0}
ASSUME ThrownAssumption == Thrown \subseteq Classes \ {"system_error", "ios_failure"}

VARIABLES
  items,    \* the array: exception objects, numbered as they were thrown
  idx,      \* the next index to hand out
  classOf,  \* the class of each exception object
  codes,    \* history: pairs of an index handed out and the exception meant
  using,    \* each thread's use of a code, with the exception_ptr it copied
  texts,    \* exceptions whose what() somebody keeps as a message
  verdicts, \* history: pairs of an index and the errc it was taken for
  end       \* how the program ended, if it did

vars == <<items, idx, classOf, codes, using, texts, verdicts, end>>

None == -1
Idle == [op |-> "idle"]
Ops == {"generic", "message", "throw"}
Objects == 0 .. MaxItems - 1

Init ==
  /\ items = [s \in Objects |-> None]
  /\ idx = 0
  /\ classOf = [o \in Objects |-> "none"]
  /\ codes = {}
  /\ using = [t \in Threads |-> Idle]
  /\ texts = {}
  /\ verdicts = {}
  /\ end = "running"

Idling(t) == end = "running" /\ using[t] = Idle
Doing(t, op) == end = "running" /\ using[t] # Idle /\ using[t].op = op
Finish(t) == using' = [using EXCEPT ![t] = Idle]

-------------------------------------------------------------------------------
(* Mutant: returns the index after it was incremented. *)
AddReturnsNext(t, class) ==
  /\ Idling(t)
  /\ idx < MaxItems
  /\ items' = [items EXCEPT ![idx] = idx]
  /\ classOf' = [classOf EXCEPT ![idx] = class]
  /\ codes' = codes \cup {<<idx + 1, idx>>}
  /\ idx' = idx + 1
  /\ UNCHANGED <<using, texts, verdicts, end>>

(* Mutant: wraps around one slot early, as a write index with the wrong    *)
(* modulus would.                                                          *)
AddWraps(t, class) ==
  /\ Idling(t)
  /\ idx < MaxItems
  /\ items' = [items EXCEPT ![IF idx = MaxItems - 1 THEN 0 ELSE idx] = idx]
  /\ classOf' = [classOf EXCEPT ![idx] = class]
  /\ codes' = codes \cup {<<idx, idx>>}
  /\ idx' = idx + 1
  /\ UNCHANGED <<using, texts, verdicts, end>>

(* add(), under the mutex: items[idx] = std::move(p); return idx++.  There *)
(* is no items[MaxItems].                                                  *)
Add(t, class) ==
  /\ Idling(t)
  /\ IF idx < MaxItems
     THEN /\ items' = [items EXCEPT ![idx] = idx]
          /\ classOf' = [classOf EXCEPT ![idx] = class]
          /\ codes' = codes \cup {<<idx, idx>>}
          /\ idx' = idx + 1
          /\ UNCHANGED end
     ELSE /\ end' = "overrun"
          /\ UNCHANGED <<items, classOf, codes, idx>>
  /\ UNCHANGED <<using, texts, verdicts>>

(* Mutant: the window is one index too short. *)
LookupShort(i) ==
  IF idx - i < MaxItems - 1 THEN items[i % MaxItems] ELSE None

(* operator[], which reads under the mutex and returns a copy *)
Lookup(i) ==
  IF idx - i < MaxItems THEN items[i % MaxItems] ELSE None

(* Every use of a code copies the exception_ptr first and keeps the copy   *)
(* until it is done with the exception.                                    *)
Fetch(t, op, i) ==
  /\ Idling(t)
  /\ i \in {code[1] : code \in codes}
  /\ i <= idx
  /\ using' = [using EXCEPT ![t] = [op |-> op, index |-> i, e |-> Lookup(i)]]
  /\ UNCHANGED <<items, idx, classOf, codes, texts, verdicts, end>>

(* _to_generic_code() *)
ToGenericCode(e) ==
  IF e = None \/ Matching(classOf[e]) = {} THEN "unknown" ELSE Caught(classOf[e]).errc

(* _do_equivalent() with a generic code, and _do_generic_code() *)
Compare(t) ==
  /\ Doing(t, "generic")
  /\ verdicts' = verdicts \cup {<<using[t].index, ToGenericCode(using[t].e)>>}
  /\ Finish(t)
  /\ UNCHANGED <<items, idx, classOf, codes, texts, end>>

(* _do_message() outside Windows: the message refers to what() of the      *)
(* exception itself, and the local exception_ptr goes away.  An object     *)
(* that is no std::exception has it return EAGAIN, for which the noexcept  *)
(* message() throws (see SystemMessage).                                   *)
Message(t) ==
  /\ Doing(t, "message")
  /\ LET e == using[t].e IN
       /\ texts' = IF e # None /\ IsA(classOf[e], "exception") THEN texts \cup {e} ELSE texts
       /\ end' = IF e # None /\ ~IsA(classOf[e], "exception") THEN "terminated" ELSE end
  /\ Finish(t)
  /\ UNCHANGED <<items, idx, classOf, codes, verdicts>>

(* _do_throw_exception(), which does not ask whether the code has expired *)
ThrowException(t) ==
  /\ Doing(t, "throw")
  /\ end' = IF using[t].e = None THEN "null rethrown" ELSE end
  /\ Finish(t)
  /\ UNCHANGED <<items, idx, classOf, codes, texts, verdicts>>

Next ==
  \E t \in Threads :
    \/ \E class \in Thrown : Add(t, class)
    \/ \E op \in Ops, i \in 0 .. MaxItems : Fetch(t, op, i)
    \/ Compare(t)
    \/ Message(t)
    \/ ThrowException(t)

Spec == Init /\ [][Next]_vars

-------------------------------------------------------------------------------
Held(e) == \E t \in Threads : using[t] # Idle /\ using[t].e = e
Lives(e) == Held(e) \/ \E s \in Objects : items[s] = e

(* "The exception ptr holds open the message string for us": the text of a *)
(* message that somebody keeps is never freed under them.  It holds        *)
(* because no slot is ever used a second time; the local copy is gone.     *)
TextsStayValid == \A e \in texts : Lives(e)

(* A code refers to its own exception, whichever threads stored exceptions *)
(* at the same time, and always finds it but for one that was stored as    *)
(* many exceptions ago as there are slots: although that one is still in   *)
(* its slot, the window is one too short for it.                           *)
CodesNameTheirException ==
  \A code \in codes : code[1] <= idx =>
    Lookup(code[1]) = IF idx - code[1] = MaxItems THEN None ELSE code[2]

(* Up to and with a full array, only the oldest code expires and only at   *)
(* the full array: not before that is the array overrun or a null pointer  *)
(* rethrown, and every other comparison sees the exception.                *)
OnlyTheOldestExpires ==
  /\ end \in {"overrun", "null rethrown"} => idx = MaxItems
  /\ \A v \in verdicts, code \in codes : v[1] = code[1] =>
       \/ v[2] = ToGenericCode(code[2])
       \/ v = <<0, "unknown">> /\ idx = MaxItems
===============================================================================
