--------------------------- MODULE ExceptionClasses ---------------------------
(***************************************************************************)
(* The standard library's exception classes, boost::system::system_error   *)
(* and status_error, and the list of catch clauses with which both         *)
(* system_code_from_exception() and the thrown exception example turn an   *)
(* exception into an errc.                                                 *)
(***************************************************************************)
EXTENDS Naturals, Sequences

Parent ==
  [logic_error |-> "exception", invalid_argument |-> "logic_error",
   domain_error |-> "logic_error", length_error |-> "logic_error",
   out_of_range |-> "logic_error", future_error |-> "logic_error",
   runtime_error |-> "exception", system_error |-> "runtime_error",
   ios_failure |-> "system_error", overflow_error |-> "runtime_error",
   range_error |-> "runtime_error", underflow_error |-> "runtime_error",
   bad_alloc |-> "exception", bad_array_new_length |-> "bad_alloc",
   boost_system_error |-> "runtime_error", status_error |-> "exception"]

(* "other" is a thrown object that is no std::exception. *)
Classes == DOMAIN Parent \cup {"exception", "other"}

ParentOf(c) == IF c \in DOMAIN Parent THEN Parent[c] ELSE c

(* No class has more than three above it. *)
IsA(c, d) == d \in {c, ParentOf(c), ParentOf(ParentOf(c)), ParentOf(ParentOf(ParentOf(c)))}

(* Mutant: the base class of the first group is caught first. *)
ClausesBaseFirst ==
  <<
  [class |-> "logic_error", errc |-> "invalid_argument"],
  [class |-> "invalid_argument", errc |-> "invalid_argument"],
  [class |-> "domain_error", errc |-> "argument_out_of_domain"],
  [class |-> "length_error", errc |-> "argument_list_too_long"],
  [class |-> "out_of_range", errc |-> "result_out_of_range"],
  [class |-> "system_error", errc |-> "its_own"],
  [class |-> "overflow_error", errc |-> "value_too_large"],
  [class |-> "range_error", errc |-> "result_out_of_range"],
  [class |-> "runtime_error", errc |-> "resource_unavailable_try_again"],
  [class |-> "bad_alloc", errc |-> "not_enough_memory"]>>

Clauses ==
  <<
  [class |-> "invalid_argument", errc |-> "invalid_argument"],
  [class |-> "domain_error", errc |-> "argument_out_of_domain"],
  [class |-> "length_error", errc |-> "argument_list_too_long"],
  [class |-> "out_of_range", errc |-> "result_out_of_range"],
  [class |-> "logic_error", errc |-> "invalid_argument"],
  [class |-> "system_error", errc |-> "its_own"],
  [class |-> "overflow_error", errc |-> "value_too_large"],
  [class |-> "range_error", errc |-> "result_out_of_range"],
  [class |-> "runtime_error", errc |-> "resource_unavailable_try_again"],
  [class |-> "bad_alloc", errc |-> "not_enough_memory"]>>

Matching(c) == {i \in DOMAIN Clauses : IsA(c, Clauses[i].class)}

(* The first clause that matches is entered. *)
Caught(c) == Clauses[CHOOSE i \in Matching(c) : \A j \in Matching(c) : i <= j]

(* What the clauses are meant to do: an exception is reported as the       *)
(* nearest of its classes that has a clause.                               *)
Nearest(c) ==
  CHOOSE i \in Matching(c) : \A j \in Matching(c) : IsA(Clauses[i].class, Clauses[j].class)
===============================================================================
