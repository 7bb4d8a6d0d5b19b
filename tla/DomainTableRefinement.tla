------------------------- MODULE DomainTableRefinement -------------------------
(***************************************************************************)
(* The spin-locked array implements the atomic interning table.  A hit     *)
(* takes effect when the scan finds the slot, a miss when the domain is    *)
(* constructed; a full table shows when get() aborts.                      *)
(***************************************************************************)
EXTENDS DomainTable

SlotOf(c) ==
  IF \E s \in Slots : items[s] = c THEN CHOOSE s \in Slots : items[s] = c ELSE Null

Decided(t) == pc[t] \in {"unlock", "got"}

Interning == INSTANCE CategoryInterning WITH
  Callers <- Threads,
  Domains <- Slots,
  table   <- [c \in Categories |-> SlotOf(c)],
  want    <- arg,
  answer  <- [t \in Threads |-> IF Decided(t) THEN ret[t] ELSE Null],
  status  <- IF process \in {"exitlock", "exitscan"} THEN "exiting" ELSE process

(* Every behaviour of the array is a behaviour of the interning table:     *)
(* concurrent calls for one category agree on one domain, a first use      *)
(* takes effect exactly once, and abort() strikes only a new category      *)
(* when all max_items domains belong to others.                            *)
InternsCategories == Interning!Spec
===============================================================================
