------------------------------ MODULE ErasedCode -------------------------------
(***************************************************************************)
(* The life of type-erased status codes (status_code<erased<T>>, such as   *)
(* system_code) and of the heap payloads nested ones own.                  *)
(*                                                                         *)
(* An erased code is a domain pointer and a value.  Its destructor asks    *)
(* the domain to destroy the value; only the indirecting_domain of         *)
(* make_nested_status_code(), whose value points at a heap payload, has    *)
(* anything to destroy.  The codes of one thread are modelled: the type is *)
(* not meant to be shared.                                                 *)
(***************************************************************************)
EXTENDS FiniteSets

CONSTANTS
  Codes,   \* variables of erased status code type
  Large,   \* those whose storage is large enough for a "wide" domain's value
  Cells,   \* heap addresses a payload may be allocated at
  Vals,    \* values of the status codes that are erased or nested
  Nil      \* value_type{}, the value of a default constructed code

ASSUME LargeAssumption == Large \subseteq Codes
ASSUME NilAssumption == Nil \notin Cells \cup Vals
ASSUME DisjointAssumption == Cells \cap Vals = {} /\ {"free", "raw"} \cap Vals = {}

VARIABLES
  domain,      \* _domain of each code; "unborn" where there is no object
  value,       \* _value of each code: a plain value, or the payload's address
  heap,        \* heap cells: free, raw (allocated) or a payload's nested value
  pending,     \* the operation between its allocation and its construction
  overwritten, \* history: payloads whose owner was assigned to or cleared
  dead         \* std::terminate() or SYSTEM_ERROR2_FATAL was reached

vars == <<domain, value, heap, pending, overwritten, dead>>

Free == "free"
RawCell == "raw"
Idle == [op |-> "idle"]
CopyOps == {"clone", "in_place", "nothrow"}

Built(p) == heap[p] \in Vals
Alive(c) == domain[c] # "unborn"
Owns(c, p) == domain[c] = "nested" /\ value[c] = p

TypeOK ==
  /\ domain \in [Codes -> {"unborn", "null", "plain", "wide", "nested"}]
  /\ value \in [Codes -> Vals \cup Cells \cup {Nil}]
  /\ heap \in [Cells -> Vals \cup {Free, RawCell}]
  /\ pending \in {Idle} \cup [op : {"make"}, dst : Codes, cell : Cells, val : Vals]
                       \cup [op : CopyOps, dst : Codes, cell : Cells, src : Codes]
  /\ overwritten \subseteq Cells
  /\ dead \in BOOLEAN
  /\ \A c \in Codes : domain[c] \in {"plain", "wide"} => value[c] \in Vals
  /\ \A c \in Codes : domain[c] = "wide" => c \in Large

Init ==
  /\ domain = [c \in Codes |-> "unborn"]
  /\ value = [c \in Codes |-> Nil]
  /\ heap = [p \in Cells |-> Free]
  /\ pending = Idle
  /\ overwritten = {}
  /\ dead = FALSE

Calm == ~dead /\ pending = Idle

Put(c, d, v) ==
  /\ domain' = [domain EXCEPT ![c] = d]
  /\ value' = [value EXCEPT ![c] = v]

-------------------------------------------------------------------------------
DefaultConstruct(c) ==
  /\ Calm
  /\ ~Alive(c)
  /\ Put(c, "null", Nil)
  /\ UNCHANGED <<heap, pending, overwritten, dead>>

(* Construction from a typed code whose value type fits our storage. *)
FromTyped(c, d, v) ==
  /\ Calm
  /\ ~Alive(c)
  /\ d = "wide" => c \in Large
  /\ Put(c, d, v)
  /\ UNCHANGED <<heap, pending, overwritten, dead>>

(* make_nested_status_code(): first the payload is allocated; an allocator *)
(* that throws here leaves everything as it was.                           *)
MakeNested(c, v) ==
  /\ Calm
  /\ ~Alive(c)
  /\ \E p \in Cells :
       /\ heap[p] = Free
       /\ heap' = [heap EXCEPT ![p] = RawCell]
       /\ pending' = [op |-> "make", dst |-> c, cell |-> p, val |-> v]
  /\ UNCHANGED <<domain, value, overwritten, dead>>

(* clone(), and the two copy constructors from status_code<void>, of a     *)
(* code whose domain has the default, memcpy-ing _do_erased_copy().  clone *)
(* passes the source's own size, the constructors that of the destination. *)
Refused(op, c, d) == op # "clone" /\ domain[d] = "wide" /\ c \notin Large

(* clone() returns the type of its source. *)
Fits(op, c, d) == op = "clone" => (d \in Large <=> c \in Large)

(* Mutant: no comparison of the sizes before memcpy(). *)
CopyPlainUnchecked(op, c, d) ==
  /\ Calm
  /\ ~Alive(c)
  /\ domain[d] \in {"plain", "wide"}
  /\ Fits(op, c, d)
  /\ Put(c, domain[d], value[d])
  /\ UNCHANGED <<heap, pending, overwritten, dead>>

(* Mutant: the indirecting domain does not override _do_erased_copy(). *)
CopyPlainShallow(op, c, d) ==
  /\ Calm
  /\ ~Alive(c)
  /\ domain[d] \in {"plain", "wide", "nested"}
  /\ Fits(op, c, d)
  /\ ~Refused(op, c, d)
  /\ Put(c, domain[d], value[d])
  /\ UNCHANGED <<heap, pending, overwritten, dead>>

CopyPlain(op, c, d) ==
  /\ Calm
  /\ ~Alive(c)
  /\ domain[d] \in {"plain", "wide"}
  /\ Fits(op, c, d)
  /\ ~Refused(op, c, d)
  /\ Put(c, domain[d], value[d])
  /\ UNCHANGED <<heap, pending, overwritten, dead>>

(* ENOBUFS: the nothrow constructor makes an empty code, the in_place one  *)
(* throws and makes none.                                                  *)
CopyRefused(c, d) ==
  /\ Calm
  /\ ~Alive(c)
  /\ Refused("nothrow", c, d)
  /\ Put(c, "null", Nil)
  /\ UNCHANGED <<heap, pending, overwritten, dead>>

CloneEmpty(c, d) ==
  /\ Calm
  /\ ~Alive(c)
  /\ domain[d] = "null"
  /\ Fits("clone", c, d)
  /\ Put(c, "null", Nil)
  /\ UNCHANGED <<heap, pending, overwritten, dead>>

(* indirecting_domain::_do_erased_copy() allocates, then constructs. *)
CopyNested(op, c, d) ==
  /\ Calm
  /\ ~Alive(c)
  /\ domain[d] = "nested"
  /\ Fits(op, c, d)
  /\ \E p \in Cells :
       /\ heap[p] = Free
       /\ heap' = [heap EXCEPT ![p] = RawCell]
       /\ pending' = [op |-> op, dst |-> c, cell |-> p, src |-> d]
  /\ UNCHANGED <<domain, value, overwritten, dead>>

(* The allocator throws outside the try block of a noexcept function. *)
CopyNestedNoMemory(c, d) ==
  /\ Calm
  /\ ~Alive(c)
  /\ domain[d] = "nested"
  /\ dead' = TRUE
  /\ UNCHANGED <<domain, value, heap, pending, overwritten>>

(* The payload's constructor succeeds; its value is moved in or copied     *)
(* from the source's payload.                                              *)
PayloadBuilt ==
  /\ ~dead
  /\ pending # Idle
  /\ heap' = [heap EXCEPT ![pending.cell] =
                IF pending.op = "make" THEN pending.val ELSE heap[value[pending.src]]]
  /\ Put(pending.dst, "nested", pending.cell)
  /\ pending' = Idle
  /\ UNCHANGED <<overwritten, dead>>

(* Mutant: the handler does not deallocate. *)
PayloadThrowsKeepsCell ==
  /\ ~dead
  /\ pending # Idle
  /\ IF pending.op = "nothrow" THEN Put(pending.dst, "null", Nil) ELSE UNCHANGED <<domain, value>>
  /\ dead' = (pending.op = "clone")
  /\ pending' = Idle
  /\ UNCHANGED <<heap, overwritten>>

(* It throws: the cell is deallocated and ENOMEM returned.  make and the   *)
(* in_place constructor throw on, clone() calls SYSTEM_ERROR2_FATAL, the   *)
(* nothrow constructor makes an empty code.                                *)
PayloadThrows ==
  /\ ~dead
  /\ pending # Idle
  /\ heap' = [heap EXCEPT ![pending.cell] = Free]
  /\ IF pending.op = "nothrow" THEN Put(pending.dst, "null", Nil) ELSE UNCHANGED <<domain, value>>
  /\ dead' = (pending.op = "clone")
  /\ pending' = Idle
  /\ UNCHANGED overwritten

(* Mutant: the moved-from code keeps its domain. *)
MoveConstructKeepsSource(c, d) ==
  /\ Calm
  /\ ~Alive(c)
  /\ Alive(d)
  /\ d \in Large => c \in Large
  /\ domain' = [domain EXCEPT ![c] = domain[d]]
  /\ value' = [value EXCEPT ![c] = value[d]]
  /\ UNCHANGED <<heap, pending, overwritten, dead>>

(* The storage a moved code gives up keeps its bits but for the domain. *)
MoveConstruct(c, d) ==
  /\ Calm
  /\ ~Alive(c)
  /\ Alive(d)
  /\ d \in Large => c \in Large
  /\ domain' = [domain EXCEPT ![c] = domain[d], ![d] = "null"]
  /\ value' = [value EXCEPT ![c] = value[d]]
  /\ UNCHANGED <<heap, pending, overwritten, dead>>

(* operator=(&&) destroys status_code_storage, whose destructor is         *)
(* trivial, and move constructs in place.  c = d is not excluded.          *)
MoveAssign(c, d) ==
  /\ Calm
  /\ Alive(c)
  /\ Alive(d)
  /\ d \in Large <=> c \in Large
  /\ domain' = [[domain EXCEPT ![c] = domain[d]] EXCEPT ![d] = "null"]
  /\ value' = [value EXCEPT ![c] = value[d]]
  /\ overwritten' = overwritten \cup {p \in Cells : Owns(c, p)}
  /\ UNCHANGED <<heap, pending, dead>>

(* clear(): *this = status_code(). *)
Clear(c) ==
  /\ Calm
  /\ Alive(c)
  /\ Put(c, "null", Nil)
  /\ overwritten' = overwritten \cup {p \in Cells : Owns(c, p)}
  /\ UNCHANGED <<heap, pending, dead>>

(* The user writes through the pointer get_if() gives to the nested code. *)
ModifyNested(c, v) ==
  /\ Calm
  /\ domain[c] = "nested"
  /\ heap' = [heap EXCEPT ![value[c]] = v]
  /\ UNCHANGED <<domain, value, pending, overwritten, dead>>

(* Mutant: the indirecting domain does not override _do_erased_destroy(). *)
DestroyKeepsPayload(c) ==
  /\ Calm
  /\ Alive(c)
  /\ Put(c, "unborn", Nil)
  /\ UNCHANGED <<heap, pending, overwritten, dead>>

(* ~status_code() asks the domain to destroy the value: a payload is       *)
(* destroyed and deallocated.                                              *)
Destroy(c) ==
  /\ Calm
  /\ Alive(c)
  /\ heap' = IF domain[c] = "nested" THEN [heap EXCEPT ![value[c]] = Free] ELSE heap
  /\ Put(c, "unborn", Nil)
  /\ UNCHANGED <<pending, overwritten, dead>>

Next ==
  \/ \E c \in Codes :
       \/ DefaultConstruct(c)
       \/ Clear(c)
       \/ Destroy(c)
       \/ \E v \in Vals : MakeNested(c, v) \/ ModifyNested(c, v)
       \/ \E v \in Vals, d \in {"plain", "wide"} : FromTyped(c, d, v)
  \/ \E c, d \in Codes :
       \/ \E op \in CopyOps : CopyPlain(op, c, d) \/ CopyNested(op, c, d)
       \/ CopyRefused(c, d)
       \/ CloneEmpty(c, d)
       \/ CopyNestedNoMemory(c, d)
       \/ MoveConstruct(c, d)
       \/ MoveAssign(c, d)
  \/ PayloadBuilt
  \/ PayloadThrows
  \/ dead /\ UNCHANGED vars

Spec == Init /\ [][Next]_vars

-------------------------------------------------------------------------------
(* No two codes own one payload, whatever sequence of clones, moves,       *)
(* self-assignments and refused copies ran: none is destroyed twice.       *)
OneOwner ==
  \A c, d \in Codes, p \in Cells : Owns(c, p) /\ Owns(d, p) => c = d

(* A nested code never points at a payload that is freed or unfinished.    *)
OwnedIsBuilt ==
  \A c \in Codes : domain[c] = "nested" => value[c] \in Cells /\ Built(value[c])

(* A throwing payload constructor leaks nothing: raw memory belongs to the *)
(* one operation in progress.                                              *)
RawIsPending ==
  ~dead => \A p \in Cells : heap[p] = RawCell => pending # Idle /\ pending.cell = p

(* A payload is lost only where its owner was move assigned or cleared:    *)
(* every other operation, the throwing and refused ones included, keeps    *)
(* every payload reachable until it is destroyed.                          *)
LostOnlyByOverwrite ==
  \A p \in Cells : Built(p) => p \in overwritten \/ \E c \in Codes : Owns(c, p)

(* The destructor comment's promise: the erased value of a code is         *)
(* destroyed; no payload outlives its owner.                               *)
NoPayloadLeaks ==
  \A p \in Cells : Built(p) => \E c \in Codes : Owns(c, p)

(* Codes are values.                                                       *)
HeldBy(c) ==
  CASE domain[c] = "unborn" -> [kind |-> "unborn"]
    [] domain[c] = "null" -> [kind |-> "empty"]
    [] domain[c] \in {"plain", "wide"} -> [kind |-> domain[c], val |-> value[c]]
    [] domain[c] = "nested" -> [kind |-> "nested", val |-> heap[value[c]]]

Values == INSTANCE CodeValues WITH held <- [c \in Codes |-> HeldBy(c)]

(* Erased codes, nested ones included, behave as values: a clone is equal  *)
(* and independent of its source, a move empties the source, and no        *)
(* operation on one code, failed ones included, changes another.           *)
CodesAreValues == Values!Spec
===============================================================================
