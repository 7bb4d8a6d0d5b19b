------------------------------- MODULE StringRef -------------------------------
(***************************************************************************)
(* Message strings: string_ref, which lets a thunk handle copy, move and   *)
(* destruction, and atomic_refcounted_string_ref, whose thunk counts the   *)
(* references to one malloc()ed block.                                     *)
(*                                                                         *)
(* Each string_ref object is used by one thread at a time, or read by      *)
(* several; the blocks behind them are shared by all.  Every access to a   *)
(* shared counter is a step of its own.                                    *)
(***************************************************************************)
EXTENDS Naturals, FiniteSets

CONSTANTS
  Threads,
  Refs,     \* the string_ref objects of the program
  Blocks,   \* addresses malloc() may return
  Texts,    \* message texts
  Null      \* the null pointer

ASSUME NullAssumption == Null \notin Blocks \cup Refs
ASSUME FiniteAssumption == IsFiniteSet(Refs) /\ IsFiniteSet(Threads)
ASSUME DisjointAssumption == Refs \cap Threads = {}
ASSUME TextsAssumption == {"free", "absent", "empty", "literal"} \cap Texts = {}

VARIABLES
  ref,    \* thunk and _state[0] of every string_ref object
  text,   \* the text in each block, or "free"
  count,  \* the block's atomic reference count
  op      \* the operation each thread is in the middle of

vars == <<ref, text, count, op>>

\* "counted" is _refcounted_string_thunk; "custom" a user's thunk that may
\* fail to copy, as a thunk installed by a domain is allowed to.
Thunks == {"counted", "custom"}
Absent == [thunk |-> "absent", msg |-> Null]   \* no object here
NullRef == [thunk |-> "null", msg |-> Null]    \* default constructed or moved from
Literal == [thunk |-> "static", msg |-> Null]  \* refers to a string literal
Idle == [kind |-> "idle"]

Shared == [thunk : Thunks, msg : Blocks]
RefValue == {Absent, NullRef, Literal} \cup Shared
Operation ==
  [kind : {"copy", "destroy", "copyassign", "moveassign"}, dst : Refs,
   src : Refs \cup {Null}, victim : RefValue \ {Absent},
   stage : {"acquire", "drop", "free", "finish"}]

TypeOK ==
  /\ ref \in [Refs -> RefValue]
  /\ text \in [Blocks -> Texts \cup {"free"}]
  /\ count \in [Blocks -> 0 .. (Cardinality(Refs) + Cardinality(Threads))]
  /\ op \in [Threads -> {Idle} \cup Operation]

Init ==
  /\ ref = [r \in Refs |-> Absent]
  /\ text = [b \in Blocks |-> "free"]
  /\ count = [b \in Blocks |-> 0]
  /\ op = [t \in Threads |-> Idle]

(* What the program must respect: nobody touches an object while another   *)
(* thread writes it, and nobody writes it while another thread uses it.    *)
Written(o) ==
  IF o.kind = "idle" THEN {}
  ELSE {o.dst} \cup (IF o.kind = "moveassign" THEN {o.src} ELSE {})
Used(o) == IF o.kind = "idle" THEN {} ELSE {o.dst, o.src} \ {Null}
MayRead(t, r) == \A u \in Threads \ {t} : r \notin Written(op[u])
MayWrite(t, r) == \A u \in Threads \ {t} : r \notin Used(op[u])

Object(r) == ref[r] # Absent
Counted(v) == v.thunk \in Thunks
Start(t, k, dst, src, victim, stage) ==
  op' = [op EXCEPT ![t] =
           [kind |-> k, dst |-> dst, src |-> src, victim |-> victim, stage |-> stage]]
Done(t) == op' = [op EXCEPT ![t] = Idle]
Continue(t, stage) == op' = [op EXCEPT ![t].stage = stage]

-------------------------------------------------------------------------------
(* The default constructor, construction from a string literal, and the    *)
(* atomic_refcounted_string_ref whose malloc() failed, which becomes one.  *)
MakeStatic(t, r) ==
  /\ op[t] = Idle
  /\ ~Object(r) /\ MayWrite(t, r)
  /\ \E v \in {NullRef, Literal} : ref' = [ref EXCEPT ![r] = v]
  /\ UNCHANGED <<text, count, op>>

(* malloc() gave block b: count 1, the text copied in. *)
MakeShared(t, r, k, b, m) ==
  /\ op[t] = Idle
  /\ ~Object(r) /\ MayWrite(t, r)
  /\ text[b] = "free"
  /\ text' = [text EXCEPT ![b] = m]
  /\ count' = [count EXCEPT ![b] = 1]
  /\ ref' = [ref EXCEPT ![r] = [thunk |-> k, msg |-> b]]
  /\ UNCHANGED op

(* string_ref(const string_ref &): the members are copied, then the thunk  *)
(* is told.                                                                *)
CopyConstruct(t, r, s) ==
  /\ op[t] = Idle
  /\ ~Object(r) /\ MayWrite(t, r)
  /\ Object(s) /\ MayRead(t, s)
  /\ ref' = [ref EXCEPT ![r] = ref[s]]
  /\ IF Counted(ref[s]) THEN Start(t, "copy", r, s, NullRef, "acquire") ELSE UNCHANGED op
  /\ UNCHANGED <<text, count>>

(* Mutant: the source keeps its thunk and its block. *)
MoveConstructKeepsSource(t, r, s) ==
  /\ op[t] = Idle
  /\ ~Object(r) /\ MayWrite(t, r)
  /\ Object(s) /\ MayWrite(t, s)
  /\ ref' = [ref EXCEPT ![r] = ref[s]]
  /\ UNCHANGED <<text, count, op>>

(* string_ref(string_ref &&): the source is left empty, without a thunk. *)
MoveConstruct(t, r, s) ==
  /\ op[t] = Idle
  /\ ~Object(r) /\ MayWrite(t, r)
  /\ Object(s) /\ MayWrite(t, s)
  /\ ref' = [ref EXCEPT ![r] = ref[s], ![s] = NullRef]
  /\ UNCHANGED <<text, count, op>>

(* operator=(const string_ref &): *this is moved into `temp`, the source   *)
(* is copied over it, `temp` is destroyed at the end of the block.         *)
CopyAssign(t, r, s) ==
  /\ op[t] = Idle
  /\ r # s
  /\ Object(r) /\ MayWrite(t, r)
  /\ Object(s) /\ MayRead(t, s)
  /\ ref' = [ref EXCEPT ![r] = ref[s]]
  /\ IF Counted(ref[s]) THEN Start(t, "copyassign", r, s, ref[r], "acquire")
     ELSE IF Counted(ref[r]) THEN Start(t, "copyassign", r, s, ref[r], "drop")
     ELSE UNCHANGED op
  /\ UNCHANGED <<text, count>>

(* operator=(string_ref &&): *this is destroyed, then move constructed. *)
MoveAssign(t, r, s) ==
  /\ op[t] = Idle
  /\ r # s
  /\ Object(r) /\ MayWrite(t, r)
  /\ Object(s) /\ MayWrite(t, s)
  /\ Start(t, "moveassign", r, s, ref[r], IF Counted(ref[r]) THEN "drop" ELSE "finish")
  /\ ref' = [ref EXCEPT ![r] = NullRef]
  /\ UNCHANGED <<text, count>>

FinishMove(t) ==
  /\ op[t] # Idle
  /\ op[t].stage = "finish"
  /\ ref' = [ref EXCEPT ![op[t].dst] = ref[op[t].src], ![op[t].src] = NullRef]
  /\ Done(t)
  /\ UNCHANGED <<text, count>>

Destroy(t, r) ==
  /\ op[t] = Idle
  /\ Object(r) /\ MayWrite(t, r)
  /\ ref' = [ref EXCEPT ![r] = Absent]
  /\ IF Counted(ref[r]) THEN Start(t, "destroy", r, Null, ref[r], "drop") ELSE UNCHANGED op
  /\ UNCHANGED <<text, count>>

-------------------------------------------------------------------------------
(* Mutant: the thunk ignores the copy operation. *)
AcquireUncounted(t) ==
  /\ op[t] # Idle
  /\ op[t].stage = "acquire"
  /\ IF Counted(op[t].victim) THEN Continue(t, "drop") ELSE Done(t)
  /\ UNCHANGED <<ref, text, count>>

(* The thunk's copy: fetch_add on the block the new object refers to. *)
Acquire(t) ==
  /\ op[t] # Idle
  /\ op[t].stage = "acquire"
  /\ count' = [count EXCEPT ![ref[op[t].dst].msg] = @ + 1]
  /\ IF Counted(op[t].victim) THEN Continue(t, "drop") ELSE Done(t)
  /\ UNCHANGED <<ref, text>>

(* Mutant: copy assignment without a catch block to move `temp` back. *)
AcquireFailsLosesOld(t) ==
  /\ op[t] # Idle
  /\ op[t].stage = "acquire"
  /\ ref[op[t].dst].thunk = "custom"
  /\ ref' = [ref EXCEPT ![op[t].dst] = IF op[t].kind = "copy" THEN Absent ELSE NullRef]
  /\ Done(t)
  /\ UNCHANGED <<text, count>>

(* A user's thunk refuses the copy and the constructor throws.  Copy       *)
(* assignment moves `temp` back.                                           *)
AcquireFails(t) ==
  /\ op[t] # Idle
  /\ op[t].stage = "acquire"
  /\ ref[op[t].dst].thunk = "custom"
  /\ ref' = [ref EXCEPT ![op[t].dst] = IF op[t].kind = "copy" THEN Absent ELSE op[t].victim]
  /\ Done(t)
  /\ UNCHANGED <<text, count>>

AfterDrop(t) == IF op[t].kind = "moveassign" THEN Continue(t, "finish") ELSE Done(t)

(* Mutant: fetch_sub is taken to return the new value. *)
DropOffByOne(t) ==
  /\ op[t] # Idle
  /\ op[t].stage = "drop"
  /\ LET b == op[t].victim.msg IN
       /\ count' = [count EXCEPT ![b] = @ - 1]
       /\ IF count[b] = 2 THEN Continue(t, "free") ELSE AfterDrop(t)
  /\ UNCHANGED <<ref, text>>

(* Mutant: destruction does not give its reference back unless it is last. *)
DropKeepsCount(t) ==
  /\ op[t] # Idle
  /\ op[t].stage = "drop"
  /\ IF count[op[t].victim.msg] = 1 THEN Continue(t, "free") ELSE AfterDrop(t)
  /\ UNCHANGED <<ref, text, count>>

(* The thunk's destruct: fetch_sub, and free() by whoever took away the    *)
(* last reference.                                                         *)
Drop(t) ==
  /\ op[t] # Idle
  /\ op[t].stage = "drop"
  /\ LET b == op[t].victim.msg IN
       /\ count' = [count EXCEPT ![b] = @ - 1]
       /\ IF count[b] = 1 THEN Continue(t, "free") ELSE AfterDrop(t)
  /\ UNCHANGED <<ref, text>>

FreeBlock(t) ==
  /\ op[t] # Idle
  /\ op[t].stage = "free"
  /\ text' = [text EXCEPT ![op[t].victim.msg] = "free"]
  /\ AfterDrop(t)
  /\ UNCHANGED <<ref, count>>

Begin(t) ==
  \E r \in Refs :
    \/ MakeStatic(t, r)
    \/ Destroy(t, r)
    \/ \E k \in Thunks, b \in Blocks, m \in Texts : MakeShared(t, r, k, b, m)
    \/ \E s \in Refs :
         \/ CopyConstruct(t, r, s)
         \/ MoveConstruct(t, r, s)
         \/ CopyAssign(t, r, s)
         \/ MoveAssign(t, r, s)

Proceed(t) ==
  \/ Acquire(t)
  \/ AcquireFails(t)
  \/ Drop(t)
  \/ FreeBlock(t)
  \/ FinishMove(t)

Next == \E t \in Threads : Begin(t) \/ Proceed(t)

Spec == Init /\ [][Next]_vars

-------------------------------------------------------------------------------
At(t, stages) == op[t] # Idle /\ op[t].stage \in stages
Pending(r) == \E t \in Threads : At(t, {"acquire"}) /\ op[t].dst = r

Holders(b) ==
  {r \in Refs : ref[r].msg = b /\ ~Pending(r)}
    \cup {t \in Threads : At(t, {"acquire", "drop"}) /\ op[t].victim.msg = b}

(* In every interleaving the count of a block is the number of objects     *)
(* that refer to it and have been counted, plus the references held by a   *)
(* temporary or a destructor on its way to fetch_sub.                      *)
CountIsExact == \A b \in Blocks : count[b] = Cardinality(Holders(b))

(* No object refers to freed memory, not even one whose reference is not   *)
(* counted yet.                                                            *)
NoDangling == \A r \in Refs : ref[r].msg # Null => text[ref[r].msg] # "free"

(* One thread frees a block, and nobody else is about to. *)
NotFreedTwice ==
  \A t, u \in Threads :
    At(t, {"free"}) =>
      /\ text[op[t].victim.msg] # "free"
      /\ At(u, {"free", "drop"}) /\ op[u].victim.msg = op[t].victim.msg => u = t

(* A block nobody refers to is free, or a thread is about to free it. *)
NoLeak ==
  \A b \in Blocks : text[b] # "free" =>
    Holders(b) # {} \/ \E t \in Threads : At(t, {"free"}) /\ op[t].victim.msg = b

(* The last of the threads that give their references back frees the       *)
(* block: it is freed, and not twice.                                      *)
FreedOnce == NotFreedTwice /\ NoLeak

(* What each object shows.  A copy takes effect when its block is counted, *)
(* a move assignment when it starts; nobody may look in between.           *)
View(v) ==
  CASE v = Absent -> "absent"
    [] v = NullRef -> "empty"
    [] v = Literal -> "literal"
    [] OTHER -> text[v.msg]

Moving(r) == {t \in Threads : op[t] # Idle /\ op[t].kind = "moveassign" /\ r \in {op[t].dst, op[t].src}}
Showing(r) ==
  IF Pending(r)
  THEN LET o == op[CHOOSE t \in Threads : op[t] # Idle /\ op[t].dst = r]
       IN View(IF o.kind = "copy" THEN Absent ELSE o.victim)
  ELSE IF Moving(r) # {}
  THEN LET o == op[CHOOSE t \in Moving(r) : TRUE]
       IN IF r = o.dst THEN View(ref[o.src]) ELSE "empty"
  ELSE View(ref[r])

Messages == INSTANCE MessageValues WITH shown <- [r \in Refs |-> Showing(r)]

(* Message strings behave as values although they share memory: a copy     *)
(* shows the text of its source, a failed copy changes nothing at all, and *)
(* no text changes under its readers, whatever other threads destroy.      *)
MessagesAreValues == Messages!Spec
===============================================================================
