----------------------------- MODULE StringRefOrder ----------------------------
(***************************************************************************)
(* The memory ordering of the shared message blocks of StringRef.  A block *)
(* may be freed only when every use of it happens before the free().       *)
(*                                                                         *)
(* Happens-before has two sources here.  The program orders the threads'   *)
(* uses of one string_ref object, as it must: what a thread knew when it   *)
(* last used an object is known to the next thread that uses it.  The      *)
(* counter contributes nothing: fetch_add is relaxed, and fetch_sub is a   *)
(* release that no acquire ever reads from.                                *)
(***************************************************************************)
EXTENDS StringRef

VARIABLES
  uses,     \* the uses of the blocks: <<b, t>> when t has used b as it is now
  knows,    \* the uses that happen before what each thread does next
  passedOn  \* the uses known to the threads that used each object

orderVars == <<uses, knows, passedOn>>

OrderInit ==
  /\ Init
  /\ uses = {}
  /\ knows = [t \in Threads |-> {}]
  /\ passedOn = [r \in Refs |-> {}]

(* Thread t touches the objects R and uses the blocks B.  A new use by t   *)
(* is not known to anybody else yet.                                       *)
Order(t, R, B) ==
  LET new == B \X {t}
      seen == knows[t] \cup UNION {passedOn[r] : r \in R}
  IN /\ uses' = uses \cup new
     /\ knows' = [u \in Threads |-> IF u = t THEN seen \cup new ELSE knows[u] \ new]
     /\ passedOn' = [r \in Refs |-> IF r \in R THEN seen \cup new ELSE passedOn[r] \ new]

Touched(t) == Used(op[t]) \cup Used(op[t])' \cup {r \in Refs : ref'[r] # ref[r]}

(* Writing the text, and the atomic operations on the counter. *)
UsedBlocks(t) == {b \in Blocks : text'[b] # text[b] \/ count'[b] # count[b]}

(* Somebody reads the message through the object. *)
ReadText(t, r) ==
  /\ op[t] = Idle
  /\ Counted(ref[r]) /\ MayRead(t, r)
  /\ Order(t, {r}, {ref[r].msg})
  /\ UNCHANGED vars

(* free() ends the life of the block and of what was known about it. *)
OrderFree(t) ==
  /\ FreeBlock(t)
  /\ LET gone == {op[t].victim.msg} \X Threads IN
       /\ uses' = uses \ gone
       /\ knows' = [u \in Threads |-> knows[u] \ gone]
       /\ passedOn' = [r \in Refs |-> passedOn[r] \ gone]

OrderStep(t) ==
  \/ /\ Begin(t) \/ Acquire(t) \/ AcquireFails(t) \/ Drop(t) \/ FinishMove(t)
     /\ Order(t, Touched(t), UsedBlocks(t))
  \/ OrderFree(t)
  \/ \E r \in Refs : ReadText(t, r)

OrderNext == \E t \in Threads : OrderStep(t)

OrderSpec == OrderInit /\ [][OrderNext]_<<vars, orderVars>>

-------------------------------------------------------------------------------
(* "A reference counted, threadsafe reference to a message string": when a *)
(* thread is about to free a block, every use of the block by another      *)
(* thread happens before.                                                  *)
FreeAfterAllUses ==
  \A t \in Threads : At(t, {"free"}) /\ op[t].victim.thunk = "counted" =>
    {x \in uses : x[1] = op[t].victim.msg} \subseteq knows[t]
===============================================================================
