--------------------------- MODULE DomainTableProofs ---------------------------
(***************************************************************************)
(* Proofs about DomainTable for any number of threads and categories and   *)
(* any table size: its invariants, and that it implements the interning    *)
(* table.                                                                  *)
(***************************************************************************)
EXTENDS DomainTableRefinement, TLAPS

Alive == process \in {"running", "aborted", "terminated"}
Leaving == process \in {"exitlock", "exitscan", "exited"}

(* The lock is taken whenever somebody is between lock() and unlock(). *)
LockInv ==
  /\ \A t \in Threads : pc[t] \in InCS => lock = 1
  /\ process = "exitscan" => lock = 1
  /\ Leaving => \A t \in Threads : pc[t] = "idle"

(* The locals of a call, at each place of the code. *)
CallInv ==
  \A t \in Threads :
    /\ pc[t] = "idle" <=> arg[t] = Null
    /\ pc[t] \in {"idle", "lock"} => idx[t] = 0
    /\ pc[t] \in {"idle", "lock", "scan"} => ret[t] = Null
    /\ pc[t] = "scan" =>
         /\ idx[t] <= count
         /\ \A s \in Slots : s < idx[t] => items[s] # arg[t]
    /\ pc[t] = "build" =>
         /\ count > 0
         /\ ret[t] = count - 1
         /\ items[count - 1] = Raw
         /\ \A s \in Slots : s < count - 1 => items[s] # arg[t]
    /\ pc[t] \in {"unlock", "got"} /\ ret[t] # Null => items[ret[t]] = arg[t]
    /\ pc[t] \in {"unlock", "got"} /\ ret[t] = Null =>
         \A s \in Slots : items[s] \in Categories \ {arg[t]}

(* Slots below count hold a domain, but for the one under construction. *)
FillInv ==
  Alive =>
    /\ exitIdx = 0
    /\ \A s \in Slots :
         /\ s >= count => items[s] = Raw
         /\ s < count => \/ items[s] \in Categories
                         \/ \E t \in Threads : pc[t] = "build" /\ ret[t] = s

(* The destructor has destroyed the slots below its loop variable. *)
ExitInv ==
  Leaving =>
    /\ exitIdx <= count
    /\ process = "exitlock" => exitIdx = 0
    /\ process = "exited" => exitIdx = count
    /\ \A s \in Slots :
         items[s] \in IF s >= count THEN {Raw} ELSE IF s < exitIdx THEN {Gone} ELSE Categories

(* abort() was called by a thread whose add() returned the null pointer. *)
AbortInv ==
  process = "aborted" => \E t \in Threads : pc[t] = "got" /\ ret[t] = Null

IInv ==
  /\ TypeOK
  /\ LockInv
  /\ MutualExclusion
  /\ CallInv
  /\ FillInv
  /\ ExitInv
  /\ AbortInv
  /\ UniqueDomains
  /\ HandedOutIsLive

-------------------------------------------------------------------------------
LEMMA SlotsFact == Slots \subseteq Nat /\ \A n \in 0 .. MaxItems : n < MaxItems => n \in Slots
  BY MaxItemsAssumption DEF Slots

(* Starting a call touches only the caller's locals. *)
LEMMA CallPreserves == ASSUME IInv, NEW t \in Threads, NEW c \in Categories, Call(t, c)
                         PROVE IInv'
<1> USE DEF IInv, TypeOK, Goto, storage, locals, Slots, Call
<1>1. TypeOK'
  OBVIOUS
<1>2. LockInv'
  BY DEF InCS, LockInv, Leaving
<1>3. MutualExclusion'
  BY DEF InCS, MutualExclusion
<1>4. CallInv'
  BY NullAssumption DEF CallInv
<1>5. FillInv'
  BY DEF FillInv, Alive
<1>6. ExitInv'
  BY DEF ExitInv, Leaving
<1>7. AbortInv'
  BY DEF AbortInv
<1>8. UniqueDomains'
  BY DEF UniqueDomains
<1>9. HandedOutIsLive'
  BY DEF HandedOutIsLive
<1>10. QED
  BY <1>1, <1>2, <1>3, <1>4, <1>5, <1>6, <1>7, <1>8, <1>9

(* The exchange that reads 0 finds the critical section empty. *)
LEMMA AcquirePreserves == ASSUME IInv, NEW t \in Threads, Acquire(t) PROVE IInv'
<1> USE DEF IInv, TypeOK, Goto, storage, locals, Slots, Acquire
<1>1. TypeOK'
  BY DEF InCS
<1>2. LockInv'
  BY DEF LockInv, Leaving
<1>3. MutualExclusion'
  BY DEF MutualExclusion, LockInv
<1>4. CallInv'
  BY DEF CallInv
<1>5. FillInv'
  BY DEF FillInv, Alive
<1>6. ExitInv'
  BY DEF ExitInv, Leaving
<1>7. AbortInv'
  BY DEF AbortInv
<1>8. UniqueDomains'
  BY DEF UniqueDomains
<1>9. HandedOutIsLive'
  BY DEF HandedOutIsLive
<1>10. QED
  BY <1>1, <1>2, <1>3, <1>4, <1>5, <1>6, <1>7, <1>8, <1>9

(* A hit answers with the slot of the category. *)
LEMMA ScanHitPreserves == ASSUME IInv, NEW t \in Threads, ScanHit(t) PROVE IInv'
<1> USE DEF IInv, TypeOK, Goto, storage, locals, Slots, ScanHit
<1>1. TypeOK'
  BY MaxItemsAssumption DEF InCS
<1>2. LockInv'
  BY DEF LockInv, Leaving
<1>3. MutualExclusion'
  BY DEF MutualExclusion
<1>4. CallInv'
  BY MaxItemsAssumption, NullAssumption DEF CallInv
<1>5. FillInv'
  BY DEF FillInv, Alive
<1>6. ExitInv'
  BY DEF ExitInv, Leaving
<1>7. AbortInv'
  BY DEF AbortInv
<1>8. UniqueDomains'
  BY DEF UniqueDomains
<1>9. HandedOutIsLive'
  BY DEF HandedOutIsLive
<1>10. QED
  BY <1>1, <1>2, <1>3, <1>4, <1>5, <1>6, <1>7, <1>8, <1>9

(* The scan has excluded one more slot. *)
LEMMA ScanNextPreserves == ASSUME IInv, NEW t \in Threads, ScanNext(t) PROVE IInv'
<1> USE DEF IInv, TypeOK, Goto, storage, locals, Slots, ScanNext
<1>1. TypeOK'
  BY MaxItemsAssumption
<1>2. LockInv'
  BY DEF LockInv, Leaving
<1>3. MutualExclusion'
  BY DEF MutualExclusion
<1>4. CallInv'
  BY DEF CallInv
<1>5. FillInv'
  BY DEF FillInv, Alive
<1>6. ExitInv'
  BY DEF ExitInv, Leaving
<1>7. AbortInv'
  BY DEF AbortInv
<1>8. UniqueDomains'
  BY DEF UniqueDomains
<1>9. HandedOutIsLive'
  BY DEF HandedOutIsLive
<1>10. QED
  BY <1>1, <1>2, <1>3, <1>4, <1>5, <1>6, <1>7, <1>8, <1>9

(* The scan has excluded all slots below count: the category is new. *)
LEMMA ReservePreserves == ASSUME IInv, NEW t \in Threads, Reserve(t) PROVE IInv'
<1> USE DEF IInv, TypeOK, Goto, storage, locals, Slots, Reserve
<1>1. TypeOK'
  BY MaxItemsAssumption DEF InCS
<1>2. LockInv'
  BY DEF LockInv, Leaving
<1>3. MutualExclusion'
  BY DEF MutualExclusion
<1>4. CallInv'
  BY MaxItemsAssumption DEF CallInv, MutualExclusion, FillInv, Alive
<1>5. FillInv'
  BY DEF FillInv, Alive
<1>6. ExitInv'
  BY DEF ExitInv, Leaving
<1>7. AbortInv'
  BY DEF AbortInv
<1>8. UniqueDomains'
  BY DEF UniqueDomains
<1>9. HandedOutIsLive'
  BY DEF HandedOutIsLive
<1>10. QED
  BY <1>1, <1>2, <1>3, <1>4, <1>5, <1>6, <1>7, <1>8, <1>9

(* The table is full of other categories. *)
LEMMA ScanFullPreserves == ASSUME IInv, NEW t \in Threads, ScanFull(t) PROVE IInv'
<1> USE DEF IInv, TypeOK, Goto, storage, locals, Slots, ScanFull
<1>1. TypeOK'
  BY DEF InCS
<1>2. LockInv'
  BY DEF LockInv, Leaving
<1>3. MutualExclusion'
  BY DEF MutualExclusion
<1>4. CallInv'
  BY MaxItemsAssumption DEF InCS, CallInv, MutualExclusion, FillInv, Alive
<1>5. FillInv'
  BY DEF FillInv, Alive
<1>6. ExitInv'
  BY DEF ExitInv, Leaving
<1>7. AbortInv'
  BY DEF AbortInv
<1>8. UniqueDomains'
  BY DEF UniqueDomains
<1>9. HandedOutIsLive'
  BY DEF HandedOutIsLive
<1>10. QED
  BY <1>1, <1>2, <1>3, <1>4, <1>5, <1>6, <1>7, <1>8, <1>9

(* The only slot without a domain gets one, of a category no other slot has. *)
LEMMA BuildPreserves == ASSUME IInv, NEW t \in Threads, Build(t) PROVE IInv'
<1> USE DEF IInv, TypeOK, Goto, storage, locals, Slots, Build
<1>1. TypeOK'
  BY DEF InCS, CallInv
<1>2. LockInv'
  BY DEF LockInv, Leaving
<1>3. MutualExclusion'
  BY DEF MutualExclusion
<1>4. CallInv'
  BY MaxItemsAssumption, NullAssumption, ItemAssumption DEF CallInv, MutualExclusion
<1>5. FillInv'
  BY DEF FillInv, Alive, CallInv
<1>6. ExitInv'
  BY DEF ExitInv, Leaving
<1>7. AbortInv'
  BY DEF AbortInv
<1>8. UniqueDomains'
  BY DEF UniqueDomains, CallInv, FillInv, Alive
<1>9. HandedOutIsLive'
  BY ItemAssumption DEF HandedOutIsLive, CallInv
<1>10. QED
  BY <1>1, <1>2, <1>3, <1>4, <1>5, <1>6, <1>7, <1>8, <1>9

(* The process ends. *)
LEMMA BuildThrowsPreserves == ASSUME IInv, NEW t \in Threads, BuildThrows(t) PROVE IInv'
<1> USE DEF IInv, TypeOK, Goto, storage, locals, Slots, BuildThrows
<1>1. TypeOK'
  OBVIOUS
<1>2. LockInv'
  BY DEF LockInv, Leaving
<1>3. MutualExclusion'
  BY DEF MutualExclusion
<1>4. CallInv'
  BY DEF CallInv
<1>5. FillInv'
  BY DEF FillInv, Alive
<1>6. ExitInv'
  BY DEF ExitInv, Leaving
<1>7. AbortInv'
  BY DEF AbortInv
<1>8. UniqueDomains'
  BY DEF UniqueDomains
<1>9. HandedOutIsLive'
  BY DEF HandedOutIsLive
<1>10. QED
  BY <1>1, <1>2, <1>3, <1>4, <1>5, <1>6, <1>7, <1>8, <1>9

(* The holder leaves, and it was alone. *)
LEMMA UnlockPreserves == ASSUME IInv, NEW t \in Threads, Unlock(t) PROVE IInv'
<1> USE DEF IInv, TypeOK, Goto, storage, locals, Slots, Unlock
<1>1. TypeOK'
  OBVIOUS
<1>2. LockInv'
  BY DEF InCS, LockInv, Leaving, MutualExclusion
<1>3. MutualExclusion'
  BY DEF MutualExclusion
<1>4. CallInv'
  BY DEF CallInv
<1>5. FillInv'
  BY DEF FillInv, Alive
<1>6. ExitInv'
  BY DEF ExitInv, Leaving
<1>7. AbortInv'
  BY DEF AbortInv
<1>8. UniqueDomains'
  BY DEF UniqueDomains
<1>9. HandedOutIsLive'
  BY DEF HandedOutIsLive
<1>10. QED
  BY <1>1, <1>2, <1>3, <1>4, <1>5, <1>6, <1>7, <1>8, <1>9

(* The returned domain was found or built by this call. *)
LEMMA ReturnPreserves == ASSUME IInv, NEW t \in Threads, Return(t) PROVE IInv'
<1> USE DEF IInv, TypeOK, Goto, storage, locals, Slots, Return
<1>1. TypeOK'
  BY MaxItemsAssumption DEF CallInv
<1>2. LockInv'
  BY DEF InCS, LockInv, Leaving
<1>3. MutualExclusion'
  BY DEF InCS, MutualExclusion
<1>4. CallInv'
  BY DEF CallInv
<1>5. FillInv'
  BY DEF FillInv, Alive
<1>6. ExitInv'
  BY DEF ExitInv, Leaving
<1>7. AbortInv'
  BY DEF AbortInv
<1>8. UniqueDomains'
  BY DEF UniqueDomains
<1>9. HandedOutIsLive'
  BY DEF HandedOutIsLive, CallInv
<1>10. QED
  BY <1>1, <1>2, <1>3, <1>4, <1>5, <1>6, <1>7, <1>8, <1>9

(* The call returned the null pointer. *)
LEMMA AbortPreserves == ASSUME IInv, NEW t \in Threads, Abort(t) PROVE IInv'
<1> USE DEF IInv, TypeOK, Goto, storage, locals, Slots, Abort
<1>1. TypeOK'
  OBVIOUS
<1>2. LockInv'
  BY DEF LockInv, Leaving
<1>3. MutualExclusion'
  BY DEF MutualExclusion
<1>4. CallInv'
  BY DEF CallInv
<1>5. FillInv'
  BY DEF FillInv, Alive
<1>6. ExitInv'
  BY DEF ExitInv, Leaving
<1>7. AbortInv'
  BY DEF AbortInv
<1>8. UniqueDomains'
  BY DEF UniqueDomains
<1>9. HandedOutIsLive'
  BY DEF HandedOutIsLive
<1>10. QED
  BY <1>1, <1>2, <1>3, <1>4, <1>5, <1>6, <1>7, <1>8, <1>9

(* No call is in progress. *)
LEMMA ExitPreserves == ASSUME IInv, Exit PROVE IInv'
<1> USE DEF IInv, TypeOK, Goto, storage, locals, Slots, Exit
<1>1. TypeOK'
  OBVIOUS
<1>2. LockInv'
  BY DEF LockInv
<1>3. MutualExclusion'
  BY DEF MutualExclusion
<1>4. CallInv'
  BY DEF CallInv
<1>5. FillInv'
  BY DEF FillInv, Alive
<1>6. ExitInv'
  BY DEF ExitInv, FillInv, Alive
<1>7. AbortInv'
  BY DEF AbortInv
<1>8. UniqueDomains'
  BY DEF UniqueDomains
<1>9. HandedOutIsLive'
  BY DEF HandedOutIsLive
<1>10. QED
  BY <1>1, <1>2, <1>3, <1>4, <1>5, <1>6, <1>7, <1>8, <1>9

(* The destructor takes the lock. *)
LEMMA ExitAcquirePreserves == ASSUME IInv, ExitAcquire PROVE IInv'
<1> USE DEF IInv, TypeOK, Goto, storage, locals, Slots, ExitAcquire
<1>1. TypeOK'
  OBVIOUS
<1>2. LockInv'
  BY DEF LockInv, Leaving
<1>3. MutualExclusion'
  BY DEF MutualExclusion
<1>4. CallInv'
  BY DEF CallInv
<1>5. FillInv'
  BY DEF FillInv, Alive
<1>6. ExitInv'
  BY DEF ExitInv, Leaving
<1>7. AbortInv'
  BY DEF AbortInv
<1>8. UniqueDomains'
  BY DEF UniqueDomains
<1>9. HandedOutIsLive'
  BY DEF HandedOutIsLive
<1>10. QED
  BY <1>1, <1>2, <1>3, <1>4, <1>5, <1>6, <1>7, <1>8, <1>9

(* One more slot is destroyed. *)
LEMMA ExitDestroyPreserves == ASSUME IInv, ExitDestroy PROVE IInv'
<1> USE DEF IInv, TypeOK, Goto, storage, locals, Slots, ExitDestroy
<1>1. TypeOK'
  BY MaxItemsAssumption
<1>2. LockInv'
  BY DEF LockInv, Leaving
<1>3. MutualExclusion'
  BY DEF MutualExclusion
<1>4. CallInv'
  BY DEF CallInv, LockInv, Leaving
<1>5. FillInv'
  BY DEF FillInv, Alive
<1>6. ExitInv'
  BY DEF ExitInv, Leaving
<1>7. AbortInv'
  BY DEF AbortInv
<1>8. UniqueDomains'
  BY ItemAssumption DEF UniqueDomains
<1>9. HandedOutIsLive'
  BY DEF HandedOutIsLive
<1>10. QED
  BY <1>1, <1>2, <1>3, <1>4, <1>5, <1>6, <1>7, <1>8, <1>9

(* The destructor has passed every slot below count. *)
LEMMA ExitUnlockPreserves == ASSUME IInv, ExitUnlock PROVE IInv'
<1> USE DEF IInv, TypeOK, Goto, storage, locals, Slots, ExitUnlock
<1>1. TypeOK'
  OBVIOUS
<1>2. LockInv'
  BY DEF InCS, LockInv, Leaving
<1>3. MutualExclusion'
  BY DEF MutualExclusion
<1>4. CallInv'
  BY DEF CallInv
<1>5. FillInv'
  BY DEF FillInv, Alive
<1>6. ExitInv'
  BY DEF ExitInv, Leaving
<1>7. AbortInv'
  BY DEF AbortInv
<1>8. UniqueDomains'
  BY DEF UniqueDomains
<1>9. HandedOutIsLive'
  BY DEF HandedOutIsLive
<1>10. QED
  BY <1>1, <1>2, <1>3, <1>4, <1>5, <1>6, <1>7, <1>8, <1>9

-------------------------------------------------------------------------------
LEMMA InitEstablishes == Init => IInv
BY MaxItemsAssumption, NullAssumption, ItemAssumption
   DEF Init, IInv, TypeOK, LockInv, MutualExclusion, CallInv, FillInv, ExitInv, AbortInv,
       UniqueDomains, HandedOutIsLive, Alive, Leaving, InCS, Slots

LEMMA StutterPreserves == ASSUME IInv, UNCHANGED vars PROVE IInv'
BY DEF IInv, TypeOK, LockInv, MutualExclusion, CallInv, FillInv, ExitInv, AbortInv,
       UniqueDomains, HandedOutIsLive, Alive, Leaving, vars, storage, locals

LEMMA NextPreserves == IInv /\ [Next]_vars => IInv'
<1> SUFFICES ASSUME IInv, [Next]_vars PROVE IInv'
  OBVIOUS
<1>1. ASSUME NEW t \in Threads, NEW c \in Categories, Call(t, c) PROVE IInv'
  BY <1>1, CallPreserves
<1>2. ASSUME NEW t \in Threads, Step(t) PROVE IInv'
  BY <1>2, AcquirePreserves, ScanHitPreserves, ScanNextPreserves, ReservePreserves,
     ScanFullPreserves, BuildPreserves, BuildThrowsPreserves, UnlockPreserves,
     ReturnPreserves, AbortPreserves
     DEF Step
<1>3. CASE Exit \/ ExitAcquire \/ ExitDestroy \/ ExitUnlock
  BY <1>3, ExitPreserves, ExitAcquirePreserves, ExitDestroyPreserves, ExitUnlockPreserves
<1>4. CASE UNCHANGED vars
  BY <1>4, StutterPreserves
<1>5. QED
  BY <1>1, <1>2, <1>3, <1>4 DEF Next

(* The inductive invariant of the table holds of every behaviour. *)
THEOREM Invariance == Spec => []IInv
BY InitEstablishes, NextPreserves, PTL DEF Spec

(* Type correctness of the table and of every thread's locals. *)
THEOREM TypeCorrect == Spec => []TypeOK
<1>1. IInv => TypeOK
  BY DEF IInv
<1>2. QED
  BY <1>1, Invariance, PTL

(* The test-and-set lock excludes, for any number of threads. *)
THEOREM LockExcludes == Spec => []MutualExclusion
<1>1. IInv => MutualExclusion
  BY DEF IInv
<1>2. QED
  BY <1>1, Invariance, PTL

(* No category ever has two domains. *)
THEOREM DomainsAreUnique == Spec => []UniqueDomains
<1>1. IInv => UniqueDomains
  BY DEF IInv
<1>2. QED
  BY <1>1, Invariance, PTL

(* The pointer a status code holds refers to the domain of its category. *)
THEOREM HandedOutStaysLive == Spec => []HandedOutIsLive
<1>1. IInv => HandedOutIsLive
  BY DEF IInv
<1>2. QED
  BY <1>1, Invariance, PTL

(* A scan reads constructed domains only, though count is raised first. *)
THEOREM ScanReadsBuilt == Spec => []ScansOnlyBuilt
<1>1. IInv => ScansOnlyBuilt
  <2> SUFFICES ASSUME IInv, NEW t \in Threads, pc[t] = "scan", idx[t] < count
               PROVE  items[idx[t]] \in Categories
    BY DEF ScansOnlyBuilt
  <2>1. Alive
    BY DEF IInv, TypeOK, LockInv, Alive, Leaving
  <2>2. idx[t] \in Slots
    BY MaxItemsAssumption DEF IInv, TypeOK, Slots
  <2>3. ~ \E u \in Threads : pc[u] = "build"
    BY DEF IInv, MutualExclusion, InCS
  <2>4. QED
    BY <2>1, <2>2, <2>3 DEF IInv, FillInv
<1>2. QED
  BY <1>1, Invariance, PTL

(* abort() means: a new category, and every slot owned by another one. *)
THEOREM AbortMeansFull == Spec => []AbortOnlyWhenFull
<1>1. IInv => AbortOnlyWhenFull
  BY DEF IInv, AbortInv, CallInv, AbortOnlyWhenFull
<1>2. QED
  BY <1>1, Invariance, PTL

(* Static destruction destroys exactly the domains that were built. *)
THEOREM ExitIsComplete == Spec => []ExitDestroysAll
<1>1. IInv => ExitDestroysAll
  BY DEF IInv, TypeOK, ExitInv, Leaving, ExitDestroysAll, Slots
<1>2. QED
  BY <1>1, Invariance, PTL

(* A built domain keeps its slot: the raw pointers to it stay good. *)
THEOREM SlotsAreStable == Spec => SlotStable
<1> DEFINE Keeps == process = "running" => \A s \in Slots : items[s] # Raw => items'[s] = items[s]
<1>1. IInv /\ [Next]_vars => [Keeps]_vars
  <2> SUFFICES ASSUME IInv, Next, process = "running", NEW s \in Slots, items[s] # Raw
               PROVE  items'[s] = items[s]
    BY DEF vars
  <2>1. ASSUME NEW t \in Threads, Build(t) PROVE items'[s] = items[s]
    BY <2>1 DEF Build, IInv, TypeOK, CallInv
  <2>2. CASE ~ \E t \in Threads : Build(t)
    BY <2>2 DEF Next, Step, Call, Acquire, ScanHit, ScanNext, Reserve, ScanFull, BuildThrows,
                Unlock, Return, Abort, Exit, ExitAcquire, ExitDestroy, ExitUnlock, storage, vars
  <2>3. QED
    BY <2>1, <2>2
<1>2. QED
  BY <1>1, Invariance, PTL DEF Spec, SlotStable

-------------------------------------------------------------------------------
(* Why the lock is released and entered, whatever the scheduler does: what *)
(* the two liveness properties of the table rest on besides fairness.      *)

(* Nobody leaves without giving the lock back: while it is taken there is  *)
(* a thread between lock() and unlock(), or the destructor is.             *)
LockHasHolder == lock = 1 => process = "exitscan" \/ \E t \in Threads : pc[t] \in InCS

THEOREM LockIsNeverOrphaned == Spec => []LockHasHolder
<1>1. Init => LockHasHolder
  BY DEF Init, LockHasHolder
<1>2. IInv /\ LockHasHolder /\ [Next]_vars => LockHasHolder'
  <2> SUFFICES ASSUME IInv, LockHasHolder, [Next]_vars, lock' = 1
               PROVE  process' = "exitscan" \/ \E t \in Threads : pc'[t] \in InCS
    BY DEF LockHasHolder
  <2>1. pc \in [Threads -> {"idle", "lock", "got"} \cup InCS]
    BY DEF IInv, TypeOK
  <2>2. ASSUME NEW u \in Threads, Step(u) \/ \E c \in Categories : Call(u, c), pc[u] \in InCS
        PROVE  pc'[u] \in InCS
    BY <2>1, <2>2 DEF Step, Call, Acquire, ScanHit, ScanNext, Reserve, ScanFull, Build, BuildThrows,
       Unlock, Return, Abort, Goto, InCS
  <2>3. ASSUME NEW u \in Threads, Step(u) \/ \E c \in Categories : Call(u, c), pc[u] \notin InCS
        PROVE  \/ pc'[u] \in InCS
               \/ /\ lock' = lock /\ process # "exitscan"
                  /\ \A t \in Threads : pc[t] \in InCS => pc'[t] = pc[t]
    BY <2>1, <2>3 DEF Step, Call, Acquire, ScanHit, ScanNext, Reserve, ScanFull, Build, BuildThrows,
       Unlock, Return, Abort, Goto, InCS, storage
  <2>4. ASSUME NEW u \in Threads, Step(u) \/ \E c \in Categories : Call(u, c)
        PROVE  \E t \in Threads : pc'[t] \in InCS
    <3>1. CASE pc[u] \in InCS
      BY <2>2, <2>4, <3>1
    <3>2. CASE pc[u] \notin InCS
      BY <2>3, <2>4, <3>2 DEF LockHasHolder
    <3>3. QED
      BY <3>1, <3>2
  <2>5. CASE Exit
    BY <2>5 DEF Exit, storage, LockHasHolder, InCS
  <2>6. CASE ExitAcquire \/ ExitDestroy
    BY <2>6 DEF ExitAcquire, ExitDestroy
  <2>7. CASE ExitUnlock
    BY <2>7 DEF ExitUnlock
  <2>8. CASE UNCHANGED vars
    BY <2>8 DEF vars, storage, LockHasHolder
  <2>9. QED
    BY <2>4, <2>5, <2>6, <2>7, <2>8 DEF Next
<1>3. QED
  BY <1>1, <1>2, Invariance, PTL DEF Spec

(* The destructor's lock() never spins: no call holds the lock at exit.    *)
THEOREM ExitNeverWaits == Spec => [](process = "exitlock" => lock = 0)
<1>1. IInv /\ LockHasHolder => (process = "exitlock" => lock = 0)
  BY DEF IInv, TypeOK, LockInv, Leaving, LockHasHolder, InCS
<1>2. QED
  BY <1>1, Invariance, LockIsNeverOrphaned, PTL

(* How many steps a thread is at most away from giving the lock back.      *)
StepsLeft(t) ==
  CASE pc[t] = "scan" -> MaxItems - idx[t] + 3
    [] pc[t] = "build" -> 2
    [] pc[t] = "unlock" -> 1
    [] OTHER -> 0

(* Each step of the holder brings it nearer to unlock(), unless it ends    *)
(* the process, and no other thread takes it further away.                 *)
HolderGetsNearer ==
  \A t \in Threads : pc[t] \in InCS =>
    IF Step(t) THEN StepsLeft(t)' < StepsLeft(t) \/ Stopped'
    ELSE StepsLeft(t)' = StepsLeft(t)

(* Whoever holds the lock gives it back within MaxItems + 3 steps of its   *)
(* own: the loop over the items is the only one, and it is bounded.        *)
THEOREM HolderFinishes ==
  Spec => /\ [][HolderGetsNearer]_vars
          /\ [](\A t \in Threads : /\ StepsLeft(t) \in 0 .. MaxItems + 3
                                   /\ StepsLeft(t) = 0 <=> pc[t] \notin InCS)
<1>1. ASSUME IInv, Next PROVE HolderGetsNearer
  <2> SUFFICES ASSUME NEW t \in Threads, pc[t] \in InCS
               PROVE  IF Step(t) THEN StepsLeft(t)' < StepsLeft(t) \/ Stopped'
                      ELSE StepsLeft(t)' = StepsLeft(t)
    BY DEF HolderGetsNearer
  <2>1. /\ pc \in [Threads -> {"idle", "lock", "got"} \cup InCS]
        /\ idx \in [Threads -> 0 .. MaxItems] /\ count \in 0 .. MaxItems
        /\ MaxItems \in Nat
    BY <1>1, MaxItemsAssumption DEF IInv, TypeOK
  <2>2. CASE ScanNext(t)
    <3>1. /\ StepsLeft(t) = MaxItems - idx[t] + 3
          /\ StepsLeft(t)' = MaxItems - (idx[t] + 1) + 3
      BY <2>1, <2>2 DEF ScanNext, StepsLeft
    <3>2. QED
      BY <2>1, <2>2, <3>1 DEF Step
  <2>3. CASE ScanHit(t) \/ Reserve(t) \/ ScanFull(t)
    <3>1. /\ StepsLeft(t) = MaxItems - idx[t] + 3
          /\ StepsLeft(t)' \in {1, 2}
      BY <2>1, <2>3 DEF ScanHit, Reserve, ScanFull, Goto, StepsLeft
    <3>2. QED
      BY <2>1, <2>3, <3>1 DEF ScanHit, Reserve, ScanFull, Step
  <2>4. CASE Build(t) \/ Unlock(t)
    BY <2>1, <2>4 DEF Build, Unlock, Goto, StepsLeft, Step
  <2>5. CASE BuildThrows(t)
    BY <2>5 DEF BuildThrows, Step, Stopped
  <2>6. CASE ~Step(t)
    <3>1. pc'[t] = pc[t] /\ idx'[t] = idx[t]
      BY <1>1, <2>1, <2>6 DEF Next, Step, Call, Acquire, ScanHit, ScanNext, Reserve, ScanFull, Build,
         BuildThrows, Unlock, Return, Abort, Exit, ExitAcquire, ExitDestroy, ExitUnlock, Goto,
         storage, locals, vars, InCS
    <3>2. QED
      BY <2>6, <3>1 DEF StepsLeft
  <2>7. ~Acquire(t) /\ ~Return(t) /\ ~Abort(t)
    BY DEF Acquire, Return, Abort, InCS
  <2>8. QED
    BY <2>2, <2>3, <2>4, <2>5, <2>6, <2>7 DEF Step
<1>2. ASSUME IInv, NEW t \in Threads
      PROVE  StepsLeft(t) \in 0 .. MaxItems + 3 /\ (StepsLeft(t) = 0 <=> pc[t] \notin InCS)
  BY <1>2, MaxItemsAssumption DEF IInv, TypeOK, StepsLeft, InCS
<1>3. IInv => \A t \in Threads : /\ StepsLeft(t) \in 0 .. MaxItems + 3
                                 /\ StepsLeft(t) = 0 <=> pc[t] \notin InCS
  BY <1>2
<1>4. QED
  BY <1>1, <1>3, Invariance, PTL DEF Spec

-------------------------------------------------------------------------------
(* The spin-locked array implements the interning table. *)
(* A category owns at most one slot, so SlotOf is the slot that holds it. *)
LEMMA SlotOfOwner ==
  ASSUME UniqueDomains, NEW c \in Categories, NEW s \in Slots, items[s] = c
  PROVE  SlotOf(c) = s
BY DEF UniqueDomains, SlotOf

LEMMA SlotOfOwnerNext ==
  ASSUME UniqueDomains', NEW c \in Categories, NEW s \in Slots, items'[s] = c
  PROVE  SlotOf(c)' = s
BY DEF UniqueDomains, SlotOf

LEMMA SlotOfNobody ==
  ASSUME NEW c \in Categories, \A s \in Slots : items[s] # c
  PROVE  SlotOf(c) = Null
BY DEF SlotOf

(* A step that leaves the items alone leaves the abstract table alone. *)
LEMMA SlotOfUnchanged ==
  ASSUME items' = items, NEW c \in Categories
  PROVE  SlotOf(c)' = SlotOf(c)
BY DEF SlotOf

LEMMA InitRefines == Init => Interning!Init
<1> SUFFICES ASSUME Init PROVE Interning!Init
  OBVIOUS
<1>1. ASSUME NEW c \in Categories PROVE SlotOf(c) = Null
  BY ItemAssumption, SlotOfNobody DEF Init
<1>2. QED
  BY <1>1 DEF Init, Interning!Init, Decided

-------------------------------------------------------------------------------
(* Starting a call is Ask. *)
LEMMA CallRefines ==
  ASSUME IInv, NEW t \in Threads, NEW c \in Categories, Call(t, c)
  PROVE  Interning!Ask(t, c)
<1>1. \A k \in Categories : SlotOf(k)' = SlotOf(k)
  BY SlotOfUnchanged DEF Call, storage
<1>2. QED
  BY <1>1 DEF Interning!Ask, Call, IInv, TypeOK, CallInv, Decided, Goto, locals

(* Steps inside the critical section that neither find nor build a domain, *)
(* and lock() and unlock() themselves, are invisible.                      *)
LEMMA InternalStutters ==
  ASSUME IInv, NEW t \in Threads,
         Acquire(t) \/ ScanNext(t) \/ Reserve(t) \/ ScanFull(t) \/ Unlock(t)
  PROVE  UNCHANGED Interning!vars
<1> DEFINE Answer == [u \in Threads |-> IF Decided(u) THEN ret[u] ELSE Null]
<1>1. \A k \in Categories : SlotOf(k)' = SlotOf(k)
  BY SlotOfUnchanged DEF Acquire, ScanNext, Reserve, ScanFull, Unlock, storage
<1>2. Answer' = Answer
  BY DEF Acquire, ScanNext, Reserve, ScanFull, Unlock, IInv, TypeOK, CallInv, Decided, Goto, locals
<1>3. UNCHANGED <<arg, handed, process>>
  BY DEF Acquire, ScanNext, Reserve, ScanFull, Unlock, locals
<1>4. QED
  BY <1>1, <1>2, <1>3 DEF Interning!vars

LEMMA ScanHitRefines ==
  ASSUME IInv, NEW t \in Threads, ScanHit(t)
  PROVE  Interning!Find(t)
<1>1. \A k \in Categories : SlotOf(k)' = SlotOf(k)
  BY SlotOfUnchanged DEF ScanHit, storage
<1>2. arg[t] \in Categories /\ idx[t] \in Slots /\ items[idx[t]] = arg[t]
  BY MaxItemsAssumption DEF ScanHit, IInv, TypeOK, CallInv, Slots
<1>3. SlotOf(arg[t]) = idx[t]
  BY <1>2, SlotOfOwner DEF IInv
<1>4. QED
  BY <1>1, <1>2, <1>3, NullAssumption
     DEF ScanHit, Interning!Find, IInv, TypeOK, Decided, Goto, storage

(* Constructing the domain gives a new category a slot nobody had. *)
LEMMA BuildRefines ==
  ASSUME IInv, IInv', NEW t \in Threads, Build(t)
  PROVE  Interning!Adopt(t)
<1> DEFINE d == ret[t]
<1>1. /\ arg[t] \in Categories
      /\ d \in Slots
      /\ items[d] = Raw
      /\ items' = [items EXCEPT ![d] = arg[t]]
  BY MaxItemsAssumption DEF Build, IInv, TypeOK, CallInv, Slots
<1>2. \A s \in Slots : items[s] # arg[t]
  <2> SUFFICES ASSUME NEW s \in Slots, items[s] = arg[t] PROVE FALSE
    OBVIOUS
  <2>1. ~ s < count - 1
    BY DEF Build, IInv, CallInv
  <2>2. ~ s >= count
    BY <1>1, ItemAssumption DEF Build, IInv, FillInv, Alive
  <2>3. s # count - 1
    BY <1>1, ItemAssumption DEF Build, IInv, CallInv
  <2>4. QED
    BY <2>1, <2>2, <2>3 DEF IInv, TypeOK, Slots
<1>3. SlotOf(arg[t]) = Null
  BY <1>1, <1>2, SlotOfNobody
<1>4. d \notin Interning!Used
  <2> SUFFICES ASSUME NEW c \in Categories, SlotOf(c) = d PROVE FALSE
    BY DEF Interning!Used
  <2>1. \E s \in Slots : items[s] = c
    BY <1>1, NullAssumption DEF SlotOf
  <2>2. PICK s \in Slots : items[s] = c
    BY <2>1
  <2>3. s = d
    BY <2>2, SlotOfOwner DEF IInv
  <2>4. QED
    BY <1>1, <2>2, <2>3, ItemAssumption
<1>5. SlotOf(arg[t])' = d
  <2>1. arg' = arg
    BY DEF Build, locals
  <2>2. items'[d] = arg[t]
    BY <1>1 DEF IInv, TypeOK
  <2>3. UniqueDomains'
    BY DEF IInv
  <2>4. \A c \in Categories : c = arg[t] => SlotOf(c)' = d
    BY <1>1, <2>2, <2>3, SlotOfOwnerNext
  <2>5. QED
    BY <1>1, <2>1, <2>4
<1>6. ASSUME NEW c \in Categories, c # arg[t] PROVE SlotOf(c)' = SlotOf(c)
  <2>1. CASE \E s \in Slots : items[s] = c
    <3>1. PICK s \in Slots : items[s] = c
      BY <2>1
    <3>2. items'[s] = c
      BY <1>1, <3>1, ItemAssumption DEF IInv, TypeOK
    <3>3. QED
      BY <3>1, <3>2, SlotOfOwner, SlotOfOwnerNext DEF IInv
  <2>2. CASE \A s \in Slots : items[s] # c
    <3>1. \A s \in Slots : items'[s] # c
      BY <1>1, <1>6, <2>2 DEF IInv, TypeOK
    <3>2. QED
      BY <2>2, <3>1 DEF SlotOf
  <2>3. QED
    BY <2>1, <2>2
<1>7. [c \in Categories |-> SlotOf(c)]' = [[c \in Categories |-> SlotOf(c)] EXCEPT ![arg[t]] = d]
  <2>1. arg' = arg
    BY DEF Build, locals
  <2>2. QED
    BY <1>1, <1>5, <1>6, <2>1
<1>8. QED
  BY <1>1, <1>3, <1>4, <1>7, NullAssumption
     DEF Build, Interning!Adopt, IInv, TypeOK, Decided, Goto, locals

(* The other steps of a call, and static destruction. *)
LEMMA BuildThrowsRefines ==
  ASSUME IInv, NEW t \in Threads, BuildThrows(t)
  PROVE  Interning!Throw(t)
<1>1. \A k \in Categories : SlotOf(k)' = SlotOf(k)
  BY SlotOfUnchanged DEF BuildThrows, storage
<1>2. arg[t] \in Categories /\ \A s \in Slots : items[s] # arg[t]
  <2>1. \A s \in Slots : s >= count => items[s] = Raw
    BY DEF BuildThrows, IInv, FillInv, Alive
  <2>2. QED
    BY <2>1, ItemAssumption, MaxItemsAssumption DEF BuildThrows, IInv, TypeOK, CallInv, Slots
<1>3. SlotOf(arg[t]) = Null
  BY <1>2, SlotOfNobody
<1>4. QED
  BY <1>1, <1>2, <1>3, NullAssumption
     DEF BuildThrows, Interning!Throw, IInv, TypeOK, CallInv, Decided, locals

LEMMA ReturnRefines ==
  ASSUME IInv, NEW t \in Threads, Return(t)
  PROVE  Interning!Reply(t)
<1>1. \A k \in Categories : SlotOf(k)' = SlotOf(k)
  BY SlotOfUnchanged DEF Return, storage
<1>2. QED
  BY <1>1 DEF Return, Interning!Reply, IInv, TypeOK, Decided, Goto

(* When abort() strikes every slot is owned, and by another category. *)
LEMMA AbortRefines ==
  ASSUME IInv, NEW t \in Threads, Abort(t)
  PROVE  Interning!Overflow(t)
<1>1. \A k \in Categories : SlotOf(k)' = SlotOf(k)
  BY SlotOfUnchanged DEF Abort, storage
<1>2. arg[t] \in Categories /\ \A s \in Slots : items[s] \in Categories \ {arg[t]}
  BY DEF Abort, IInv, TypeOK, CallInv
<1>3. SlotOf(arg[t]) = Null
  BY <1>2, SlotOfNobody
<1>4. \A s \in Slots : \E c \in Categories : SlotOf(c) = s
  BY <1>2, SlotOfOwner DEF IInv
<1>5. QED
  BY <1>1, <1>2, <1>3, <1>4, NullAssumption
     DEF Abort, Interning!Overflow, Interning!Used, IInv, TypeOK, Decided, locals

LEMMA ExitRefines ==
  ASSUME IInv, Exit
  PROVE  Interning!BeginExit
<1>1. \A k \in Categories : SlotOf(k)' = SlotOf(k)
  BY SlotOfUnchanged DEF Exit, storage
<1>2. QED
  BY <1>1 DEF Exit, Interning!BeginExit, IInv, CallInv, Decided, locals

LEMMA ExitAcquireStutters ==
  ASSUME IInv, ExitAcquire
  PROVE  UNCHANGED Interning!vars
<1>1. \A k \in Categories : SlotOf(k)' = SlotOf(k)
  BY SlotOfUnchanged DEF ExitAcquire
<1>2. QED
  BY <1>1 DEF ExitAcquire, Interning!vars, Decided, locals

LEMMA ExitDestroyRefines ==
  ASSUME IInv, IInv', ExitDestroy
  PROVE  \E c \in Categories : Interning!Discard(c)
<1> DEFINE k == items[exitIdx]
<1>1. exitIdx \in Slots /\ k \in Categories /\ items' = [items EXCEPT ![exitIdx] = Gone]
  BY MaxItemsAssumption DEF ExitDestroy, IInv, TypeOK, LockInv, ExitInv, Leaving, Slots
<1>2. SlotOf(k) = exitIdx
  BY <1>1, SlotOfOwner DEF IInv
<1>3. \A s \in Slots : items'[s] # k
  BY <1>1, ItemAssumption DEF IInv, TypeOK, UniqueDomains
<1>4. ASSUME NEW c \in Categories, c # k PROVE SlotOf(c)' = SlotOf(c)
  <2>1. CASE \E s \in Slots : items[s] = c
    <3>1. PICK s \in Slots : items[s] = c
      BY <2>1
    <3>2. items'[s] = c
      BY <1>1, <1>4, <3>1 DEF IInv, TypeOK
    <3>3. QED
      BY <3>1, <3>2, SlotOfOwner, SlotOfOwnerNext DEF IInv
  <2>2. CASE \A s \in Slots : items[s] # c
    <3>1. \A s \in Slots : items'[s] # c
      BY <1>1, <2>2, ItemAssumption DEF IInv, TypeOK
    <3>2. QED
      BY <2>2, <3>1 DEF SlotOf
  <2>3. QED
    BY <2>1, <2>2
<1>5. ASSUME NEW c \in Categories, c = k PROVE SlotOf(c)' = Null
  BY <1>3, <1>5 DEF SlotOf
<1>6. [c \in Categories |-> SlotOf(c)]' = [[c \in Categories |-> SlotOf(c)] EXCEPT ![k] = Null]
  BY <1>1, <1>4, <1>5
<1>7. Interning!Discard(k)
  BY <1>1, <1>2, <1>6, NullAssumption DEF ExitDestroy, Interning!Discard, Decided, locals
<1>8. QED
  BY <1>1, <1>7

LEMMA ExitUnlockRefines ==
  ASSUME IInv, ExitUnlock
  PROVE  Interning!EndExit
<1>1. \A c \in Categories : SlotOf(c)' = SlotOf(c)
  BY SlotOfUnchanged DEF ExitUnlock
<1>2. \A s \in Slots : items[s] \notin Categories
  BY ItemAssumption DEF ExitUnlock, IInv, TypeOK, ExitInv, Leaving, Slots
<1>3. \A c \in Categories : SlotOf(c) = Null
  BY <1>2, SlotOfNobody
<1>4. Interning!Used = {}
  BY <1>3, NullAssumption DEF Interning!Used
<1>5. QED
  BY <1>1, <1>4 DEF ExitUnlock, Interning!EndExit, Decided, locals

-------------------------------------------------------------------------------
(* The detailed table implements the abstract one. *)
THEOREM TableInterns == Spec => InternsCategories
<1>1. IInv /\ IInv' /\ [Next]_vars => [Interning!Next]_(Interning!vars)
  <2> SUFFICES ASSUME IInv, IInv', [Next]_vars
               PROVE  Interning!Next \/ UNCHANGED Interning!vars
    OBVIOUS
  <2>1. ASSUME NEW t \in Threads, NEW c \in Categories, Call(t, c) PROVE Interning!Next
    BY <2>1, CallRefines DEF Interning!Next
  <2>2. ASSUME NEW t \in Threads, Step(t) PROVE Interning!Next \/ UNCHANGED Interning!vars
    BY <2>2, InternalStutters, ScanHitRefines, BuildRefines, BuildThrowsRefines, ReturnRefines,
       AbortRefines
       DEF Step, Interning!Next
  <2>3. CASE Exit \/ ExitAcquire \/ ExitDestroy \/ ExitUnlock
    BY <2>3, ExitRefines, ExitAcquireStutters, ExitDestroyRefines, ExitUnlockRefines
       DEF Interning!Next
  <2>4. CASE UNCHANGED vars
    <3>1. \A k \in Categories : SlotOf(k)' = SlotOf(k)
      BY <2>4, SlotOfUnchanged DEF vars, storage
    <3>2. QED
      BY <2>4, <3>1 DEF vars, Interning!vars, Decided, locals
  <2>5. QED
    BY <2>1, <2>2, <2>3, <2>4 DEF Next
<1>2. QED
  BY <1>1, InitRefines, Invariance, PTL DEF Spec, InternsCategories, Interning!Spec
===============================================================================
