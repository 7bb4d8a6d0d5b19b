------------------------------ MODULE DomainTable ------------------------------
(***************************************************************************)
(* The table of status code domains that wrap std::error_category objects: *)
(* detail::std_error_code_domain_from_category() and its function-local    *)
(* static `storage`.  Every conversion of a std::error_code into a status  *)
(* code looks its category up here, from any thread, under a test-and-set  *)
(* spin lock.  boost_error_code.hpp holds the same code for boost.         *)
(*                                                                         *)
(* One action is one step between two accesses to the shared storage.      *)
(***************************************************************************)
EXTENDS Integers

CONSTANTS
  Threads,      \* threads that convert std::error_code objects
  Categories,   \* std::error_category singletons; a domain's id encodes one
  MaxItems,     \* max_items, 64 in the source
  Null,         \* the null pointer add() returns when the table is full
  Raw,          \* content of items[n] before placement new
  Gone          \* content of items[n] after ~_std_error_code_domain()

Slots == 0 .. (MaxItems - 1)

ASSUME MaxItemsAssumption == MaxItems \in Nat \ {0}
ASSUME NullAssumption == Null \notin Slots /\ Null \notin Categories
ASSUME ItemAssumption == Raw \notin Categories /\ Gone \notin Categories /\ Raw # Gone

VARIABLES
  lock,     \* storage._lock: 0 or 1
  items,    \* storage.items: the category a built domain refers to, Raw or Gone
  count,    \* storage.count
  pc,       \* where each thread is inside std_error_code_domain_from_category
  arg,      \* the category of each thread's call, Null outside a call
  idx,      \* the loop variable n of each thread's scan
  ret,      \* the local `ret` of add()
  handed,   \* history: every <<category, slot>> pair a call has returned
  process,  \* running, exiting (static destruction), or how it stopped
  exitIdx   \* loop variable of ~storage_t()

storage == <<lock, items, count>>
locals == <<arg, idx, ret>>
vars == <<storage, pc, locals, handed, process, exitIdx>>

InCS == {"scan", "build", "unlock"}

TypeOK ==
  /\ lock \in {0, 1}
  /\ items \in [Slots -> Categories \cup {Raw, Gone}]
  /\ count \in 0 .. MaxItems
  /\ pc \in [Threads -> {"idle", "lock", "got"} \cup InCS]
  /\ arg \in [Threads -> Categories \cup {Null}]
  /\ idx \in [Threads -> 0 .. MaxItems]
  /\ ret \in [Threads -> Slots \cup {Null}]
  /\ handed \subseteq Categories \X Slots
  /\ process \in {"running", "exitlock", "exitscan", "exited", "aborted", "terminated"}
  /\ exitIdx \in 0 .. MaxItems

Init ==
  /\ lock = 0
  /\ items = [s \in Slots |-> Raw]
  /\ count = 0
  /\ pc = [t \in Threads |-> "idle"]
  /\ arg = [t \in Threads |-> Null]
  /\ idx = [t \in Threads |-> 0]
  /\ ret = [t \in Threads |-> Null]
  /\ handed = {}
  /\ process = "running"
  /\ exitIdx = 0

-------------------------------------------------------------------------------
Goto(t, label) == pc' = [pc EXCEPT ![t] = label]

(* A caller wraps an error code of category c. *)
Call(t, c) ==
  /\ process = "running"
  /\ pc[t] = "idle"
  /\ Goto(t, "lock")
  /\ arg' = [arg EXCEPT ![t] = c]
  /\ UNCHANGED <<storage, idx, ret, handed, process, exitIdx>>

(* Mutant: an exchange whose result is not tested. *)
AcquireUntested(t) ==
  /\ process = "running"
  /\ pc[t] = "lock"
  /\ lock' = 1
  /\ Goto(t, "scan")
  /\ UNCHANGED <<items, count, locals, handed, process, exitIdx>>

(* lock(): the exchange that reads 0 wins; one that reads 1 changes nothing. *)
Acquire(t) ==
  /\ process = "running"
  /\ pc[t] = "lock"
  /\ lock = 0
  /\ lock' = 1
  /\ Goto(t, "scan")
  /\ UNCHANGED <<items, count, locals, handed, process, exitIdx>>

(* Mutant: the hit returns out of the loop and skips unlock(). *)
ScanHitKeepsLock(t) ==
  /\ process = "running"
  /\ pc[t] = "scan"
  /\ idx[t] < count
  /\ items[idx[t]] = arg[t]
  /\ ret' = [ret EXCEPT ![t] = idx[t]]
  /\ Goto(t, "got")
  /\ UNCHANGED <<storage, arg, idx, handed, process, exitIdx>>

(* One turn of the loop over items[0 .. count - 1]. *)
ScanHit(t) ==
  /\ process = "running"
  /\ pc[t] = "scan"
  /\ idx[t] < count
  /\ items[idx[t]] = arg[t]
  /\ ret' = [ret EXCEPT ![t] = idx[t]]
  /\ Goto(t, "unlock")
  /\ UNCHANGED <<storage, arg, idx, handed, process, exitIdx>>

ScanNext(t) ==
  /\ process = "running"
  /\ pc[t] = "scan"
  /\ idx[t] < count
  /\ items[idx[t]] # arg[t]
  /\ idx' = [idx EXCEPT ![t] = @ + 1]
  /\ UNCHANGED <<storage, pc, arg, ret, handed, process, exitIdx>>

(* Mutant: the loop ends before the last item is compared. *)
ReserveShort(t) ==
  /\ process = "running"
  /\ pc[t] = "scan"
  /\ idx[t] >= count - 1
  /\ count < MaxItems
  /\ ret' = [ret EXCEPT ![t] = count]
  /\ count' = count + 1
  /\ Goto(t, "build")
  /\ UNCHANGED <<lock, items, arg, idx, handed, process, exitIdx>>

(* Mutant: the slot is published, the constructor never runs. *)
ReserveUnbuilt(t) ==
  /\ process = "running"
  /\ pc[t] = "scan"
  /\ idx[t] >= count
  /\ count < MaxItems
  /\ ret' = [ret EXCEPT ![t] = count]
  /\ count' = count + 1
  /\ Goto(t, "unlock")
  /\ UNCHANGED <<lock, items, arg, idx, handed, process, exitIdx>>

(* Mutant: a full table gives away its last slot. *)
ReserveEvict(t) ==
  /\ process = "running"
  /\ pc[t] = "scan"
  /\ idx[t] >= count
  /\ ret' = [ret EXCEPT ![t] = IF count < MaxItems THEN count ELSE MaxItems - 1]
  /\ count' = IF count < MaxItems THEN count + 1 ELSE count
  /\ Goto(t, "build")
  /\ UNCHANGED <<lock, items, arg, idx, handed, process, exitIdx>>

(* The loop ended without a match and there is room: items[count++] is     *)
(* chosen, the domain is constructed in it by the next step.               *)
Reserve(t) ==
  /\ process = "running"
  /\ pc[t] = "scan"
  /\ idx[t] >= count
  /\ count < MaxItems
  /\ ret' = [ret EXCEPT ![t] = count]
  /\ count' = count + 1
  /\ Goto(t, "build")
  /\ UNCHANGED <<lock, items, arg, idx, handed, process, exitIdx>>

(* Mutant: the last slot is never used. *)
ScanFullEarly(t) ==
  /\ process = "running"
  /\ pc[t] = "scan"
  /\ idx[t] >= count
  /\ count >= MaxItems - 1
  /\ Goto(t, "unlock")
  /\ UNCHANGED <<storage, locals, handed, process, exitIdx>>

ScanFull(t) ==
  /\ process = "running"
  /\ pc[t] = "scan"
  /\ idx[t] >= count
  /\ count >= MaxItems
  /\ Goto(t, "unlock")
  /\ UNCHANGED <<storage, locals, handed, process, exitIdx>>

(* The placement new: the domain's id encodes the address of the category. *)
Build(t) ==
  /\ process = "running"
  /\ pc[t] = "build"
  /\ items' = [items EXCEPT ![ret[t]] = arg[t]]
  /\ Goto(t, "unlock")
  /\ UNCHANGED <<lock, count, locals, handed, process, exitIdx>>

(* category.name() or the std::string throws in the noexcept constructor. *)
BuildThrows(t) ==
  /\ process = "running"
  /\ pc[t] = "build"
  /\ process' = "terminated"
  /\ UNCHANGED <<storage, pc, locals, handed, exitIdx>>

Unlock(t) ==
  /\ process = "running"
  /\ pc[t] = "unlock"
  /\ lock' = 0
  /\ Goto(t, "got")
  /\ UNCHANGED <<items, count, locals, handed, process, exitIdx>>

(* _std_error_code_domain::get() gives the domain to the new status code. *)
Return(t) ==
  /\ process = "running"
  /\ pc[t] = "got"
  /\ ret[t] # Null
  /\ handed' = handed \cup {<<arg[t], ret[t]>>}
  /\ Goto(t, "idle")
  /\ arg' = [arg EXCEPT ![t] = Null]
  /\ idx' = [idx EXCEPT ![t] = 0]
  /\ ret' = [ret EXCEPT ![t] = Null]
  /\ UNCHANGED <<storage, process, exitIdx>>

(* get() aborts the process on a null domain. *)
Abort(t) ==
  /\ process = "running"
  /\ pc[t] = "got"
  /\ ret[t] = Null
  /\ process' = "aborted"
  /\ UNCHANGED <<storage, pc, locals, handed, exitIdx>>

-------------------------------------------------------------------------------
(* Static destruction.  A well-formed program has no call in progress when *)
(* exit() destroys function-local statics, and makes none afterwards.      *)
Exit ==
  /\ process = "running"
  /\ \A t \in Threads : pc[t] = "idle"
  /\ process' = "exitlock"
  /\ UNCHANGED <<storage, pc, locals, handed, exitIdx>>

ExitAcquire ==
  /\ process = "exitlock"
  /\ lock = 0
  /\ lock' = 1
  /\ process' = "exitscan"
  /\ UNCHANGED <<items, count, pc, locals, handed, exitIdx>>

ExitDestroy ==
  /\ process = "exitscan"
  /\ exitIdx < count
  /\ items' = [items EXCEPT ![exitIdx] = Gone]
  /\ exitIdx' = exitIdx + 1
  /\ UNCHANGED <<lock, count, pc, locals, handed, process>>

(* Mutant: the destructor leaves the last domain. *)
ExitUnlockEarly ==
  /\ process = "exitscan"
  /\ exitIdx >= count - 1
  /\ lock' = 0
  /\ process' = "exited"
  /\ UNCHANGED <<items, count, pc, locals, handed, exitIdx>>

ExitUnlock ==
  /\ process = "exitscan"
  /\ exitIdx >= count
  /\ lock' = 0
  /\ process' = "exited"
  /\ UNCHANGED <<items, count, pc, locals, handed, exitIdx>>

Stopped == process \in {"exited", "aborted", "terminated"}

Step(t) ==
  \/ Acquire(t)
  \/ ScanHit(t)
  \/ ScanNext(t)
  \/ Reserve(t)
  \/ ScanFull(t)
  \/ Build(t)
  \/ BuildThrows(t)
  \/ Unlock(t)
  \/ Return(t)
  \/ Abort(t)

Next ==
  \/ \E t \in Threads : Step(t) \/ \E c \in Categories : Call(t, c)
  \/ Exit
  \/ ExitAcquire
  \/ ExitDestroy
  \/ ExitUnlock
  \/ Stopped /\ UNCHANGED vars

Spec == Init /\ [][Next]_vars

(* Threads inside add() are scheduled.  Nothing makes the test-and-set     *)
(* lock fair: a thread may lose every exchange, so Acquire gets only the   *)
(* weak fairness of the scheduler.                                         *)
FairSpec ==
  /\ Spec
  /\ \A t \in Threads : WF_vars(Step(t))
  /\ WF_vars(ExitAcquire \/ ExitDestroy \/ ExitUnlock)

-------------------------------------------------------------------------------
(* The spin lock excludes: never two threads between lock() and unlock().  *)
MutualExclusion ==
  \A t, u \in Threads : pc[t] \in InCS /\ pc[u] \in InCS => t = u

(* A category owns at most one domain, whatever threads looked it up at    *)
(* once: the scan and the append of add() are one atomic step.             *)
UniqueDomains ==
  \A i, j \in Slots : items[i] \in Categories /\ items[i] = items[j] => i = j

(* The domain a status code holds stays built, and built for the category  *)
(* the code wraps, as long as the process runs.                            *)
HandedOutIsLive ==
  process \in {"running", "aborted", "terminated"} =>
    \A p \in handed : items[p[2]] = p[1]

(* The scan never reads a slot whose domain is not built yet (count is     *)
(* raised before the constructor runs).                                    *)
ScansOnlyBuilt ==
  \A t \in Threads : pc[t] = "scan" /\ idx[t] < count => items[idx[t]] \in Categories

(* get() aborts only for a category that is not in the table while every   *)
(* slot holds another one.                                                 *)
AbortOnlyWhenFull ==
  process = "aborted" =>
    \E t \in Threads :
      /\ pc[t] = "got"
      /\ \A s \in Slots : items[s] \in Categories \ {arg[t]}

(* The destructor of the storage destroys every domain that was built, and *)
(* nothing that was not.                                                   *)
ExitDestroysAll ==
  process = "exited" => \A s \in Slots : items[s] = IF s < count THEN Gone ELSE Raw

(* While the process runs a built domain is never moved, replaced or       *)
(* destroyed: codes keep a raw pointer to it.                              *)
SlotStable ==
  [][process = "running" => \A s \in Slots : items[s] # Raw => items'[s] = items[s]]_vars

(* Whoever holds the lock gives it back, unless the process dies: every    *)
(* path out of add() passes through unlock().                              *)
LockIsReleased == lock = 1 ~> (lock = 0 \/ Stopped)

(* The lock is never left free while threads spin for ever: if some thread *)
(* waits, some thread obtains the lock or the process dies.                *)
SomeoneEnters ==
  (\E t \in Threads : pc[t] = "lock") ~> ((\E t \in Threads : pc[t] = "scan") \/ Stopped)
===============================================================================
