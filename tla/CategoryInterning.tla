--------------------------- MODULE CategoryInterning ---------------------------
(***************************************************************************)
(* What the table of std::error_category domains promises its callers:     *)
(* interning.  A category gets a domain on first use, keeps that one for   *)
(* the life of the process, and at most `Capacity` categories get one.  A  *)
(* call takes effect in one step between its start and its return.         *)
(***************************************************************************)
CONSTANTS Callers, Categories, Domains, Null  \* Null is none of the others

VARIABLES
  table,   \* the domain of each category, Null before it has one
  want,    \* the category a caller waits for, Null when it is not calling
  answer,  \* the domain chosen for a caller's call, Null before
  handed,  \* history: every <<category, domain>> pair returned
  status   \* running, exiting, or how the process stopped

vars == <<table, want, answer, handed, status>>

Init ==
  /\ table = [c \in Categories |-> Null]
  /\ want = [t \in Callers |-> Null]
  /\ answer = [t \in Callers |-> Null]
  /\ handed = {}
  /\ status = "running"

Used == {d \in Domains : \E c \in Categories : table[c] = d}

Ask(t, c) ==
  /\ status = "running"
  /\ want[t] = Null
  /\ want' = [want EXCEPT ![t] = c]
  /\ UNCHANGED <<table, answer, handed, status>>

(* The category has a domain already. *)
Find(t) ==
  /\ status = "running"
  /\ want[t] # Null
  /\ answer[t] = Null
  /\ table[want[t]] # Null
  /\ answer' = [answer EXCEPT ![t] = table[want[t]]]
  /\ UNCHANGED <<table, want, handed, status>>

(* First use of the category: any unused domain becomes its own. *)
Adopt(t) ==
  /\ status = "running"
  /\ want[t] # Null
  /\ answer[t] = Null
  /\ table[want[t]] = Null
  /\ \E d \in Domains \ Used :
       /\ table' = [table EXCEPT ![want[t]] = d]
       /\ answer' = [answer EXCEPT ![t] = d]
  /\ UNCHANGED <<want, handed, status>>

Reply(t) ==
  /\ status = "running"
  /\ answer[t] # Null
  /\ handed' = handed \cup {<<want[t], answer[t]>>}
  /\ want' = [want EXCEPT ![t] = Null]
  /\ answer' = [answer EXCEPT ![t] = Null]
  /\ UNCHANGED <<table, status>>

(* A new category finds every domain taken. *)
Overflow(t) ==
  /\ status = "running"
  /\ want[t] # Null
  /\ answer[t] = Null
  /\ table[want[t]] = Null
  /\ Used = Domains
  /\ status' = "aborted"
  /\ UNCHANGED <<table, want, answer, handed>>

(* Constructing the domain of a new category throws. *)
Throw(t) ==
  /\ status = "running"
  /\ want[t] # Null
  /\ answer[t] = Null
  /\ table[want[t]] = Null
  /\ status' = "terminated"
  /\ UNCHANGED <<table, want, answer, handed>>

BeginExit ==
  /\ status = "running"
  /\ \A t \in Callers : want[t] = Null
  /\ status' = "exiting"
  /\ UNCHANGED <<table, want, answer, handed>>

Discard(c) ==
  /\ status = "exiting"
  /\ table[c] # Null
  /\ table' = [table EXCEPT ![c] = Null]
  /\ UNCHANGED <<want, answer, handed, status>>

EndExit ==
  /\ status = "exiting"
  /\ Used = {}
  /\ status' = "exited"
  /\ UNCHANGED <<table, want, answer, handed>>

Next ==
  \/ \E t \in Callers :
       \/ \E c \in Categories : Ask(t, c)
       \/ Find(t)
       \/ Adopt(t)
       \/ Reply(t)
       \/ Overflow(t)
       \/ Throw(t)
  \/ BeginExit
  \/ \E c \in Categories : Discard(c)
  \/ EndExit

Spec == Init /\ [][Next]_vars
===============================================================================
