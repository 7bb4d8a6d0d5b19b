---------------------------- MODULE SystemMessage ----------------------------
(***************************************************************************)
(* One call of status_code::message(), from the domain that asks the       *)
(* system for the text to the noexcept function that hands it out.         *)
(*                                                                         *)
(* The Windows domains convert the system's wide text into a malloc()ed    *)
(* buffer, which they grow until the text fits; the others copy a narrow   *)
(* text.  Either text then goes into the block of an                       *)
(* atomic_refcounted_string_ref (see StringRef).  Any malloc() may fail.   *)
(*                                                                         *)
(* A text is a sequence of units: "ascii" and "eol" (CR or LF) take one    *)
(* byte of UTF-8, "wide" takes WideBytes.                                  *)
(***************************************************************************)
EXTENDS Naturals, Sequences, SequencesExt, FiniteSets

CONSTANTS
  MaxLen,    \* units of the longest text the system has
  WideBytes  \* bytes of a unit outside ASCII

ASSUME BoundsAssumption == MaxLen \in Nat \ {0} /\ WideBytes \in 2 .. 3

VARIABLES
  source,      \* the domain's way to get the text
  sys,         \* the system's text for this code, empty when it has none
  pc,          \* what the call does next
  allocation,  \* the variable of that name: what malloc() and the converter are told
  buffer,      \* bytes of the block p points to, 0 when there is none
  live,        \* how many temporary buffers are allocated
  errcode,     \* what _do_message() is going to return
  ret,         \* args.ret
  outcome      \* how message() ended

vars == <<source, sys, pc, allocation, buffer, live, errcode, ret, outcome>>

WideSources == {"win32", "nt", "com"}
Sources == WideSources \cup {"com_ansi", "posix", "std"}
Units == {"ascii", "wide", "eol"}
Fallback == <<"failed to get message from system">>

(* What FormatMessageW and its like return: nothing, or a text with        *)
(* something besides the end of its line.                                  *)
Texts == {s \in SeqOf(Units, MaxLen) : ToSet(s) \ {"eol"} # {}}

(* A narrow text is counted in bytes to begin with. *)
NarrowTexts == {s \in Texts : "wide" \notin ToSet(s)}

Bytes(s) == Len(s) + (WideBytes - 1) * Cardinality({i \in DOMAIN s : s[i] = "wide"})

Init ==
  /\ source \in Sources
  /\ sys \in IF source \in WideSources THEN Texts \cup {<<>>} ELSE NarrowTexts
  /\ pc = "fetch"
  /\ allocation = 0
  /\ buffer = 0
  /\ live = 0
  /\ errcode = "0"
  /\ ret = <<>>
  /\ outcome = "pending"

Goto(step) == pc' = step
Free == live' = live - 1 /\ buffer' = 0

(* errcode = e; return string_ref("failed to get message from system"); *)
GiveUp(e) ==
  /\ errcode' = e
  /\ ret' = Fallback
  /\ Goto("check")

-------------------------------------------------------------------------------
(* wlen units came back: room for half as much again, or ENOENT for none. *)
Fetch ==
  /\ pc = "fetch"
  /\ IF sys = <<>>
     THEN GiveUp("ENOENT") /\ UNCHANGED allocation
     ELSE /\ allocation' = Len(sys) + Len(sys) \div 2
          /\ Goto("allocate")
          /\ UNCHANGED <<errcode, ret>>
  /\ UNCHANGED <<buffer, live, outcome>>

Allocate ==
  /\ pc = "allocate"
  /\ \/ GiveUp("ENOMEM") /\ UNCHANGED <<buffer, live>>
     \/ /\ buffer' = allocation
        /\ live' = live + 1
        /\ Goto("convert")
        /\ UNCHANGED <<errcode, ret>>
  /\ UNCHANGED <<allocation, outcome>>

(* Mutant: the buffer that proved too small is not freed. *)
GrowKeepsBuffer ==
  /\ pc = "convert"
  /\ Bytes(sys) + 1 > allocation
  /\ allocation' = allocation + allocation \div 4
  /\ Goto("allocate")
  /\ UNCHANGED <<buffer, live, errcode, ret, outcome>>

(* Mutant: the converter is told the new size and given the old block. *)
GrowWithoutRealloc ==
  /\ pc = "convert"
  /\ Bytes(sys) + 1 > allocation
  /\ allocation' = allocation + allocation \div 4
  /\ UNCHANGED <<pc, buffer, live, errcode, ret, outcome>>

(* Mutant: grows by an eighth. *)
GrowLess ==
  /\ pc = "convert"
  /\ Bytes(sys) + 1 > allocation
  /\ Free
  /\ allocation' = allocation + allocation \div 8
  /\ Goto("allocate")
  /\ UNCHANGED <<errcode, ret, outcome>>

(* ERROR_INSUFFICIENT_BUFFER: free it and try one a quarter larger. *)
Grow ==
  /\ pc = "convert"
  /\ Bytes(sys) + 1 > allocation
  /\ Free
  /\ allocation' = allocation + allocation \div 4
  /\ Goto("allocate")
  /\ UNCHANGED <<errcode, ret, outcome>>

(* WideCharToMultiByte() failed for another reason. *)
ConvertFails ==
  /\ pc = "convert"
  /\ Free
  /\ GiveUp("EILSEQ")
  /\ UNCHANGED <<allocation, outcome>>

(* The text and its terminator fit what the converter is told. *)
Convert ==
  /\ pc = "convert"
  /\ Bytes(sys) + 1 <= allocation
  /\ Goto("trim")
  /\ UNCHANGED <<allocation, buffer, live, errcode, ret, outcome>>

(* Mutant: strips one unit from the end instead of all of the line end. *)
TrimOnce ==
  /\ pc = "trim"
  /\ ret' = IF Last(sys) = "eol" THEN Front(sys) ELSE sys
  /\ Goto("copy")
  /\ UNCHANGED <<allocation, buffer, live, errcode, outcome>>

(* end[-1] while it is CR or LF *)
Trim ==
  /\ pc = "trim"
  /\ ret' = SubSeq(sys, 1, CHOOSE n \in DOMAIN sys :
                             /\ sys[n] # "eol"
                             /\ \A i \in n + 1 .. Len(sys) : sys[i] = "eol")
  /\ Goto("copy")
  /\ UNCHANGED <<allocation, buffer, live, errcode, outcome>>

(* The atomic_refcounted_string_ref copies the text, or becomes the        *)
(* literal when its malloc() fails; then the buffer is freed.              *)
Copy ==
  /\ pc = "copy"
  /\ ret' \in {ret, Fallback}
  /\ Free
  /\ Goto("check")
  /\ UNCHANGED <<allocation, errcode, outcome>>

WideText == Fetch \/ Allocate \/ Grow \/ ConvertFails \/ Convert \/ Trim \/ Copy

Win32Message == source = "win32" /\ WideText
NtMessage == source = "nt" /\ WideText
ComMessage == source = "com" /\ WideText

(* Without _UNICODE the COM text is narrow: one buffer of its size. *)
ComAnsiMessage ==
  /\ source = "com_ansi"
  /\ \/ /\ pc = "fetch"
        /\ allocation' = Len(sys) + 1
        /\ Goto("allocate")
        /\ UNCHANGED <<buffer, live, errcode, ret, outcome>>
     \/ Allocate
     \/ /\ pc = "convert"
        /\ Goto("trim")
        /\ UNCHANGED <<allocation, buffer, live, errcode, ret, outcome>>
     \/ Trim
     \/ Copy

(* strerror_r() into an array on the stack.  It may set errno for a code   *)
(* it does not know; errno is read before the block is allocated.          *)
PosixMessage ==
  /\ source = "posix"
  /\ pc = "fetch"
  /\ errcode' \in {"0", "EINVAL"}
  /\ ret' \in {sys, Fallback}
  /\ Goto("check")
  /\ UNCHANGED <<allocation, buffer, live, outcome>>

(* std::error_code::message() returns a std::string or throws. *)
StdMessage ==
  /\ source = "std"
  /\ pc = "fetch"
  /\ \/ GiveUp("ENOMEM")
     \/ /\ ret' \in {sys, Fallback}
        /\ Goto("check")
        /\ UNCHANGED errcode
  /\ UNCHANGED <<allocation, buffer, live, outcome>>

(* status_code_domain::_message(): an error code throws, else args.ret is  *)
(* moved out.  status_code::message() is noexcept: a throw ends it all. *)
CheckThrow ==
  /\ pc = "check"
  /\ outcome' = IF errcode = "0" THEN "returned" ELSE "terminated"
  /\ ret' = IF errcode = "0" THEN ret ELSE <<>>
  /\ Goto("done")
  /\ UNCHANGED <<allocation, buffer, live, errcode>>

DoMessage == Win32Message \/ NtMessage \/ ComMessage \/ ComAnsiMessage \/ PosixMessage \/ StdMessage

Next == (DoMessage \/ CheckThrow) /\ UNCHANGED <<source, sys>>

(* The call runs to its end: nothing in it waits for anybody. *)
Spec == Init /\ [][Next]_vars /\ WF_vars(Next)

-------------------------------------------------------------------------------
(* Every way out of the loop frees the temporary buffer, and no iteration  *)
(* leaves one behind: there is one while the text is converted and none    *)
(* once the call is over.                                                  *)
BufferIsFreed ==
  live = IF pc \in {"convert", "trim", "copy"} /\ source \in WideSources \cup {"com_ansi"} THEN 1 ELSE 0

(* What a step of the conversion may write: WideCharToMultiByte() as many  *)
(* bytes as it is told, in every round and when it fails, memcpy() the     *)
(* narrow text and its terminator.                                         *)
MayWrite == IF source \in WideSources THEN allocation ELSE Len(sys) + 1

(* In every round of the loop the converter's limit is not more than the   *)
(* block it is given, and the converted text and its terminator, which     *)
(* strchr() reads and the trimming writes, are inside it.                  *)
FitsTheBuffer ==
  /\ pc = "convert" => MayWrite <= buffer
  /\ pc = "trim" => Bytes(sys) + 1 <= buffer

(* The reader gets the whole text up to its line end or the fallback, and  *)
(* never a cut-off text, a line end or nothing.                            *)
TextIsWhole ==
  outcome = "returned" /\ ret # Fallback =>
    /\ IsPrefix(ret, sys)
    /\ ret # <<>>
    /\ LET tail == SubSeq(sys, Len(ret) + 1, Len(sys)) IN
         /\ ToSet(tail) \subseteq {"eol"}
         /\ source \in WideSources \cup {"com_ansi"} => Last(ret) # "eol"

(* A text of one unit, or of two that are not both ASCII: the first buffer *)
(* is too small, and a quarter of less than four bytes is nothing.         *)
NeverFits ==
  /\ source \in WideSources
  /\ sys # <<>>
  /\ Len(sys) + Len(sys) \div 2 < 4
  /\ Bytes(sys) + 1 > Len(sys) + Len(sys) \div 2

(* The buffer grows until the text fits, for every other text: the loop,   *)
(* and with it message(), ends.  For these texts no round ever succeeds:   *)
(* message() goes on for ever, or malloc() or the conversion fails and the *)
(* noexcept function throws, but it never returns.                         *)
MessageEnds ==
  \/ NeverFits /\ [](outcome # "returned")
  \/ ~NeverFits /\ <>(pc = "done")
===============================================================================
