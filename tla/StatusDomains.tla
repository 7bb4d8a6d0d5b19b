----------------------------- MODULE StatusDomains -----------------------------
(***************************************************************************)
(* The domains the library comes with, as semantic comparison sees them:   *)
(* for each its _do_failure, _do_equivalent and _do_generic_code, on a few *)
(* codes of every kind they tell apart.                                    *)
(*                                                                         *)
(* A program holds two codes and keeps replacing one of them by a code     *)
(* that compared equal to it.                                              *)
(***************************************************************************)
EXTENDS Sequences, Functions, GenericCodes

CONSTANTS
  FlatCodes(_),  \* a build's codes on a platform, but for empty and nested ones
  Win32Table,    \* the errc of a Win32 code
  NtTable,       \* the errc of an NT status
  NtWin32Table,  \* the Win32 code of an NT status
  QuickTable     \* the errcs of a value of an enumeration, as its author wrote them

VARIABLES
  platform,  \* what the program was built for: which domains there are
  one,       \* the first code
  two        \* the code the program replaces by equal ones

vars == <<platform, one, two>>

Platforms == {"posix", "windows", "neither"}

Posix(e) == [dom |-> "posix", val |-> e]
Win32(v) == [dom |-> "win32", val |-> v]
Nt(v) == [dom |-> "nt", val |-> v]
Com(w, ok) == [dom |-> "com", wraps |-> w, severity |-> ok]
S_OK == Com(Empty, "S_OK")  \* S_FALSE and its like are Com(Empty, "ok")
GetAddrInfo(v) == [dom |-> "getaddrinfo", val |-> v]
Http(v) == [dom |-> "http", val |-> v]
Quick(v) == [dom |-> "quick", val |-> v]
StdError(cat, v) == [dom |-> "std", cat |-> cat, val |-> v]
BoostError(cat, v) == [dom |-> "boost", cat |-> cat, val |-> v]
Nested(c) == [dom |-> "nested", of |-> c]

(* Domains with an embedded std::error_code or boost::system::error_code,  *)
(* which differ in nothing but the types.                                  *)
Wrapping == {"std", "boost"}

(* A code of the build for p that is neither empty nor nested: its domain  *)
(* and a value, of which those of the standard categories are named after  *)
(* the codes they are numbers of.  No system error has the number of      *)
(* errc::unknown.                                                          *)
IsFlatCode(c, p) ==
  \/ /\ c.dom \in {"generic", "posix", "win32", "nt", "getaddrinfo", "http", "quick"}
     /\ c = [dom |-> c.dom, val |-> c.val]
  \/ /\ c.dom = "com"
     /\ c = Com(c.wraps, c.severity)
     /\ c.severity \in {"ok", "error"} \/ c = S_OK
     /\ c.wraps # Empty => c.wraps \in {Win32(c.wraps.val), Nt(c.wraps.val)}
  \/ /\ c.dom \in Wrapping
     /\ c = [dom |-> c.dom, cat |-> c.cat, val |-> c.val]
     /\ c.cat = "generic" => c.val # "ERROR_SUCCESS"
     /\ c.cat = "system" =>
          c.val \notin {"unknown", IF p = "windows" THEN "success" ELSE "ERROR_SUCCESS"}

ASSUME FlatCodesAssumption == \A p \in Platforms : \A c \in FlatCodes(p) : IsFlatCode(c, p)

(* What is in no row of the Windows tables has no errc, and the Win32 code *)
(* -1; the successes are not in the tables.  STATUS_PENDING stands for all *)
(* statuses that are not negative.                                         *)
Row(table, v, otherwise) == IF v \in DOMAIN table THEN table[v] ELSE otherwise

Win32Errno(v) == IF v = "ERROR_SUCCESS" THEN "success" ELSE Row(Win32Table, v, "unknown")
NtErrno(v) == IF v = "STATUS_PENDING" THEN "success" ELSE Row(NtTable, v, "unknown")
NtWin32(v) == IF v = "STATUS_PENDING" THEN "ERROR_SUCCESS" ELSE Row(NtWin32Table, v, "-1")

(* The generated tables map nothing else to a success, and agree on the    *)
(* errc of an NT status that has one.                                      *)
ASSUME TablesAssumption ==
  /\ \A v \in DOMAIN Win32Table : Win32Table[v] # "success"
  /\ \A v \in DOMAIN NtTable : NtTable[v] # "success" /\ NtErrno(v) = Win32Errno(NtWin32(v))
  /\ \A v \in DOMAIN NtWin32Table : NtWin32Table[v] # "ERROR_SUCCESS"

GetAddrInfoErrno(v) ==
  CASE v = "EAI_FAMILY" -> "operation_not_supported"
    [] v = "EAI_SOCKTYPE" -> "operation_not_supported"
    [] v \in {"EAI_AGAIN", "EAI_SYSTEM"} -> "resource_unavailable_try_again"
    [] v \in {"EAI_NONAME", "EAI_NODATA", "EAI_ADDRFAMILY"} -> "no_such_device_or_address"
    [] v \in {"EAI_BADFLAGS", "EAI_SERVICE"} -> "invalid_argument"
    [] v = "EAI_FAIL" -> "io_error"
    [] v = "EAI_MEMORY" -> "not_enough_memory"
    [] v = "EAI_OVERFLOW" -> "argument_list_too_long"
    [] OTHER -> "unknown"

HttpErrno(v) ==
  CASE v \in {"102", "202"} -> "operation_in_progress"
    [] v = "400" -> "invalid_argument"
    [] v = "401" -> "operation_not_permitted"
    [] v = "403" -> "permission_denied"
    [] v \in {"404", "410"} -> "no_such_file_or_directory"
    [] v \in {"405", "418"} -> "operation_not_supported"
    [] v = "406" -> "protocol_not_supported"
    [] v \in {"408", "504"} -> "timed_out"
    [] v = "413" -> "result_out_of_range"
    [] v = "501" -> "not_supported"
    [] v = "503" -> "resource_unavailable_try_again"
    [] v = "507" -> "no_space_on_device"
    [] OTHER -> "unknown"

(* Statuses of 400 and more are failures.  These are the others the domain *)
(* knows of.                                                               *)
HttpSucceeds ==
  {"100", "101", "102", "103", "200", "201", "202", "203", "204", "205", "206", "207", "208",
   "209", "300", "301", "302", "303", "304", "305", "306", "307", "308"}

QuickErrnos(v) == Row(QuickTable, v, <<>>)

ASSUME QuickAssumption == \A v \in DOMAIN QuickTable : QuickTable[v] \in Seq(STRING)

(* default_error_condition() of the standard categories and of a user's    *)
(* category that maps some of its values to generic conditions.            *)
StdErrno(cat, v) ==
  IF cat = "generic" \/ (cat = "system" /\ platform # "windows") THEN v
  ELSE IF cat = "system" THEN Win32Errno(v)
  ELSE IF cat = "user" /\ v = "missing" THEN "no_such_file_or_directory"
  ELSE "unknown"

-------------------------------------------------------------------------------
(* An indirecting domain asks the domain it indirects to.                  *)
Innermost(c) == IF c.dom = "nested" THEN c.of ELSE c

WindowsErrno(c) == IF c.dom = "win32" THEN Win32Errno(c.val) ELSE NtErrno(c.val)

(* Of the HRESULTs that wrap nothing S_OK alone has an errc.               *)
ComErrno(c) ==
  IF c = S_OK THEN "success"
  ELSE IF c.wraps # Empty THEN WindowsErrno(c.wraps)
  ELSE "unknown"

(* A value of an enumeration is mapped to the first errc its row lists.    *)
QuickErrno(v) == IF QuickErrnos(v) = <<>> THEN "unknown" ELSE QuickErrnos(v)[1]

(* What the code of a domain but the indirecting ones is mapped to.        *)
Errno(c) ==
  IF c.dom \in {"generic", "posix"} THEN c.val
  ELSE IF c.dom \in {"win32", "nt"} THEN WindowsErrno(c)
  ELSE IF c.dom = "com" THEN ComErrno(c)
  ELSE IF c.dom = "getaddrinfo" THEN GetAddrInfoErrno(c.val)
  ELSE IF c.dom = "http" THEN HttpErrno(c.val)
  ELSE IF c.dom = "quick" THEN QuickErrno(c.val)
  ELSE StdErrno(c.cat, c.val)

(* _do_generic_code() of every domain. *)
(* Mutant: the indirecting domain does not forward _do_generic_code(). *)
GenericCodeNotForwarded(c) == IF c.dom = "nested" THEN Unknown ELSE Generic(Errno(c))

GenericCode(c) == Generic(Errno(Innermost(c)))

(* _do_failure() of every domain. *)
Fails(c) ==
  \/ c.dom \in {"generic", "posix"} /\ c.val # "success"
  \/ c.dom = "win32" /\ c.val # "ERROR_SUCCESS"
  \/ c.dom = "nt" /\ c.val # "STATUS_PENDING"
  \/ c.dom = "com" /\ c.severity = "error"
  \/ c.dom = "getaddrinfo" /\ c.val # "0"
  \/ c.dom = "http" /\ c.val \notin HttpSucceeds
  \/ c.dom = "quick" /\ "success" \notin Range(QuickErrnos(c.val))
  \/ c.dom \in Wrapping /\ c.val \notin {"success", "ERROR_SUCCESS"}

(* Mutant: a code of an enumeration is always a failure. *)
FailureOfEveryEnum(c) == Innermost(c).dom = "quick" \/ Fails(Innermost(c))

Failure(c) == Fails(Innermost(c))

-------------------------------------------------------------------------------
(* domain() == domain() compares ids: an error_category of std or boost    *)
(* has a domain of its own, and an indirecting domain differs from the     *)
(* domain it indirects to, and is another one for another inner domain.    *)
SameDomain(a, b) ==
  /\ a.dom = b.dom
  /\ a.dom \in Wrapping => a.cat = b.cat
  /\ a.dom = "nested" => a.of.dom = b.of.dom

(* posix_code: its own values, and a generic code of the same number. *)
PosixEquivalent(a, b) ==
  IF SameDomain(a, b) THEN a = b ELSE b = Generic(a.val)

Win32Equivalent(a, b) ==
  IF SameDomain(a, b) THEN a = b ELSE b = Generic(Win32Errno(a.val))

(* nt_code also recognises win32 codes. *)
NtEquivalent(a, b) ==
  IF SameDomain(a, b) THEN a = b
  ELSE b = Generic(NtErrno(a.val)) \/ b = Win32(NtWin32(a.val))

(* com_code recognises what it wraps, and the generic code of that. *)
ComEquivalent(a, b) ==
  IF SameDomain(a, b) THEN a = b
  ELSE a.wraps # Empty /\ (b = a.wraps \/ b = Generic(WindowsErrno(a.wraps)))

(* Mutant: _find_mapping() returns the first row of the table. *)
QuickEquivalentFirstRow(a, b) ==
  IF SameDomain(a, b) THEN a = b
  ELSE b.dom = "generic" /\ b.val \in Range(QuickErrnos("success1"))

(* A code of an enumeration equals every errc its row lists. *)
QuickEquivalent(a, b) ==
  IF SameDomain(a, b) THEN a = b
  ELSE b.dom = "generic" /\ b.val \in Range(QuickErrnos(a.val))

(* std_error_code turns one of a standard category into a generic, POSIX   *)
(* or Win32 code; a build with neither POSIX nor Windows leaves its system *)
(* codes to their errc.                                                    *)
Converted(c) ==
  IF c.cat = "generic" THEN Generic(c.val)
  ELSE IF c.cat = "system" /\ platform = "posix" THEN Posix(c.val)
  ELSE IF c.cat = "system" /\ platform = "windows" THEN Win32(c.val)
  ELSE Empty

(* And starts the whole comparison again with that: again is its outcome.  *)
StdEquivalent(a, b, again) ==
  IF SameDomain(a, b) THEN a = b ELSE Converted(a) # Empty /\ again

BoostEquivalent(a, b, again) == StdEquivalent(a, b, again)

(* _do_equivalent() of every domain.  An indirecting domain hands its      *)
(* payload to the inner domain, but the other code as it is.               *)
Accepts(a, b, again) ==
  \/ a.dom \in {"generic", "getaddrinfo", "http"} /\ a = b
  \/ a.dom = "posix" /\ PosixEquivalent(a, b)
  \/ a.dom = "win32" /\ Win32Equivalent(a, b)
  \/ a.dom = "nt" /\ NtEquivalent(a, b)
  \/ a.dom = "com" /\ ComEquivalent(a, b)
  \/ a.dom = "quick" /\ QuickEquivalent(a, b)
  \/ a.dom = "std" /\ StdEquivalent(a, b, again)
  \/ a.dom = "boost" /\ BoostEquivalent(a, b, again)

(* A comparison starts again twice at most, once for each code that wraps  *)
(* a std or boost code: what such a code is converted to wraps nothing.    *)
DoEquivalentLast(a, b) == Accepts(Innermost(a), b, FALSE)
Last == INSTANCE Equivalence WITH Do <- DoEquivalentLast, Gen <- GenericCode
EquivalentLast(a, b) == Last!EquivalentBy(a, b)

DoEquivalentAgain(a, b) ==
  Accepts(Innermost(a), b, EquivalentLast(Converted(Innermost(a)), b))
Again == INSTANCE Equivalence WITH Do <- DoEquivalentAgain, Gen <- GenericCode
EquivalentAgain(a, b) == Again!EquivalentBy(a, b)

DoEquivalent(a, b) == Accepts(Innermost(a), b, EquivalentAgain(Converted(Innermost(a)), b))
INSTANCE Equivalence WITH Do <- DoEquivalent, Gen <- GenericCode
Equivalent(a, b) == EquivalentBy(a, b)

-------------------------------------------------------------------------------
(* A domain without a default constructor cannot be indirected to. *)
Nestable == {c \in FlatCodes(platform) : c.dom \notin Wrapping}

Codes == {Empty} \cup FlatCodes(platform) \cup {Nested(c) : c \in Nestable}

Init == platform \in Platforms /\ one \in Codes /\ two \in Codes

(* The program goes on with another code that compares equal. *)
Substitute(c) ==
  /\ Equivalent(two, c)
  /\ two' = c
  /\ UNCHANGED <<platform, one>>

Next == \E c \in Codes : Substitute(c)

Spec == Init /\ [][Next]_vars

-------------------------------------------------------------------------------
(* The order of the operands of == never matters, whatever the two domains *)
(* know of each other and through any nesting.                             *)
ComparisonIsSymmetric == Equivalent(one, two) = Equivalent(two, one)

(* Every code compares equal to the generic code its domain maps it to.    *)
EqualToItsErrc ==
  one # Empty /\ GenericCode(one) # Unknown => Equivalent(one, GenericCode(one))

(* Replacing a code by a nested one (make_nested_status_code) changes no   *)
(* comparison between codes that have a known errc.                        *)
Known(c) == c # Empty /\ GenericCode(c) # Unknown
NestingIsInvisible ==
  one \in FlatCodes(platform) /\ two \in Nestable /\ Known(one) /\ Known(two) =>
    (Equivalent(one, two) <=> Equivalent(one, Nested(two)))

(* Codes that compare equal agree on being a failure, but for the HTTP     *)
(* statuses that are in progress, the HRESULTs whose severity is not that  *)
(* of the Win32 error in them, and the values of an enumeration whose row  *)
(* lists success and other errcs: their errcs say otherwise than they.     *)
Succeeding(c) == c # Empty /\ ~Failure(c)
Ambiguous(c) ==
  LET i == Innermost(c) IN
    \/ i \in {Http("102"), Http("202")}
    \/ i.dom = "com" /\ i.wraps # Empty /\ (i.severity = "ok" <=> Fails(i.wraps))
    \/ i.dom = "quick" /\ ~Fails(i) /\ Range(QuickErrnos(i.val)) # {"success"}
EqualCodesAgreeOnFailure ==
  Equivalent(one, two) /\ ~Ambiguous(one) /\ ~Ambiguous(two) =>
    (Succeeding(one) <=> Succeeding(two))

(* The codes whose domains claim to compare with generic codes, and do so  *)
(* with one errc only.                                                     *)
Exact(c) ==
  LET i == Innermost(c) IN
    /\ Known(c)
    /\ \/ i.dom \in {"generic", "posix", "win32", "nt"}
       \/ i.dom = "com" /\ i.wraps # Empty
       \/ i.dom = "quick" /\ Range(QuickErrnos(i.val)) = {QuickErrno(i.val)}
       \/ i.dom \in Wrapping /\ (IF platform = "neither" THEN i.cat = "generic" ELSE i.cat # "user")

(* Each of those domains accepts its own errc, and no code of another one, *)
(* whichever domain that is of.  == then means having the same errc, and   *)
(* is an equivalence on these codes (proved in EquivalenceProofs).         *)
ExactCodesAreFaithful == Faithful({c \in {one, two} : Exact(c)} \cup
  {GenericCode(c) : c \in {d \in {one, two} : Exact(d)}})

-------------------------------------------------------------------------------
(* "equivalent, by any means, to another code in another domain            *)
(* (guaranteed transitive)": a code stays equal to whatever its substitute *)
(* equals.                                                                 *)
EquivalenceIsTransitive == [][Equivalent(one, two) => Equivalent(one, two')]_vars

(* "pure value comparison is used when the other status code has the same  *)
(* domain": a code equals a code of its domain with its value.             *)
SameDomainComparesValues == one = two => Equivalent(one, two)
===============================================================================
