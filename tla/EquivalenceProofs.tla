--------------------------- MODULE EquivalenceProofs ---------------------------
(***************************************************************************)
(* When equivalent() is an equivalence relation, for any set of codes and  *)
(* any domains; how the library's own domains compare, fail, nest, throw   *)
(* and catch, for any set of codes over their tables.                      *)
(***************************************************************************)
EXTENDS ExceptionMap, TLAPS

Any(Do(_, _), Gen(_)) == INSTANCE Equivalence

(* For codes whose domains are faithful to one errc each, the four ways in *)
(* which equivalent() may succeed say exactly that both codes have the     *)
(* same errc.                                                              *)
THEOREM FaithfulCodesMeanTheirErrc ==
  ASSUME NEW Do(_, _), NEW Gen(_), NEW F, Any(Do, Gen)!Faithful(F),
         NEW a \in F, NEW b \in F
  PROVE  Any(Do, Gen)!EquivalentBy(a, b) <=> Gen(a) = Gen(b)
<1>1. ASSUME NEW c \in F
      PROVE  /\ c # Any(Do, Gen)!Empty /\ Gen(c) # Any(Do, Gen)!Unknown
             /\ Gen(c) \in F /\ Gen(Gen(c)) = Gen(c)
             /\ Do(c, Gen(c))
  BY DEF Any!Faithful
<1>2. ASSUME NEW c \in F, NEW d \in F, Do(c, d)
      PROVE  Gen(c) = Gen(d)
  BY <1>2 DEF Any!Faithful
<1>3. ASSUME Gen(a) = Gen(b)
      PROVE  Any(Do, Gen)!EquivalentBy(a, b)
  <2>1. Do(a, Gen(b))
    BY <1>1, <1>3
  <2> QED
    BY <1>1, <2>1 DEF Any!EquivalentBy
<1>4. ASSUME Any(Do, Gen)!EquivalentBy(a, b)
      PROVE  Gen(a) = Gen(b)
  <2>1. \/ Do(a, b) \/ Do(b, a) \/ Do(a, Gen(b)) \/ Do(b, Gen(a))
    BY <1>1, <1>4 DEF Any!EquivalentBy
  <2>2. Do(a, Gen(b)) => Gen(a) = Gen(b)
    BY <1>1, <1>2
  <2>3. Do(b, Gen(a)) => Gen(a) = Gen(b)
    BY <1>1, <1>2
  <2> QED
    BY <1>2, <2>1, <2>2, <2>3
<1> QED
  BY <1>3, <1>4

(* Comparing in the other order asks the same four questions: symmetry     *)
(* needs no assumption about the domains.                                  *)
THEOREM EquivalenceIsSymmetric ==
  ASSUME NEW Do(_, _), NEW Gen(_), NEW a, NEW b
  PROVE  Any(Do, Gen)!EquivalentBy(a, b) <=> Any(Do, Gen)!EquivalentBy(b, a)
BY DEF Any!EquivalentBy

-------------------------------------------------------------------------------
(* The codes of the library, of the platform built for.                    *)
Flat(c) == IsFlatCode(c, platform)
IsCode(c) ==
  \/ c = Empty
  \/ Flat(c)
  \/ c.dom = "nested" /\ c = Nested(c.of) /\ Flat(c.of) /\ c.of.dom \notin Wrapping

(* Plain codes are converted to nothing: their domains ask nobody.         *)
Plain(c) == Innermost(c).dom \notin Wrapping

LEMMA FlatCodes_Flat ==
  ASSUME platform \in Platforms, NEW c \in FlatCodes(platform)
  PROVE  Flat(c)
BY FlatCodesAssumption DEF Flat

LEMMA FlatFacts ==
  ASSUME NEW c, Flat(c)
  PROVE  c.dom # "nested" /\ c # Empty /\ Innermost(c) = c
BY DEF Flat, IsFlatCode, Empty, Innermost, Wrapping, Com

LEMMA CodeFacts ==
  ASSUME NEW c, IsCode(c), c # Empty
  PROVE  /\ Flat(Innermost(c))
         /\ Innermost(Innermost(c)) = Innermost(c)
         /\ ~Plain(c) => Innermost(c) = c /\ Flat(c)
BY FlatFacts DEF IsCode, Innermost, Nested, Plain

LEMMA GenericFacts ==
  ASSUME NEW e
  PROVE  /\ Flat(Generic(e)) /\ Plain(Generic(e)) /\ Generic(e) # Empty
         /\ Innermost(Generic(e)) = Generic(e)
         /\ GenericCode(Generic(e)) = Generic(e)
         /\ Generic(e).dom = "generic" /\ Generic(e).val = e
BY DEF Generic, Flat, IsFlatCode, Plain, Wrapping, Empty, Innermost, GenericCode, Errno

(* Only the errc of a code counts, and its failure; nesting hides neither. *)
LEMMA GenericCodeIsGeneric ==
  ASSUME NEW c
  PROVE  /\ GenericCode(c) = Generic(Errno(Innermost(c)))
         /\ GenericCode(GenericCode(c)) = GenericCode(c)
BY GenericFacts DEF GenericCode

(* What a code is converted to wraps nothing and means the same.           *)
LEMMA ConvertedFacts ==
  ASSUME platform \in Platforms, NEW c, Flat(c), ~Plain(c), Converted(c) # Empty
  PROVE  /\ Flat(Converted(c)) /\ Plain(Converted(c))
         /\ GenericCode(Converted(c)) = GenericCode(c)
         /\ Converted(c).dom \in {"generic", "posix", "win32"}
         /\ Failure(Converted(c)) <=> Failure(c)
BY FlatFacts DEF Flat, IsFlatCode, Plain, Converted, Generic, Posix, Win32, Innermost, Wrapping,
   GenericCode, Errno, StdErrno, WindowsErrno, Failure, Fails, Empty, Platforms

-------------------------------------------------------------------------------
(* The comparison of codes that wrap nothing never starts again, and of    *)
(* those that do it starts again with one that does not: after two rounds  *)
(* nobody is left to ask.                                                  *)
LEMMA PlainAnswers ==
  ASSUME NEW a, NEW b, Plain(a)
  PROVE  /\ DoEquivalentLast(a, b) <=> DoEquivalent(a, b)
         /\ DoEquivalentAgain(a, b) <=> DoEquivalent(a, b)
BY DEF Plain, Wrapping, DoEquivalentLast, DoEquivalentAgain, DoEquivalent, Accepts

LEMMA PlainComparisons ==
  ASSUME NEW a, NEW b, Plain(a), Plain(b)
  PROVE  /\ EquivalentLast(a, b) <=> Equivalent(a, b)
         /\ EquivalentAgain(a, b) <=> Equivalent(a, b)
<1>1. \A c, d : Plain(c) => (DoEquivalentLast(c, d) <=> DoEquivalent(c, d))
  BY PlainAnswers
<1>2. \A c, d : Plain(c) => (DoEquivalentAgain(c, d) <=> DoEquivalent(c, d))
  BY PlainAnswers
<1>3. EquivalentLast(a, b) <=> Equivalent(a, b)
  BY <1>1 DEF EquivalentLast, Last!EquivalentBy, Equivalent, EquivalentBy, Last!Empty, Empty,
     Last!Unknown, Unknown, Last!Generic, Generic
<1>4. EquivalentAgain(a, b) <=> Equivalent(a, b)
  BY <1>2 DEF EquivalentAgain, Again!EquivalentBy, Equivalent, EquivalentBy, Again!Empty, Empty,
     Again!Unknown, Unknown, Again!Generic, Generic
<1> QED
  BY <1>3, <1>4

LEMMA AskedByPlain ==
  ASSUME platform \in Platforms, NEW a, NEW b, Plain(a), IsCode(b), b # Empty
  PROVE  DoEquivalentAgain(b, a) <=> DoEquivalent(b, a)
<1>1. CASE Plain(b)
  BY <1>1, PlainAnswers
<1>2. CASE ~Plain(b)
  <2>1. Innermost(b) = b /\ Flat(b)
    BY <1>2, CodeFacts
  <2>2. Converted(b) # Empty =>
          (EquivalentLast(Converted(b), a) <=> EquivalentAgain(Converted(b), a))
    BY <1>2, <2>1, ConvertedFacts, PlainComparisons
  <2>3. DoEquivalentAgain(b, a) <=>
          IF SameDomain(b, a) THEN b = a ELSE Converted(b) # Empty /\ EquivalentLast(Converted(b), a)
    BY <1>2, <2>1 DEF DoEquivalentAgain, Accepts, StdEquivalent, BoostEquivalent, Plain, Wrapping
  <2>4. DoEquivalent(b, a) <=>
          IF SameDomain(b, a) THEN b = a ELSE Converted(b) # Empty /\ EquivalentAgain(Converted(b), a)
    BY <1>2, <2>1 DEF DoEquivalent, Accepts, StdEquivalent, BoostEquivalent, Plain, Wrapping
  <2> QED
    BY <2>2, <2>3, <2>4
<1> QED
  BY <1>1, <1>2

(* A std or boost code answers as the whole comparison does for what it is *)
(* converted to.                                                           *)
LEMMA StartsOver ==
  ASSUME platform \in Platforms, NEW a, Flat(a), ~Plain(a), NEW b, IsCode(b), b # Empty
  PROVE  DoEquivalent(a, b) <=>
           IF SameDomain(a, b) THEN a = b ELSE Converted(a) # Empty /\ Equivalent(Converted(a), b)
<1> DEFINE c == Converted(a)
<1>1. ASSUME c # Empty
      PROVE  EquivalentAgain(c, b) <=> Equivalent(c, b)
  <2>1. Plain(c) /\ Plain(GenericCode(c))
    BY <1>1, ConvertedFacts, GenericFacts, GenericCodeIsGeneric
  <2>2. \A d : DoEquivalentAgain(c, d) <=> DoEquivalent(c, d)
    BY <2>1, PlainAnswers
  <2>3. /\ DoEquivalentAgain(b, c) <=> DoEquivalent(b, c)
        /\ DoEquivalentAgain(b, GenericCode(c)) <=> DoEquivalent(b, GenericCode(c))
    BY <2>1, AskedByPlain
  <2> HIDE DEF c
  <2> QED
    BY <2>2, <2>3 DEF EquivalentAgain, Again!EquivalentBy, Equivalent, EquivalentBy, Again!Empty,
       Empty, Again!Unknown, Unknown, Again!Generic, Generic
<1>2. Innermost(a) = a
  BY FlatFacts
<1>3. DoEquivalent(a, b) <=>
        IF SameDomain(a, b) THEN a = b ELSE c # Empty /\ EquivalentAgain(c, b)
  BY <1>2 DEF DoEquivalent, Accepts, StdEquivalent, BoostEquivalent, Plain, Wrapping
<1> QED
  BY <1>1, <1>3

-------------------------------------------------------------------------------
(* What a plain code's domain accepts.                                     *)
LEMMA PlainAccepts ==
  ASSUME NEW a, Flat(a), Plain(a), NEW b, DoEquivalent(a, b)
  PROVE  \/ b = a
         \/ a.dom \in {"posix", "win32", "nt"} /\ b = GenericCode(a)
         \/ a.dom = "nt" /\ b = Win32(NtWin32(a.val))
         \/ a.dom = "com" /\ a.wraps # Empty /\ (b = a.wraps \/ b = GenericCode(a))
         \/ /\ a.dom = "quick" /\ b.dom = "generic"
            /\ b.val \in Range(QuickErrnos(a.val))
BY FlatFacts DEF DoEquivalent, Accepts, Plain, Wrapping, PosixEquivalent, Win32Equivalent,
   NtEquivalent, ComEquivalent, QuickEquivalent, GenericCode, Errno, WindowsErrno, ComErrno, S_OK, Com

(* An indirecting domain answers for its payload, and is not known to      *)
(* plain ones.                                                             *)
LEMMA NestedFacts ==
  ASSUME NEW b, Flat(b), Plain(b)
  PROVE  /\ Nested(b) # Empty /\ Innermost(Nested(b)) = b /\ IsCode(Nested(b)) /\ Plain(Nested(b))
         /\ GenericCode(Nested(b)) = GenericCode(b)
         /\ Failure(Nested(b)) <=> Failure(b)
         /\ \A c : DoEquivalent(Nested(b), c) <=> DoEquivalent(b, c)
BY FlatFacts DEF Nested, Empty, Innermost, IsCode, Plain, GenericCode, Failure, DoEquivalent

(* The generic domain always recognises the errc a code is mapped to.      *)
LEMMA EqualsErrc ==
  ASSUME NEW c, c # Empty, GenericCode(c) # Unknown
  PROVE  Equivalent(c, GenericCode(c))
<1> DEFINE g == GenericCode(c)
<1>1. g # Empty /\ GenericCode(g) = g
  BY GenericFacts, GenericCodeIsGeneric
<1>2. DoEquivalent(g, g)
  BY GenericFacts, GenericCodeIsGeneric DEF DoEquivalent, Accepts
<1> QED
  BY <1>1, <1>2 DEF Equivalent, EquivalentBy

-------------------------------------------------------------------------------
(* Nesting.  A plain code's domain rejects nested codes, but whatever it   *)
(* would have accepted is found by one of the other questions.             *)
LEMMA RejectsNested ==
  ASSUME NEW a, Flat(a), Plain(a), NEW b, Flat(b)
  PROVE  ~DoEquivalent(a, Nested(b))
<1>1. Nested(b).dom = "nested" /\ a.dom # "nested"
  BY FlatFacts DEF Nested
<1>2. Nested(b) # GenericCode(a) /\ Nested(b) # Win32(NtWin32(a.val))
  BY <1>1, GenericFacts, GenericCodeIsGeneric DEF Win32
<1>3. a.dom = "com" /\ a.wraps # Empty => Nested(b) # a.wraps
  BY <1>1 DEF Flat, IsFlatCode, Wrapping, Win32, Nt
<1> QED
  BY <1>1, <1>2, <1>3, PlainAccepts

(* An NT status with an errc has the Win32 code of that errc.              *)
LEMMA TablesAgree ==
  ASSUME NEW v, NtErrno(v) # "unknown"
  PROVE  NtErrno(v) = Win32Errno(NtWin32(v))
<1>1. CASE v = "STATUS_PENDING"
  BY <1>1 DEF NtErrno, NtWin32, Win32Errno
<1>2. CASE v # "STATUS_PENDING"
  <2>1. v \in DOMAIN NtTable
    BY <1>2 DEF NtErrno, Row
  <2> QED
    BY <2>1, TablesAssumption
<1> QED
  BY <1>1, <1>2

LEMMA OtherQuestions ==
  ASSUME NEW a, Flat(a), Plain(a), Known(a), NEW b, Flat(b), Plain(b), Known(b),
         DoEquivalent(a, b)
  PROVE  \/ DoEquivalent(b, a)
         \/ DoEquivalent(a, GenericCode(b))
         \/ DoEquivalent(b, GenericCode(a))
<1>1. CASE b = a
  BY <1>1
<1>2. CASE b.dom = "generic"
  <2>1. GenericCode(b) = b
    BY <1>2, FlatFacts DEF Flat, IsFlatCode, Wrapping, GenericCode, Generic, Errno
  <2> QED
    BY <2>1
<1>3. CASE a.dom = "nt" /\ b = Win32(NtWin32(a.val))
  <2>1. GenericCode(a) = Generic(NtErrno(a.val)) /\ NtErrno(a.val) # "unknown"
    BY <1>3, FlatFacts DEF Known, Unknown, GenericCode, Errno, WindowsErrno
  <2>2. b.val = NtWin32(a.val) /\ NtErrno(a.val) = Win32Errno(b.val)
    BY <1>3, <2>1, TablesAgree DEF Win32
  <2>3. b.dom = "win32" /\ GenericCode(a).dom = "generic"
    BY <1>3, <2>1 DEF Win32, Generic
  <2> QED
    BY <2>1, <2>2, <2>3, FlatFacts DEF DoEquivalent, Accepts, Win32Equivalent, SameDomain
<1>4. CASE a.dom = "com" /\ a.wraps # Empty /\ b = a.wraps
  <2>1. GenericCode(a) = Generic(WindowsErrno(b))
    BY <1>4, FlatFacts DEF GenericCode, Errno, ComErrno, S_OK, Com
  <2>2. b.dom \in {"win32", "nt"} /\ GenericCode(a).dom = "generic"
    BY <1>4, <2>1 DEF Flat, IsFlatCode, Wrapping, Win32, Nt, Generic
  <2> QED
    BY <2>1, <2>2, FlatFacts DEF DoEquivalent, Accepts, Win32Equivalent, NtEquivalent, WindowsErrno,
       SameDomain
<1>5. b = GenericCode(a) => b.dom = "generic"
  BY GenericFacts, GenericCodeIsGeneric
<1> QED
  BY <1>1, <1>2, <1>3, <1>4, <1>5, PlainAccepts

LEMMA PlainNesting ==
  ASSUME NEW a, Flat(a), Plain(a), Known(a), NEW b, Flat(b), Plain(b), Known(b)
  PROVE  Equivalent(a, b) <=> Equivalent(a, Nested(b))
<1> HIDE DEF Known
<1>1. a # Empty /\ b # Empty /\ Nested(b) # Empty
  BY FlatFacts, NestedFacts
<1>2. Equivalent(a, Nested(b)) <=>
        \/ DoEquivalent(b, a)
        \/ DoEquivalent(a, GenericCode(b))
        \/ DoEquivalent(b, GenericCode(a))
  BY <1>1, NestedFacts, RejectsNested DEF Equivalent, EquivalentBy, Known
<1>3. Equivalent(a, b) <=>
        \/ DoEquivalent(a, b)
        \/ DoEquivalent(b, a)
        \/ DoEquivalent(a, GenericCode(b))
        \/ DoEquivalent(b, GenericCode(a))
  BY <1>1 DEF Equivalent, EquivalentBy, Known
<1> QED
  BY <1>2, <1>3, OtherQuestions

LEMMA NestingIsNotSeen ==
  ASSUME platform \in Platforms, NEW a, Flat(a), Known(a), NEW b, Flat(b), Plain(b), Known(b)
  PROVE  Equivalent(a, b) <=> Equivalent(a, Nested(b))
<1>1. CASE Plain(a)
  BY <1>1, PlainNesting
<1>2. CASE ~Plain(a)
  <2>1. /\ a # Empty /\ a.dom \in Wrapping
        /\ b # Empty /\ b.dom \notin Wrapping
        /\ Nested(b) # Empty /\ Nested(b).dom = "nested"
        /\ IsCode(b) /\ IsCode(Nested(b))
    BY <1>2, FlatFacts, NestedFacts DEF Plain, IsCode, Nested
  <2>2. ~SameDomain(a, b) /\ ~SameDomain(a, Nested(b))
    BY <2>1 DEF SameDomain, Wrapping
  <2>3. Converted(a) # Empty => (Equivalent(Converted(a), b) <=> Equivalent(Converted(a), Nested(b)))
    BY <1>2, ConvertedFacts, PlainNesting DEF Known
  <2>4. DoEquivalent(a, b) <=> DoEquivalent(a, Nested(b))
    BY <1>2, <2>1, <2>2, <2>3, StartsOver
  <2> QED
    BY <2>1, <2>4, NestedFacts DEF Equivalent, EquivalentBy
<1> QED
  BY <1>1, <1>2

-------------------------------------------------------------------------------
(* A property of codes that their errc and what they are converted to have *)
(* too, and that no plain code's domain mixes up, is the same for codes    *)
(* that compare equal.  S is a set of codes closed under both.             *)
LEMMA EqualCodesShare ==
  ASSUME platform \in Platforms, NEW S, NEW f,
         \A c \in S :
           /\ IsCode(c) /\ c # Empty
           /\ GenericCode(c) # Unknown => GenericCode(c) \in S /\ f[GenericCode(c)] = f[c]
           /\ ~Plain(c) /\ Converted(c) # Empty => Converted(c) \in S /\ f[Converted(c)] = f[c]
           /\ Plain(c) => \A d \in S : DoEquivalent(c, d) => f[c] = f[d],
         NEW a \in S, NEW b \in S, Equivalent(a, b)
  PROVE  f[a] = f[b]
<1>1. ASSUME NEW c \in S, NEW d \in S, Equivalent(c, d),
             DoEquivalent(c, d) => f[c] = f[d],
             DoEquivalent(d, c) => f[c] = f[d],
             DoEquivalent(c, GenericCode(d)) /\ GenericCode(d) \in S => f[c] = f[GenericCode(d)],
             DoEquivalent(d, GenericCode(c)) /\ GenericCode(c) \in S => f[d] = f[GenericCode(c)]
      PROVE  f[c] = f[d]
  BY <1>1 DEF Equivalent, EquivalentBy
<1>2. \A c \in S : Plain(GenericCode(c))
  BY GenericFacts, GenericCodeIsGeneric
<1>3. ASSUME NEW c \in S, NEW d \in S, Plain(c), Plain(d), Equivalent(c, d)
      PROVE  f[c] = f[d]
  BY <1>1, <1>3
<1>4. ASSUME NEW c \in S, NEW d \in S, Plain(d), DoEquivalent(c, d)
      PROVE  f[c] = f[d]
  <2>1. CASE Plain(c)
    BY <1>4, <2>1
  <2>2. CASE ~Plain(c)
    <3>1. Flat(c)
      BY <2>2, CodeFacts
    <3>2. c = d \/ (Converted(c) # Empty /\ Equivalent(Converted(c), d))
      BY <1>4, <2>2, <3>1, StartsOver
    <3>3. Converted(c) # Empty => Plain(Converted(c))
      BY <2>2, <3>1, ConvertedFacts
    <3> QED
      BY <1>3, <1>4, <2>2, <3>2, <3>3
  <2> QED
    BY <2>1, <2>2
<1>5. ASSUME NEW c \in S, NEW d \in S, Plain(c), Equivalent(c, d)
      PROVE  f[c] = f[d]
  BY <1>1, <1>2, <1>4, <1>5
<1>6. ASSUME NEW c \in S, NEW d \in S, DoEquivalent(c, d)
      PROVE  f[c] = f[d]
  <2>1. CASE Plain(c)
    BY <1>6, <2>1
  <2>2. CASE ~Plain(c)
    <3>1. Flat(c)
      BY <2>2, CodeFacts
    <3>2. c = d \/ (Converted(c) # Empty /\ Equivalent(Converted(c), d))
      BY <1>6, <2>2, <3>1, StartsOver
    <3>3. Converted(c) # Empty => Plain(Converted(c))
      BY <2>2, <3>1, ConvertedFacts
    <3> QED
      BY <1>5, <1>6, <2>2, <3>2, <3>3
  <2> QED
    BY <2>1, <2>2
<1> QED
  BY <1>1, <1>6

(* Such a set: a code, its errc and what it is converted to.               *)
Near(c) == {c, GenericCode(c)} \cup IF Plain(c) THEN {} ELSE {Converted(c)}

LEMMA NearIsClosed ==
  ASSUME platform \in Platforms, NEW a, IsCode(a), a # Empty, NEW c \in Near(a), c # Empty
  PROVE  /\ IsCode(c)
         /\ GenericCode(c) \in Near(a)
         /\ ~Plain(c) => Converted(c) \in Near(a)
<1>1. CASE c = a
  BY <1>1 DEF Near
<1>2. CASE c = GenericCode(a)
  BY <1>2, GenericFacts, GenericCodeIsGeneric DEF Near, IsCode
<1>3. CASE ~Plain(a) /\ c = Converted(a)
  <2>1. Flat(a)
    BY <1>3, CodeFacts
  <2> QED
    BY <1>3, <2>1, ConvertedFacts DEF Near, IsCode
<1> QED
  BY <1>1, <1>2, <1>3 DEF Near

-------------------------------------------------------------------------------
(* Failure.  The tables map to success nothing but successes.              *)
LEMMA TableFacts ==
  ASSUME NEW v
  PROVE  /\ Win32Errno(v) = "success" <=> v = "ERROR_SUCCESS"
         /\ NtErrno(v) = "success" <=> v = "STATUS_PENDING"
         /\ NtWin32(v) = "ERROR_SUCCESS" <=> v = "STATUS_PENDING"
         /\ GetAddrInfoErrno(v) # "success" /\ GetAddrInfoErrno("0") = "unknown"
         /\ HttpErrno(v) # "success"
         /\ v \in HttpSucceeds /\ v \notin {"102", "202"} => HttpErrno(v) = "unknown"
<1>1. /\ Win32Errno(v) = "success" <=> v = "ERROR_SUCCESS"
      /\ NtErrno(v) = "success" <=> v = "STATUS_PENDING"
      /\ NtWin32(v) = "ERROR_SUCCESS" <=> v = "STATUS_PENDING"
  BY TablesAssumption DEF Win32Errno, NtErrno, NtWin32, Row
<1>2. GetAddrInfoErrno(v) # "success" /\ GetAddrInfoErrno("0") = "unknown"
  BY DEF GetAddrInfoErrno
<1>3. HttpErrno(v) # "success"
  BY DEF HttpErrno
<1>4. v \in HttpSucceeds /\ v \notin {"102", "202"} => HttpErrno(v) = "unknown"
  BY DEF HttpErrno, HttpSucceeds
<1> QED
  BY <1>1, <1>2, <1>3, <1>4

LEMMA QuickFacts ==
  ASSUME NEW v
  PROVE  \/ QuickErrno(v) = "unknown" /\ Range(QuickErrnos(v)) = {}
         \/ QuickErrno(v) \in Range(QuickErrnos(v))
<1>1. QuickErrnos(v) \in Seq(STRING)
  <2>1. <<>> \in Seq(STRING)
    OBVIOUS
  <2> QED
    BY <2>1, QuickAssumption, Zenon DEF QuickErrnos, Row
<1>2. CASE QuickErrnos(v) = <<>>
  BY <1>2 DEF QuickErrno, Range
<1>3. CASE QuickErrnos(v) # <<>>
  <2>1. 1 \in DOMAIN QuickErrnos(v)
    BY <1>1, <1>3
  <2> QED
    BY <1>3, <2>1 DEF QuickErrno, Range
<1> QED
  BY <1>2, <1>3

LEMMA WindowsFailure ==
  ASSUME NEW c, c.dom \in {"win32", "nt"}
  PROVE  Fails(c) <=> WindowsErrno(c) # "success"
BY TableFacts DEF Fails, WindowsErrno, Wrapping

(* A code agrees with its errc on being a failure.                         *)
LEMMA FailsAsErrc ==
  ASSUME platform \in Platforms, NEW c, Flat(c), ~Ambiguous(c), Errno(c) # "unknown"
  PROVE  Fails(c) <=> Errno(c) # "success"
<1>1. CASE c.dom \in {"generic", "posix"}
  BY <1>1 DEF Fails, Errno, Wrapping
<1>2. CASE c.dom \in {"win32", "nt"}
  BY <1>2, WindowsFailure DEF Errno
<1>3. CASE c.dom = "com"
  <2>1. c.wraps # Empty => c.wraps.dom \in {"win32", "nt"} /\ (c.severity = "ok" <=> ~Fails(c.wraps))
    BY <1>3, FlatFacts DEF Flat, IsFlatCode, Wrapping, Win32, Nt, Ambiguous
  <2>2. c.severity \in {"ok", "error"} \/ c = S_OK
    BY <1>3 DEF Flat, IsFlatCode, Wrapping
  <2>3. Fails(c) <=> c.severity = "error"
    BY <1>3 DEF Fails, Wrapping
  <2>4. CASE c = S_OK
    <3>1. c.severity = "S_OK" /\ Errno(c) = "success"
      BY <1>3, <2>4 DEF Errno, ComErrno, S_OK, Com
    <3> QED
      BY <2>3, <3>1
  <2>5. CASE c # S_OK
    BY <1>3, <2>1, <2>2, <2>3, <2>5, WindowsFailure DEF Errno, ComErrno
  <2> QED
    BY <2>4, <2>5
<1>4. CASE c.dom = "getaddrinfo"
  BY <1>4, TableFacts DEF Fails, Errno, Wrapping
<1>5. CASE c.dom = "http"
  <2>1. c.val \notin {"102", "202"}
    BY <1>5, FlatFacts DEF Ambiguous, Flat, IsFlatCode, Wrapping, Http
  <2> QED
    BY <1>5, <2>1, TableFacts DEF Fails, Errno, Wrapping
<1>6. CASE c.dom = "quick"
  <2>1. Errno(c) = QuickErrno(c.val) /\ Errno(c) \in Range(QuickErrnos(c.val))
    BY <1>6, QuickFacts DEF Errno
  <2>2. Fails(c) <=> "success" \notin Range(QuickErrnos(c.val))
    BY <1>6 DEF Fails, Wrapping
  <2>3. Fails(c) \/ Range(QuickErrnos(c.val)) = {"success"}
    BY <1>6, FlatFacts DEF Ambiguous
  <2> QED
    BY <2>1, <2>2, <2>3
<1>7. CASE c.dom \in Wrapping
  <2>1. /\ c.cat = "generic" => c.val # "ERROR_SUCCESS"
        /\ c.cat = "system" => c.val # IF platform = "windows" THEN "success" ELSE "ERROR_SUCCESS"
    BY <1>7 DEF Flat, IsFlatCode, Wrapping
  <2>2. Errno(c) = StdErrno(c.cat, c.val)
    BY <1>7 DEF Errno, Wrapping
  <2>3. Fails(c) <=> c.val \notin {"success", "ERROR_SUCCESS"}
    BY <1>7 DEF Fails, Wrapping
  <2> QED
    BY <2>1, <2>2, <2>3, TableFacts DEF StdErrno
<1> QED
  BY <1>1, <1>2, <1>3, <1>4, <1>5, <1>6, <1>7 DEF Flat, IsFlatCode

(* A code that a plain code's domain accepts agrees with the code.         *)
LEMMA PlainAgrees ==
  ASSUME NEW a, Flat(a), Plain(a), ~Ambiguous(a), NEW b, DoEquivalent(a, b), IsCode(b)
  PROVE  Failure(a) <=> Failure(b)
<1>1. CASE b = a
  BY <1>1
<1>2. CASE a.dom = "posix" /\ b = GenericCode(a)
  BY <1>2, FlatFacts, GenericFacts DEF Failure, GenericCode, Errno, Fails, Wrapping
<1>3. CASE a.dom \in {"win32", "nt"} /\ b = GenericCode(a)
  <2>1. Failure(b) <=> WindowsErrno(a) # "success"
    BY <1>3, FlatFacts, GenericFacts DEF Failure, GenericCode, Errno, Fails, Wrapping
  <2> QED
    BY <1>3, <2>1, FlatFacts, WindowsFailure DEF Failure
<1>4. CASE a.dom = "nt" /\ b = Win32(NtWin32(a.val))
  <2>1. Innermost(b) = b /\ b.dom = "win32" /\ b.val = NtWin32(a.val)
    BY <1>4 DEF Win32, Innermost
  <2> QED
    BY <1>4, <2>1, FlatFacts, TableFacts DEF Failure, Fails, Wrapping
<1>5. CASE a.dom = "com" /\ a.wraps # Empty /\ (b = a.wraps \/ b = GenericCode(a))
  <2>1. a.wraps.dom \in {"win32", "nt"} /\ (a.severity = "ok" <=> ~Fails(a.wraps))
    BY <1>5, FlatFacts DEF Flat, IsFlatCode, Wrapping, Win32, Nt, Ambiguous
  <2>2. Fails(a) <=> a.severity = "error"
    BY <1>5 DEF Fails, Wrapping
  <2>3. a.severity \in {"ok", "error"}
    BY <1>5 DEF Flat, IsFlatCode, Wrapping, S_OK, Com
  <2>4. Innermost(a.wraps) = a.wraps
    BY <2>1 DEF Innermost
  <2>5. Failure(GenericCode(a)) <=> WindowsErrno(a.wraps) # "success"
    BY <1>5, FlatFacts, GenericFacts DEF Failure, GenericCode, Errno, ComErrno, S_OK, Com, Fails, Wrapping
  <2> QED
    BY <1>5, <2>1, <2>2, <2>3, <2>4, <2>5, FlatFacts, WindowsFailure DEF Failure
<1>6. CASE a.dom = "quick" /\ b.dom = "generic" /\ b.val \in Range(QuickErrnos(a.val))
  <2>1. Failure(b) <=> b.val # "success"
    BY <1>6 DEF Failure, Innermost, Fails, Wrapping
  <2>2. Failure(a) <=> "success" \notin Range(QuickErrnos(a.val))
    BY <1>6, FlatFacts DEF Failure, Fails, Wrapping
  <2>3. Fails(a) \/ Range(QuickErrnos(a.val)) = {"success"}
    BY <1>6, FlatFacts DEF Ambiguous
  <2>4. Failure(a) <=> Fails(a)
    BY FlatFacts, <1>6 DEF Failure, Wrapping
  <2> QED
    BY <1>6, <2>1, <2>2, <2>3, <2>4
<1> QED
  BY <1>1, <1>2, <1>3, <1>4, <1>5, <1>6, PlainAccepts

LEMMA EqualCodesAgree ==
  ASSUME platform \in Platforms, NEW a, IsCode(a), ~Ambiguous(a), NEW b, IsCode(b), ~Ambiguous(b),
         a # Empty, b # Empty, Equivalent(a, b)
  PROVE  Failure(a) <=> Failure(b)
<1> DEFINE S == {c \in Near(a) \cup Near(b) : ~Ambiguous(c) /\ c # Empty}
           Says(c) == IF Failure(c) THEN "failure" ELSE "success"
           f == [c \in S |-> Says(c)]
<1>1. ASSUME NEW c
      PROVE  ~Ambiguous(GenericCode(c)) /\ IsCode(GenericCode(c)) /\ GenericCode(c) # Empty
  BY GenericFacts, GenericCodeIsGeneric DEF Ambiguous, IsCode, Http
<1>0. ASSUME NEW c \in S
      PROVE  /\ IsCode(c)
             /\ GenericCode(c) \in Near(a) \cup Near(b)
             /\ ~Plain(c) => Converted(c) \in Near(a) \cup Near(b)
  BY NearIsClosed
<1>2. ASSUME NEW c \in S, GenericCode(c) # Unknown
      PROVE  Failure(GenericCode(c)) <=> Failure(c)
  <2> DEFINE i == Innermost(c)
  <2>1. Flat(i) /\ ~Ambiguous(i) /\ Errno(i) # "unknown"
    BY <1>0, <1>2, CodeFacts, GenericCodeIsGeneric DEF Ambiguous, Unknown
  <2>2. Failure(GenericCode(c)) <=> Errno(i) # "success"
    BY GenericFacts, GenericCodeIsGeneric DEF Failure, Fails, Wrapping
  <2> QED
    BY <2>1, <2>2, FailsAsErrc DEF Failure
<1>3. ASSUME NEW c \in S, ~Plain(c), Converted(c) # Empty
      PROVE  /\ IsCode(Converted(c)) /\ ~Ambiguous(Converted(c))
             /\ Failure(Converted(c)) <=> Failure(c)
  <2>1. Flat(c)
    BY <1>0, <1>3, CodeFacts
  <2> QED
    BY <1>3, <2>1, ConvertedFacts, FlatFacts DEF Ambiguous, IsCode, Http
<1>4. ASSUME NEW c \in S, NEW d \in S, Plain(c), DoEquivalent(c, d)
      PROVE  Failure(c) <=> Failure(d)
  <2>1. Flat(Innermost(c)) /\ Innermost(Innermost(c)) = Innermost(c)
    BY <1>0, CodeFacts
  <2>2. Plain(Innermost(c)) /\ ~Ambiguous(Innermost(c)) /\ DoEquivalent(Innermost(c), d)
    BY <1>4, <2>1 DEF Plain, Ambiguous, DoEquivalent
  <2>3. Failure(Innermost(c)) <=> Failure(c)
    BY <2>1 DEF Failure
  <2> QED
    BY <1>0, <1>4, <2>1, <2>2, <2>3, PlainAgrees
<1>5. \A c \in S : f[c] = Says(c)
  OBVIOUS
<1>6. ASSUME NEW c \in S
      PROVE  /\ IsCode(c) /\ c # Empty
             /\ GenericCode(c) # Unknown => GenericCode(c) \in S /\ f[GenericCode(c)] = f[c]
             /\ ~Plain(c) /\ Converted(c) # Empty => Converted(c) \in S /\ f[Converted(c)] = f[c]
             /\ Plain(c) => \A d \in S : DoEquivalent(c, d) => f[c] = f[d]
  <2>1. GenericCode(c) \in S
    BY <1>0, <1>1
  <2>2. ~Plain(c) /\ Converted(c) # Empty => Converted(c) \in S
    BY <1>0, <1>3
  <2> HIDE DEF f
  <2>3. GenericCode(c) # Unknown => f[GenericCode(c)] = f[c]
    BY <1>2, <1>5, <2>1
  <2>4. ~Plain(c) /\ Converted(c) # Empty => f[Converted(c)] = f[c]
    BY <1>3, <1>5, <2>2
  <2>5. ASSUME NEW d \in S, Plain(c), DoEquivalent(c, d)
        PROVE  f[c] = f[d]
    BY <1>4, <1>5, <2>5
  <2> QED
    BY <1>0, <2>1, <2>2, <2>3, <2>4, <2>5
<1>7. a \in S /\ b \in S
  BY DEF Near
<1>8. f[a] = f[b]
  <2> HIDE DEF S, f
  <2> QED
    BY <1>6, <1>7, EqualCodesShare
<1> QED
  BY <1>5, <1>7, <1>8

-------------------------------------------------------------------------------
(* Codes with one errc.                                                    *)
LEMMA ExactErrcs ==
  ASSUME NEW c, Exact(c)
  PROVE  c # Empty /\ GenericCode(c) # Unknown /\ Exact(GenericCode(c))
BY GenericFacts, GenericCodeIsGeneric DEF Exact, Known

LEMMA ExactConverts ==
  ASSUME platform \in Platforms, NEW c, IsCode(c), Exact(c), ~Plain(c)
  PROVE  Converted(c) # Empty /\ Exact(Converted(c)) /\ ~SameDomain(c, GenericCode(c))
<1>1. Flat(c) /\ Innermost(c) = c /\ c # Empty
  BY CodeFacts DEF Exact, Known
<1>2. Converted(c) # Empty
  BY <1>1 DEF Plain, Wrapping, Exact, Converted, Generic, Posix, Win32, Empty, Platforms, StdErrno,
     Known, Unknown, GenericCode, Errno
<1>3. Innermost(Converted(c)) = Converted(c) /\ GenericCode(Converted(c)) = GenericCode(c)
      /\ Converted(c).dom \in {"generic", "posix", "win32"}
  BY <1>1, <1>2, ConvertedFacts, FlatFacts
<1>4. c.dom \in Wrapping /\ GenericCode(c).dom = "generic"
  BY <1>1, GenericFacts, GenericCodeIsGeneric DEF Plain
<1> QED
  BY <1>2, <1>3, <1>4 DEF Exact, Known, SameDomain, Wrapping

(* The domain of a code with one errc accepts that one.                    *)
LEMMA PlainExactAccepts ==
  ASSUME NEW c, IsCode(c), Exact(c), Plain(c)
  PROVE  DoEquivalent(c, GenericCode(c))
<1> DEFINE i == Innermost(c)
           g == GenericCode(c)
<1>1. Flat(i) /\ Innermost(i) = i /\ Plain(i)
  BY CodeFacts DEF Exact, Known, Plain
<1>2. g = Generic(Errno(i)) /\ g.dom = "generic" /\ g.val = Errno(i) /\ Errno(i) # "unknown"
  BY GenericFacts, GenericCodeIsGeneric DEF Exact, Known, Unknown
<1>3. i.dom \notin Wrapping
  BY <1>1 DEF Plain
<1>4. CASE i.dom = "generic"
  <2>1. g = i
    BY <1>1, <1>2, <1>4 DEF Flat, IsFlatCode, Wrapping, Errno, Generic
  <2> QED
    BY <1>4, <2>1 DEF DoEquivalent, Accepts
<1>5. CASE i.dom \in {"posix", "win32", "nt"}
  BY <1>2, <1>5 DEF DoEquivalent, Accepts, PosixEquivalent, Win32Equivalent, NtEquivalent,
     SameDomain, Errno, WindowsErrno
<1>6. CASE i.dom = "com" /\ i.wraps # Empty
  BY <1>2, <1>6 DEF DoEquivalent, Accepts, ComEquivalent, SameDomain, Errno, ComErrno, S_OK, Com
<1>7. CASE i.dom = "quick"
  BY <1>2, <1>7, QuickFacts DEF DoEquivalent, Accepts, QuickEquivalent, SameDomain, Errno
<1> QED
  BY <1>3, <1>4, <1>5, <1>6, <1>7 DEF Exact

LEMMA ExactAccepts ==
  ASSUME platform \in Platforms, NEW c, IsCode(c), Exact(c)
  PROVE  DoEquivalent(c, GenericCode(c))
<1>1. CASE Plain(c)
  BY <1>1, PlainExactAccepts
<1>2. CASE ~Plain(c)
  <2>1. Flat(c) /\ c # Empty
    BY <1>2, CodeFacts DEF Exact, Known
  <2>2. Converted(c) # Empty /\ ~SameDomain(c, GenericCode(c))
    BY <1>2, ExactConverts
  <2>3. GenericCode(Converted(c)) = GenericCode(c) /\ GenericCode(c) # Unknown
    BY <1>2, <2>1, <2>2, ConvertedFacts DEF Exact, Known
  <2>4. Equivalent(Converted(c), GenericCode(c))
    BY <2>2, <2>3, EqualsErrc
  <2>5. IsCode(GenericCode(c)) /\ GenericCode(c) # Empty
    BY GenericFacts, GenericCodeIsGeneric DEF IsCode
  <2> QED
    BY <1>2, <2>1, <2>2, <2>4, <2>5, StartsOver
<1> QED
  BY <1>1, <1>2

(* And no code of another one.                                             *)
LEMMA PlainExactRejects ==
  ASSUME NEW a, Flat(a), Plain(a), Exact(a), NEW b, Exact(b), IsCode(b), DoEquivalent(a, b)
  PROVE  GenericCode(a) = GenericCode(b)
<1>1. Innermost(a) = a /\ a.dom \notin Wrapping
  BY FlatFacts DEF Plain
<1>2. GenericCode(a) # Unknown
  BY ExactErrcs
<1>3. CASE a.dom = "nt" /\ b = Win32(NtWin32(a.val))
  <2>1. GenericCode(a) = Generic(NtErrno(a.val)) /\ GenericCode(b) = Generic(Win32Errno(NtWin32(a.val)))
    BY <1>1, <1>3 DEF GenericCode, Errno, WindowsErrno, Win32, Innermost
  <2>2. NtErrno(a.val) # "unknown"
    BY <1>2, <2>1 DEF Unknown
  <2> QED
    BY <2>1, <2>2, TablesAgree
<1>4. CASE a.dom = "com" /\ a.wraps # Empty /\ b = a.wraps
  <2>1. b.dom \in {"win32", "nt"}
    BY <1>4 DEF Flat, IsFlatCode, Wrapping, Win32, Nt
  <2> QED
    BY <1>1, <1>4, <2>1 DEF GenericCode, Errno, ComErrno, S_OK, Com, Innermost
<1>5. CASE a.dom = "quick" /\ b.dom = "generic" /\ b.val \in Range(QuickErrnos(a.val))
  <2>1. Range(QuickErrnos(a.val)) = {QuickErrno(a.val)}
    BY <1>1, <1>5 DEF Exact, Wrapping
  <2>2. GenericCode(b) = Generic(b.val)
    BY <1>5 DEF GenericCode, Errno, Innermost
  <2>3. GenericCode(a) = Generic(QuickErrno(a.val))
    BY <1>1, <1>5 DEF GenericCode, Errno
  <2> QED
    BY <1>5, <2>1, <2>2, <2>3
<1> QED
  BY <1>3, <1>4, <1>5, PlainAccepts, GenericCodeIsGeneric

LEMMA EqualExactCodes ==
  ASSUME platform \in Platforms, NEW a, IsCode(a), Exact(a), NEW b, IsCode(b), Exact(b),
         Equivalent(a, b)
  PROVE  GenericCode(a) = GenericCode(b)
<1> DEFINE S == {c \in Near(a) \cup Near(b) : Exact(c)}
           f == [c \in S |-> GenericCode(c)]
<1>1. a # Empty /\ b # Empty
  BY ExactErrcs
<1>2. ASSUME NEW c \in S
      PROVE  /\ IsCode(c) /\ c # Empty
             /\ GenericCode(c) \in S
             /\ ~Plain(c) => Converted(c) \in S
  <2>1. c # Empty /\ Exact(c) /\ Exact(GenericCode(c))
    BY ExactErrcs
  <2>2. /\ IsCode(c)
        /\ GenericCode(c) \in Near(a) \cup Near(b)
        /\ ~Plain(c) => Converted(c) \in Near(a) \cup Near(b)
    BY <1>1, <2>1, NearIsClosed
  <2> QED
    BY <2>1, <2>2, ExactConverts
<1>3. ASSUME NEW c \in S, NEW d \in S, Plain(c), DoEquivalent(c, d)
      PROVE  GenericCode(c) = GenericCode(d)
  <2> DEFINE i == Innermost(c)
  <2>1. Flat(i) /\ Innermost(i) = i
    BY <1>2, CodeFacts
  <2>2. GenericCode(i) = GenericCode(c)
    BY <2>1 DEF GenericCode
  <2>3. Plain(i) /\ DoEquivalent(i, d)
    BY <1>3, <2>1 DEF Plain, DoEquivalent
  <2>4. Exact(i)
    BY <2>1, <2>2, FlatFacts DEF Exact, Known
  <2> QED
    BY <1>2, <2>1, <2>2, <2>3, <2>4, PlainExactRejects
<1>4. \A c \in S : f[c] = GenericCode(c)
  OBVIOUS
<1>5. ASSUME NEW c \in S
      PROVE  /\ IsCode(c) /\ c # Empty
             /\ GenericCode(c) # Unknown => GenericCode(c) \in S /\ f[GenericCode(c)] = f[c]
             /\ ~Plain(c) /\ Converted(c) # Empty => Converted(c) \in S /\ f[Converted(c)] = f[c]
             /\ Plain(c) => \A d \in S : DoEquivalent(c, d) => f[c] = f[d]
  <2> HIDE DEF f
  <2>1. f[GenericCode(c)] = f[c]
    BY <1>2, <1>4, GenericCodeIsGeneric
  <2>2. ~Plain(c) /\ Converted(c) # Empty => f[Converted(c)] = f[c]
    BY <1>2, <1>4, CodeFacts, ConvertedFacts
  <2>3. ASSUME NEW d \in S, Plain(c), DoEquivalent(c, d)
        PROVE  f[c] = f[d]
    BY <1>3, <1>4, <2>3
  <2> QED
    BY <1>2, <2>1, <2>2, <2>3
<1>6. a \in S /\ b \in S
  BY DEF Near
<1>7. f[a] = f[b]
  <2> HIDE DEF S, f
  <2> QED
    BY <1>5, <1>6, EqualCodesShare
<1> QED
  BY <1>4, <1>6, <1>7

LEMMA ExactAreFaithful ==
  ASSUME platform \in Platforms, NEW C, \A c \in C : IsCode(c) /\ Exact(c)
  PROVE  Faithful(C \cup {GenericCode(c) : c \in C})
<1> DEFINE F == C \cup {GenericCode(c) : c \in C}
<1>1. \A a \in F : IsCode(a) /\ Exact(a) /\ GenericCode(a) \in F
  BY ExactErrcs, GenericFacts, GenericCodeIsGeneric DEF IsCode
<1>2. ASSUME NEW a \in F, NEW b \in F, DoEquivalent(a, b)
      PROVE  GenericCode(a) = GenericCode(b)
  <2>1. Equivalent(a, b)
    BY <1>1, <1>2, ExactErrcs DEF Equivalent, EquivalentBy
  <2> QED
    BY <1>1, <2>1, EqualExactCodes
<1>3. \A a \in F : a # Empty /\ GenericCode(a) # Unknown /\ DoEquivalent(a, GenericCode(a))
  BY <1>1, ExactErrcs, ExactAccepts
<1> HIDE DEF F
<1>4. Faithful(F)
  BY <1>1, <1>2, <1>3, GenericCodeIsGeneric DEF Faithful
<1> QED
  BY <1>4 DEF F

(* == of codes with one errc each, of whatever domains, nested or wrapped, *)
(* is having the same errc; so there it is reflexive, symmetric and        *)
(* transitive.                                                             *)
THEOREM ExactCodesAreTheirErrc ==
  ASSUME platform \in Platforms, NEW a, IsCode(a), Exact(a), NEW b, IsCode(b), Exact(b)
  PROVE  Equivalent(a, b) <=> GenericCode(a) = GenericCode(b)
<1>1. ASSUME GenericCode(a) = GenericCode(b)
      PROVE  Equivalent(a, b)
  BY <1>1, ExactErrcs, ExactAccepts DEF Equivalent, EquivalentBy
<1> QED
  BY <1>1, EqualExactCodes

-------------------------------------------------------------------------------
(* The catch clauses.  A class matches no clause, one, or one and that of  *)
(* a class derived from it, which comes first.                             *)
LEMMA ClauseFacts ==
  /\ DOMAIN Clauses = {1, 2, 3, 4, 5, 6, 7, 8, 9, 10}
  /\ \A i \in DOMAIN Clauses : Clauses[i].errc # "success"
  /\ Clauses[1].class = "invalid_argument" /\ Clauses[2].class = "domain_error"
  /\ Clauses[3].class = "length_error" /\ Clauses[4].class = "out_of_range"
  /\ Clauses[5].class = "logic_error" /\ Clauses[6].class = "system_error"
  /\ Clauses[7].class = "overflow_error" /\ Clauses[8].class = "range_error"
  /\ Clauses[9].class = "runtime_error" /\ Clauses[10].class = "bad_alloc"
<1>1. DOMAIN Clauses = 1 .. 10
  BY DEF Clauses
<1>2. 1 .. 10 = {1, 2, 3, 4, 5, 6, 7, 8, 9, 10}
  OBVIOUS
<1>3. /\ Clauses[1] = [class |-> "invalid_argument", errc |-> "invalid_argument"]
      /\ Clauses[2] = [class |-> "domain_error", errc |-> "argument_out_of_domain"]
      /\ Clauses[3] = [class |-> "length_error", errc |-> "argument_list_too_long"]
      /\ Clauses[4] = [class |-> "out_of_range", errc |-> "result_out_of_range"]
      /\ Clauses[5] = [class |-> "logic_error", errc |-> "invalid_argument"]
  BY DEF Clauses
<1>4. /\ Clauses[6] = [class |-> "system_error", errc |-> "its_own"]
      /\ Clauses[7] = [class |-> "overflow_error", errc |-> "value_too_large"]
      /\ Clauses[8] = [class |-> "range_error", errc |-> "result_out_of_range"]
      /\ Clauses[9] = [class |-> "runtime_error", errc |-> "resource_unavailable_try_again"]
      /\ Clauses[10] = [class |-> "bad_alloc", errc |-> "not_enough_memory"]
  BY DEF Clauses
<1>5. DOMAIN Clauses = {1, 2, 3, 4, 5, 6, 7, 8, 9, 10}
  BY <1>1, <1>2
<1>6. /\ Clauses[1].errc # "success" /\ Clauses[2].errc # "success"
      /\ Clauses[3].errc # "success" /\ Clauses[4].errc # "success"
      /\ Clauses[5].errc # "success"
  BY <1>3
<1>7. /\ Clauses[6].errc # "success" /\ Clauses[7].errc # "success"
      /\ Clauses[8].errc # "success" /\ Clauses[9].errc # "success"
      /\ Clauses[10].errc # "success"
  BY <1>4
<1>8. /\ Clauses[1].class = "invalid_argument" /\ Clauses[2].class = "domain_error"
      /\ Clauses[3].class = "length_error" /\ Clauses[4].class = "out_of_range"
      /\ Clauses[5].class = "logic_error"
  BY <1>3
<1>9. /\ Clauses[6].class = "system_error"
      /\ Clauses[7].class = "overflow_error" /\ Clauses[8].class = "range_error"
      /\ Clauses[9].class = "runtime_error" /\ Clauses[10].class = "bad_alloc"
  BY <1>4
<1>10. \A i \in DOMAIN Clauses : Clauses[i].errc # "success"
  BY <1>5, <1>6, <1>7
<1> QED
  BY <1>5, <1>8, <1>9, <1>10

LEMMA ParentFacts ==
  /\ ParentOf("exception") = "exception" /\ ParentOf("other") = "other"
  /\ \A c \in {"logic_error", "runtime_error", "bad_alloc", "status_error"} :
       ParentOf(c) = "exception"
  /\ \A c \in {"invalid_argument", "domain_error", "length_error", "out_of_range",
                "future_error"} : ParentOf(c) = "logic_error"
  /\ \A c \in {"system_error", "overflow_error", "range_error", "underflow_error",
                "boost_system_error"} : ParentOf(c) = "runtime_error"
  /\ ParentOf("ios_failure") = "system_error"
  /\ ParentOf("bad_array_new_length") = "bad_alloc"
BY DEF ParentOf, Parent

LEMMA ClassFacts ==
  Classes = {"exception", "other", "logic_error", "runtime_error", "bad_alloc", "status_error",
             "invalid_argument", "domain_error", "length_error", "out_of_range", "future_error",
             "system_error", "overflow_error", "range_error", "underflow_error",
             "boost_system_error", "ios_failure", "bad_array_new_length"}
BY DEF Classes, Parent

LEMMA MatchingFacts ==
  /\ \A c \in {"exception", "other", "status_error"} : Matching(c) = {}
  /\ \A c \in {"logic_error", "future_error"} : Matching(c) = {5}
  /\ Matching("invalid_argument") = {1, 5} /\ Matching("domain_error") = {2, 5}
  /\ Matching("length_error") = {3, 5} /\ Matching("out_of_range") = {4, 5}
  /\ \A c \in {"system_error", "ios_failure"} : Matching(c) = {6, 9}
  /\ Matching("overflow_error") = {7, 9} /\ Matching("range_error") = {8, 9}
  /\ \A c \in {"runtime_error", "underflow_error", "boost_system_error"} : Matching(c) = {9}
  /\ \A c \in {"bad_alloc", "bad_array_new_length"} : Matching(c) = {10}
<1>1. \A c \in {"exception", "other", "status_error"} : Matching(c) = {}
  BY ClauseFacts, ParentFacts DEF Matching, IsA
<1>2. \A c \in {"logic_error", "future_error"} : Matching(c) = {5}
  BY ClauseFacts, ParentFacts DEF Matching, IsA
<1>3. Matching("invalid_argument") = {1, 5} /\ Matching("domain_error") = {2, 5}
  BY ClauseFacts, ParentFacts DEF Matching, IsA
<1>4. Matching("length_error") = {3, 5} /\ Matching("out_of_range") = {4, 5}
  BY ClauseFacts, ParentFacts DEF Matching, IsA
<1>5. \A c \in {"system_error", "ios_failure"} : Matching(c) = {6, 9}
  BY ClauseFacts, ParentFacts DEF Matching, IsA
<1>6. Matching("overflow_error") = {7, 9} /\ Matching("range_error") = {8, 9}
  BY ClauseFacts, ParentFacts DEF Matching, IsA
<1>7. \A c \in {"runtime_error", "underflow_error", "boost_system_error"} : Matching(c) = {9}
  BY ClauseFacts, ParentFacts DEF Matching, IsA
<1>8. \A c \in {"bad_alloc", "bad_array_new_length"} : Matching(c) = {10}
  BY ClauseFacts, ParentFacts DEF Matching, IsA
<1> QED
  BY <1>1, <1>2, <1>3, <1>4, <1>5, <1>6, <1>7, <1>8

(* The clause entered is the one of the nearest class.                     *)
LEMMA CaughtIsNearest ==
  ASSUME NEW c \in Classes, Matching(c) # {}
  PROVE  /\ Nearest(c) \in DOMAIN Clauses /\ Caught(c) = Clauses[Nearest(c)]
         /\ Nearest(c) = 6 <=> c \in {"system_error", "ios_failure"}
<1> DEFINE First(i) == i \in Matching(c) /\ \A j \in Matching(c) : i <= j
           Lowest(i) == i \in Matching(c) /\ \A j \in Matching(c) : IsA(Clauses[i].class, Clauses[j].class)
<1>1. ASSUME NEW i \in Nat, Matching(c) = {i}, i \in DOMAIN Clauses
      PROVE  \A k : (First(k) <=> k = i) /\ (Lowest(k) <=> k = i)
  BY <1>1 DEF IsA
<1>2. ASSUME NEW i \in 1 .. 4, Matching(c) = {i, 5}
      PROVE  \A k : (First(k) <=> k = i) /\ (Lowest(k) <=> k = i)
  <2>1. IsA(Clauses[i].class, Clauses[5].class) /\ ~IsA(Clauses[5].class, Clauses[i].class)
        /\ IsA(Clauses[i].class, Clauses[i].class)
    BY ClauseFacts, ParentFacts DEF IsA
  <2> QED
    BY <1>2, <2>1
<1>3. ASSUME NEW i \in 6 .. 8, Matching(c) = {i, 9}
      PROVE  \A k : (First(k) <=> k = i) /\ (Lowest(k) <=> k = i)
  <2>1. IsA(Clauses[i].class, Clauses[9].class) /\ ~IsA(Clauses[9].class, Clauses[i].class)
        /\ IsA(Clauses[i].class, Clauses[i].class)
    BY ClauseFacts, ParentFacts DEF IsA
  <2> QED
    BY <1>3, <2>1
<1>4. PICK i \in 1 .. 10 : /\ \A k : (First(k) <=> k = i) /\ (Lowest(k) <=> k = i)
                           /\ i = 6 <=> c \in {"system_error", "ios_failure"}
  <2>1. \/ \E i \in {5, 9, 10} : Matching(c) = {i} /\ c \notin {"system_error", "ios_failure"}
        \/ \E i \in 1 .. 4 : Matching(c) = {i, 5} /\ c \notin {"system_error", "ios_failure"}
        \/ \E i \in 7 .. 8 : Matching(c) = {i, 9} /\ c \notin {"system_error", "ios_failure"}
        \/ Matching(c) = {6, 9} /\ c \in {"system_error", "ios_failure"}
    BY ClassFacts, MatchingFacts
  <2> HIDE DEF First, Lowest
  <2> QED
    BY <1>1, <1>2, <1>3, <2>1, ClauseFacts
<1>5. Caught(c) = Clauses[i]
  <2>1. Caught(c) = Clauses[CHOOSE k : First(k)]
    BY DEF Caught
  <2> HIDE DEF First, Lowest
  <2>2. (CHOOSE k : First(k)) = i
    BY <1>4
  <2> QED
    BY <2>1, <2>2
<1>6. Nearest(c) = i
  <2>1. Nearest(c) = CHOOSE k : Lowest(k)
    BY DEF Nearest
  <2> HIDE DEF First, Lowest
  <2> QED
    BY <1>4, <2>1
<1> QED
  BY <1>4, <1>5, <1>6, ClauseFacts

-------------------------------------------------------------------------------
(* The machine that throws and catches.  What an exception can be: its     *)
(* class goes with the code in it, if there is one.                        *)
IsException(e) ==
  \/ e = NoException
  \/ e = [class |-> e.class] /\ e.class \in Classes
     /\ e.class \notin {"system_error", "ios_failure", "boost_system_error", "status_error"}
  \/ /\ e = [class |-> e.class, code |-> e.code] /\ Flat(e.code)
     /\ \/ e.class \in {"system_error", "ios_failure"} /\ e.code.dom = "std"
        \/ e.class = "boost_system_error" /\ e.code.dom = "boost"
        \/ e.class = "status_error" /\ e.code.dom \notin Wrapping

Typed ==
  /\ platform \in Platforms
  /\ IsCode(one) /\ IsCode(two)
  /\ IsException(thrown)
  /\ pc \in {"compare", "call", "inner", "handlers", "done", "idle"}
  /\ pc = "call" => ep = IF thrown = NoException THEN "null" ELSE "held"
  /\ pc \in {"inner", "handlers"} => ep = "held" /\ thrown # NoException
  /\ pc = "done" => result = NotMatched \/ Flat(result)

(* What the call returned, and that a code that fits into a system_code    *)
(* never gets past the inner handlers.                                     *)
Refused == thrown.class = "status_error" => thrown.code.dom \in Large
Mapped ==
  /\ pc = "handlers" => Refused
  /\ pc = "done" => IF thrown = NoException THEN result = Success
                    ELSE \/ thrown.class = "status_error" /\ result = thrown.code
                         \/ Refused /\ Matching(thrown.class) = {} /\ result = NotMatched /\ ep = "held"
                         \/ /\ Matching(thrown.class) # {} /\ ep = "null"
                            /\ result = IF Caught(thrown.class).class = "system_error"
                                        THEN SystemError(thrown.code)
                                        ELSE Generic(Caught(thrown.class).errc)

(* Codes that are thrown and caught for ever are the first one, its        *)
(* payload or what its std::system_error is caught as.                     *)
Catchable(c) ==
  /\ c # Empty
  /\ c.dom # "boost" /\ (c.dom = "std" => c.cat \in {"generic", "system"})
  /\ Innermost(c).dom \notin Large
Forms(c) == {c, Innermost(c)} \cup IF c.dom = "std" THEN {SystemError(c)} ELSE {}
Carried ==
  /\ pc # "compare" /\ Catchable(one) => two \in Forms(one)
  /\ pc \in {"call", "inner", "handlers", "done"} =>
       IF HasCode(thrown) THEN thrown.code = Innermost(two) /\ one # Empty
                          ELSE one = Empty /\ two = Empty
  /\ pc = "idle" => one # Empty /\ two # Empty

IInv == Typed /\ Mapped /\ Carried

-------------------------------------------------------------------------------
(* The codes of a state, and what exceptions carry.                        *)
LEMMA CodesAreCodes ==
  ASSUME platform \in Platforms, NEW c \in Codes
  PROVE  IsCode(c)
BY FlatCodes_Flat DEF Codes, Nestable, IsCode, Nested

LEMMA ThrownByFacts ==
  ASSUME NEW c, Flat(c)
  PROVE  /\ IsException(ThrownBy(c)) /\ ThrownBy(c) # NoException
         /\ HasCode(ThrownBy(c)) /\ ThrownBy(c).code = c
<1>1. c.dom = "std" => ThrownBy(c) = [class |-> "system_error", code |-> c]
  BY DEF ThrownBy
<1>2. c.dom = "boost" => ThrownBy(c) = [class |-> "boost_system_error", code |-> c]
  BY DEF ThrownBy
<1>3. c.dom \notin Wrapping => ThrownBy(c) = [class |-> "status_error", code |-> c]
  BY DEF ThrownBy, Wrapping
<1> QED
  BY <1>1, <1>2, <1>3 DEF IsException, NoException, HasCode, Wrapping

LEMMA ExceptionFacts ==
  ASSUME NEW e, IsException(e), e # NoException
  PROVE  /\ e.class \in Classes
         /\ HasCode(e) <=> e.class \in {"system_error", "ios_failure", "boost_system_error",
                                        "status_error"}
         /\ HasCode(e) => Flat(e.code)
         /\ e.class \in {"system_error", "ios_failure"} => e.code.dom = "std"
         /\ e.class = "boost_system_error" => e.code.dom = "boost"
         /\ e.class = "status_error" => e.code.dom \notin Wrapping
BY ClassFacts DEF IsException, NoException, HasCode

LEMMA ForeignFacts ==
  ASSUME platform \in Platforms, NEW e \in Foreign \cup {NoException}
  PROVE  /\ IsException(e) /\ e.class # "status_error"
         /\ HasCode(e) => Flat(e.code) /\ e # NoException
<1>1. CASE e = NoException
  BY <1>1 DEF IsException, NoException, HasCode
<1>2. ASSUME NEW c \in {d \in Classes : ~IsA(d, "system_error")} \ {"status_error", "boost_system_error"},
             e = [class |-> c]
      PROVE  IsException(e) /\ e.class # "status_error" /\ ~HasCode(e)
  <2>1. c \notin {"system_error", "ios_failure", "boost_system_error", "status_error"}
    BY ParentFacts DEF IsA
  <2> QED
    BY <1>2, <2>1 DEF IsException, HasCode
<1>3. ASSUME NEW c \in {"system_error", "ios_failure"}, NEW d \in StdErrors,
             e = [class |-> c, code |-> d]
      PROVE  IsException(e) /\ e.class # "status_error" /\ Flat(e.code) /\ e # NoException
  <2>1. Flat(d) /\ d.dom = "std"
    BY FlatCodes_Flat DEF StdErrors
  <2> QED
    BY <1>3, <2>1 DEF IsException, NoException
<1> QED
  BY <1>1, <1>2, <1>3 DEF Foreign

(* What the code of a std::system_error becomes.                           *)
LEMMA SystemErrorFacts ==
  ASSUME platform \in Platforms, NEW c, Flat(c), c.dom = "std", c.cat \in {"generic", "system"}
  PROVE  /\ Flat(SystemError(c)) /\ SystemError(c).dom \in {"generic", "posix", "win32"}
         /\ Failure(SystemError(c)) <=> Failure(c)
         /\ \/ SystemError(c) = Converted(c) /\ Converted(c) # Empty
            \/ SystemError(c) = GenericCode(c) /\ GenericCode(c) # Unknown
<1>1. CASE c.cat = "system" => platform # "neither"
  <2>1. SystemError(c) = Converted(c)
    BY <1>1 DEF SystemError, Converted, Platforms
  <2>2. Converted(c) # Empty /\ ~Plain(c)
    BY <1>1, FlatFacts DEF Converted, Platforms, Generic, Posix, Win32, Empty, Plain, Wrapping
  <2> QED
    BY <2>1, <2>2, ConvertedFacts
<1>2. CASE c.cat = "system" /\ platform = "neither"
  <2>1. SystemError(c) = Generic(c.val) /\ GenericCode(c) = Generic(c.val)
    BY <1>2, FlatFacts DEF SystemError, GenericCode, Errno, StdErrno
  <2>2. c.val \notin {"unknown", "ERROR_SUCCESS"}
    BY <1>2 DEF Flat, IsFlatCode, Wrapping
  <2>3. Failure(Generic(c.val)) <=> Failure(c)
    BY <2>2, FlatFacts, GenericFacts DEF Failure, Fails, Wrapping
  <2> QED
    BY <2>1, <2>2, <2>3, GenericFacts DEF Unknown
<1> QED
  BY <1>1, <1>2

LEMMA SystemIsSixth ==
  ASSUME NEW c \in Classes, Matching(c) # {}
  PROVE  /\ Caught(c).class = "system_error" <=> c \in {"system_error", "ios_failure"}
         /\ Caught(c).errc # "success"
BY CaughtIsNearest, ClauseFacts

LEMMA RefusedSystemError ==
  ASSUME NEW c, c.cat \notin {"generic", "system"}
  PROVE  SystemError(c) = NotMatched
BY DEF SystemError

-------------------------------------------------------------------------------
(* The forms of a code.                                                    *)
LEMMA FormsFacts ==
  ASSUME platform \in Platforms, NEW c, IsCode(c), Catchable(c), NEW d \in Forms(c)
  PROVE  /\ IsCode(d) /\ d # Empty
         /\ Innermost(d) \in Forms(c)
         /\ Innermost(d).dom \notin Large \cup {"boost"}
         /\ Innermost(d).dom = "std" => Innermost(d) = c
         /\ c.dom = "std" => SystemError(c) \in Forms(c) /\ SystemError(c) # NotMatched
<1>1. /\ Flat(Innermost(c)) /\ Innermost(Innermost(c)) = Innermost(c)
      /\ ~Plain(c) => Innermost(c) = c /\ Flat(c)
  BY CodeFacts DEF Catchable
<1>2. Innermost(c).dom # "boost" /\ (Innermost(c).dom = "std" => Innermost(c) = c)
  BY <1>1 DEF Catchable, Plain, Wrapping
<1>3. ASSUME c.dom = "std"
      PROVE  /\ Flat(SystemError(c)) /\ SystemError(c) # NotMatched
             /\ SystemError(c).dom \in {"generic", "posix", "win32"}
  <2>1. Flat(c) /\ c.cat \in {"generic", "system"}
    BY <1>3 DEF IsCode, Empty, Catchable
  <2>2. Flat(SystemError(c)) /\ SystemError(c).dom \in {"generic", "posix", "win32"}
    BY <1>3, <2>1, SystemErrorFacts
  <2> QED
    BY <2>2 DEF NotMatched
<1>4. CASE d \in {c, Innermost(c)}
  BY <1>1, <1>2, <1>3, <1>4, FlatFacts DEF Catchable, Forms, IsCode
<1>5. CASE c.dom = "std" /\ d = SystemError(c)
  <2>1. Innermost(d) = d /\ d # Empty /\ d.dom \in {"generic", "posix", "win32"}
    BY <1>3, <1>5, FlatFacts
  <2>2. d.dom \notin Large
    BY <2>1, LargeAssumption
  <2> QED
    BY <1>3, <1>5, <2>1, <2>2 DEF IsCode, Forms
<1> QED
  BY <1>4, <1>5 DEF Forms

(* A plain code equals itself, and all forms of a code that can be caught  *)
(* equal it.                                                               *)
LEMMA EqualsItself ==
  ASSUME NEW c, Flat(c), Plain(c)
  PROVE  DoEquivalent(c, c)
<1>1. Innermost(c) = c /\ c.dom \notin Wrapping /\ c.dom # "nested"
  BY FlatFacts DEF Plain
<1>2. SameDomain(c, c)
  BY <1>1 DEF SameDomain
<1> QED
  BY <1>1, <1>2 DEF DoEquivalent, Accepts, PosixEquivalent, Win32Equivalent, NtEquivalent,
     ComEquivalent, QuickEquivalent, Flat, IsFlatCode, Wrapping

LEMMA FormsAreEqual ==
  ASSUME platform \in Platforms, NEW c, IsCode(c), Catchable(c), NEW d \in Forms(c), d # c
  PROVE  Equivalent(c, d)
<1>1. c # Empty /\ d # Empty
  BY FormsFacts DEF Catchable
<1>2. CASE d = Innermost(c)
  <2>1. Flat(d) /\ Innermost(d) = d
    BY <1>1, <1>2, CodeFacts
  <2>2. Plain(d)
    BY <1>1, <1>2, <2>1, CodeFacts DEF Plain
  <2>3. DoEquivalent(c, d)
    BY <1>2, <2>1, <2>2, EqualsItself DEF DoEquivalent
  <2> QED
    BY <1>1, <2>3 DEF Equivalent, EquivalentBy
<1>3. CASE c.dom = "std" /\ d = SystemError(c)
  <2>1. Flat(c) /\ c.cat \in {"generic", "system"} /\ ~Plain(c)
    BY <1>3, FlatFacts DEF IsCode, Empty, Catchable, Plain, Wrapping
  <2>2. CASE d = GenericCode(c) /\ GenericCode(c) # Unknown
    BY <1>1, <2>2, EqualsErrc
  <2>3. CASE d = Converted(c) /\ Converted(c) # Empty
    <3>1. Flat(d) /\ Plain(d) /\ d.dom # "std" /\ IsCode(d)
      BY <2>1, <2>3, ConvertedFacts DEF IsCode
    <3>2. DoEquivalent(d, d)
      BY <3>1, EqualsItself
    <3>3. Equivalent(Converted(c), d)
      BY <1>1, <2>3, <3>2 DEF Equivalent, EquivalentBy
    <3>4. ~SameDomain(c, d)
      BY <1>3, <3>1 DEF SameDomain
    <3>5. DoEquivalent(c, d)
      BY <1>1, <2>1, <2>3, <3>1, <3>3, <3>4, StartsOver
    <3> QED
      BY <1>1, <3>5 DEF Equivalent, EquivalentBy
  <2> QED
    BY <1>3, <2>1, <2>2, <2>3, SystemErrorFacts
<1> QED
  BY <1>2, <1>3 DEF Forms

-------------------------------------------------------------------------------
(* Every step keeps the invariant.                                         *)
LEMMA InitIsInvariant == CatchInit => IInv
<1> SUFFICES ASSUME CatchInit
             PROVE  IInv
  OBVIOUS
<1>1. platform \in Platforms /\ one \in Codes /\ two \in Codes
  BY DEF CatchInit, Init
<1> QED
  BY <1>1, CodesAreCodes
     DEF CatchInit, IInv, Typed, Mapped, Carried, IsException, NoException

LEMMA PassOnKeeps == IInv /\ PassOn => IInv'
<1> SUFFICES ASSUME IInv, PassOn
             PROVE  IInv'
  OBVIOUS
<1>1. platform \in Platforms /\ platform' = platform /\ one' = one /\ two' \in Codes
  BY DEF IInv, Typed, PassOn, Next, Substitute
<1>2. IsCode(two')
  BY <1>1, CodesAreCodes
<1>3. pc = "compare" /\ pc' = "compare" /\ thrown' = thrown
  BY DEF PassOn, catchVars
<1>4. IsCode(one)' /\ IsCode(two)' /\ IsException(thrown)'
  BY <1>1, <1>2, <1>3 DEF IInv, Typed, IsCode, IsException, Flat
<1> QED
  BY <1>1, <1>2, <1>3, <1>4 DEF IInv, Typed, Mapped, Carried

(* Raise() of an exception that carries the second code, or no code.       *)
LEMMA RaiseKeeps ==
  ASSUME IInv, NEW e, IsException(e), Raise(e), IsCode(one'), IsCode(two'),
         IF HasCode(e) THEN e.code = Innermost(two') /\ one' # Empty ELSE one' = Empty /\ two' = Empty,
         Catchable(one') => two' \in Forms(one')
  PROVE  IInv'
<1>1. /\ thrown' = e /\ pc' = "call" /\ platform' = platform
      /\ ep' = IF e = NoException THEN "null" ELSE "held"
  BY DEF Raise
<1>2. platform \in Platforms
  BY DEF IInv, Typed
<1>3. IsCode(one)' /\ IsCode(two)' /\ IsException(thrown)'
  BY <1>1 DEF IsCode, IsException, Flat
<1>4. (Catchable(one) => two \in Forms(one))'
  BY <1>1 DEF Catchable, Forms, SystemError
<1>5. (IF HasCode(thrown) THEN thrown.code = Innermost(two) /\ one # Empty
       ELSE one = Empty /\ two = Empty)'
  BY <1>1
<1> QED
  BY <1>1, <1>2, <1>3, <1>4, <1>5 DEF IInv, Typed, Mapped, Carried

LEMMA ThrowKeeps == IInv /\ ThrowException => IInv'
<1> SUFFICES ASSUME IInv, ThrowException
             PROVE  IInv'
  OBVIOUS
<1>1. /\ two # Empty /\ two' = two /\ IsCode(one) /\ IsCode(two)
      /\ Raise(ThrownBy(Innermost(two)))
      /\ one' = IF pc = "compare" THEN two ELSE one
      /\ pc \in {"compare", "idle"}
  BY DEF ThrowException, IInv, Typed
<1>2. LET e == ThrownBy(Innermost(two)) IN
        IsException(e) /\ HasCode(e) /\ e.code = Innermost(two)
  BY <1>1, CodeFacts, ThrownByFacts
<1>3. one' # Empty /\ IsCode(one') /\ (Catchable(one') => two' \in Forms(one'))
  BY <1>1 DEF IInv, Carried, Forms
<1> QED
  BY <1>1, <1>2, <1>3, RaiseKeeps

LEMMA MeetKeeps ==
  ASSUME IInv, NEW e \in Foreign \cup {NoException}, Meet(e)
  PROVE  IInv'
<1>1. /\ Raise(e) /\ two' = one'
      /\ one' = IF HasCode(e) THEN e.code ELSE Empty
      /\ platform \in Platforms
  BY DEF Meet, IInv, Typed
<1>2. IsException(e) /\ (HasCode(e) => Flat(e.code))
  BY <1>1, ForeignFacts
<1>3. HasCode(e) => e.code = Innermost(two') /\ one' # Empty
  BY <1>1, <1>2, FlatFacts
<1>4. IsCode(one') /\ IsCode(two') /\ two' \in Forms(one')
  BY <1>1, <1>2 DEF IsCode, Forms
<1> QED
  BY <1>1, <1>2, <1>3, <1>4, RaiseKeeps

(* The steps of the call change neither the codes nor the exception.       *)
LEMMA CallStep ==
  ASSUME IInv, UNCHANGED <<vars, thrown>>, pc \in {"call", "inner", "handlers"},
         \/ pc' \in {"inner", "handlers"} /\ ep' = "held" /\ thrown # NoException
         \/ pc' = "done" /\ (result' = NotMatched \/ Flat(result')),
         Mapped'
  PROVE  IInv'
<1>1. /\ platform' = platform /\ one' = one /\ two' = two /\ thrown' = thrown
      /\ platform \in Platforms /\ IsCode(one) /\ IsCode(two) /\ IsException(thrown)
  BY DEF vars, IInv, Typed
<1>2. IsCode(one)' /\ IsCode(two)' /\ IsException(thrown)'
  BY <1>1 DEF IsCode, IsException, Flat
<1>3. (pc = "done" => result = NotMatched \/ Flat(result))'
  BY <1>1 DEF Flat
<1>4. Typed'
  BY <1>1, <1>2, <1>3 DEF Typed
<1>5. (Catchable(one) => two \in Forms(one))'
  BY <1>1 DEF IInv, Carried, Catchable, Forms, SystemError
<1>6. Carried'
  BY <1>1, <1>5 DEF IInv, Carried
<1> QED
  BY <1>4, <1>6 DEF IInv

LEMMA CallKeeps == IInv /\ Call => IInv'
<1> SUFFICES ASSUME IInv, Call
             PROVE  IInv'
  OBVIOUS
<1>1. pc = "call" /\ thrown' = thrown /\ ep' = ep /\ UNCHANGED <<vars, thrown>>
  BY DEF Call
<1>2. CASE ep = "null"
  <2>1. thrown = NoException /\ pc' = "done" /\ result' = Success
    BY <1>1, <1>2 DEF Call, Return, IInv, Typed
  <2>2. Flat(Success)
    BY GenericFacts DEF Success
  <2>3. Mapped'
    BY <1>1, <2>1 DEF Mapped
  <2> QED
    BY <1>1, <2>1, <2>2, <2>3, CallStep
<1>3. CASE ep # "null"
  <2>1. thrown # NoException /\ pc' = "inner" /\ ep = "held"
    BY <1>1, <1>3 DEF Call, IInv, Typed
  <2>2. Mapped'
    BY <2>1 DEF Mapped
  <2> QED
    BY <1>1, <2>1, <2>2, CallStep
<1> QED
  BY <1>2, <1>3

LEMMA InnerKeeps == IInv /\ InnerHandlers => IInv'
<1> SUFFICES ASSUME IInv, InnerHandlers
             PROVE  IInv'
  OBVIOUS
<1>1. /\ pc = "inner" /\ thrown' = thrown /\ ep' = ep /\ UNCHANGED <<vars, thrown>>
      /\ ep = "held" /\ thrown # NoException /\ IsException(thrown)
  BY DEF InnerHandlers, IInv, Typed
<1>2. CASE thrown.class = "status_error" /\ thrown.code.dom \notin Large
  <2>1. pc' = "done" /\ result' = thrown.code
    BY <1>2 DEF InnerHandlers, Return
  <2>2. Flat(thrown.code)
    BY <1>1, <1>2, ExceptionFacts
  <2>3. Mapped'
    BY <1>1, <1>2, <2>1 DEF Mapped
  <2> QED
    BY <1>1, <2>1, <2>2, <2>3, CallStep
<1>3. CASE ~(thrown.class = "status_error" /\ thrown.code.dom \notin Large)
  <2>1. pc' = "handlers"
    BY <1>3 DEF InnerHandlers
  <2>2. Mapped'
    BY <1>1, <1>3, <2>1 DEF Mapped, Refused
  <2> QED
    BY <1>1, <2>1, <2>2, CallStep
<1> QED
  BY <1>2, <1>3

LEMMA OuterKeeps == IInv /\ OuterHandlers => IInv'
<1> SUFFICES ASSUME IInv, OuterHandlers
             PROVE  IInv'
  OBVIOUS
<1>1. /\ pc = "handlers" /\ thrown' = thrown /\ UNCHANGED <<vars, thrown>>
      /\ ep = "held" /\ thrown # NoException /\ IsException(thrown) /\ Refused
      /\ platform \in Platforms /\ platform' = platform
  BY DEF OuterHandlers, IInv, Typed, Mapped, vars
<1>2. CASE Matching(thrown.class) = {}
  <2>1. pc' = "done" /\ result' = NotMatched /\ ep' = ep
    BY <1>2 DEF OuterHandlers, Return
  <2>2. Mapped'
    BY <1>1, <1>2, <2>1 DEF Mapped, Refused
  <2> QED
    BY <1>1, <2>1, <2>2, CallStep
<1>3. CASE Matching(thrown.class) # {}
  <2>1. /\ pc' = "done" /\ ep' = "null"
        /\ result' = IF Caught(thrown.class).class = "system_error" THEN SystemError(thrown.code)
                     ELSE Generic(Caught(thrown.class).errc)
    BY <1>3 DEF OuterHandlers, Return
  <2>2. Mapped'
    BY <1>1, <1>3, <2>1 DEF Mapped, SystemError
  <2>3. ASSUME Caught(thrown.class).class = "system_error"
        PROVE  SystemError(thrown.code) = NotMatched \/ Flat(SystemError(thrown.code))
    <3>1. Flat(thrown.code) /\ thrown.code.dom = "std"
      BY <1>1, <1>3, <2>3, ExceptionFacts, SystemIsSixth
    <3> QED
      BY <1>1, <3>1, SystemErrorFacts, RefusedSystemError
  <2>4. Flat(Generic(Caught(thrown.class).errc))
    BY GenericFacts
  <2> QED
    BY <1>1, <2>1, <2>2, <2>3, <2>4, CallStep
<1> QED
  BY <1>2, <1>3

(* What the call makes of a form of a code that can be caught is a form of *)
(* it too.                                                                 *)
LEMMA CaughtForms ==
  ASSUME IInv, pc = "done", HasCode(thrown), Catchable(one)
  PROVE  result # NotMatched /\ result \in Forms(one)
<1>1. /\ platform \in Platforms /\ IsCode(one) /\ IsException(thrown)
      /\ two \in Forms(one) /\ thrown.code = Innermost(two)
  BY DEF IInv, Typed, Carried
<1>2. thrown # NoException
  BY DEF HasCode, NoException
<1>3. /\ thrown.code \in Forms(one) /\ thrown.code.dom \notin Large \cup {"boost"}
      /\ thrown.code.dom = "std" => thrown.code = one
      /\ one.dom = "std" => SystemError(one) \in Forms(one) /\ SystemError(one) # NotMatched
      /\ thrown.code # NotMatched
  <2>1. IsCode(two) /\ two # Empty
    BY <1>1, FormsFacts
  <2>2. Flat(thrown.code)
    BY <1>1, <2>1, CodeFacts
  <2>3. thrown.code # NotMatched
    BY <2>2 DEF Flat, IsFlatCode, NotMatched, Wrapping
  <2> QED
    BY <1>1, <2>3, FormsFacts
<1>4. thrown.class \in Classes
  BY <1>1, <1>2, ExceptionFacts
<1>5. CASE thrown.class = "status_error"
  <2>1. ~Refused /\ Matching(thrown.class) = {}
    BY <1>3, <1>5, MatchingFacts DEF Refused
  <2> QED
    BY <1>2, <1>3, <2>1 DEF IInv, Mapped
<1>6. CASE thrown.class \in {"system_error", "ios_failure"}
  <2>1. thrown.code.dom = "std" /\ thrown.code = one
    BY <1>1, <1>2, <1>3, <1>6, ExceptionFacts
  <2>2. Matching(thrown.class) # {} /\ Caught(thrown.class).class = "system_error"
    BY <1>4, <1>6, MatchingFacts, SystemIsSixth
  <2>3. result = SystemError(one)
    BY <1>2, <1>6, <2>1, <2>2 DEF IInv, Mapped
  <2> QED
    BY <1>3, <2>1, <2>3
<1>7. thrown.class # "boost_system_error"
  BY <1>1, <1>2, <1>3, ExceptionFacts
<1> QED
  BY <1>1, <1>2, <1>5, <1>6, <1>7, ExceptionFacts

LEMMA ReceiveKeeps == IInv /\ Receive => IInv'
<1> SUFFICES ASSUME IInv, Receive
             PROVE  IInv'
  OBVIOUS
<1>1. /\ pc = "done" /\ pc' = "idle" /\ two' = CodeOf(result)
      /\ one' = IF one = Empty THEN two' ELSE one
      /\ platform' = platform /\ thrown' = thrown
      /\ platform \in Platforms /\ IsCode(one) /\ IsException(thrown)
      /\ result = NotMatched \/ Flat(result)
  BY DEF Receive, IInv, Typed
<1>2. Flat(two') /\ two' # Empty
  BY <1>1, GenericFacts, FlatFacts DEF CodeOf
<1>3. IsCode(one') /\ IsCode(two') /\ one' # Empty
  BY <1>1, <1>2 DEF IsCode
<1>4. IsCode(one)' /\ IsCode(two)' /\ IsException(thrown)'
  BY <1>1, <1>3 DEF IsCode, IsException, Flat
<1>5. Typed'
  BY <1>1, <1>4 DEF Typed
<1>6. ASSUME Catchable(one')
      PROVE  two' \in Forms(one')
  <2>1. CASE one = Empty
    BY <1>1, <2>1 DEF Forms
  <2>2. CASE one # Empty
    <3>1. HasCode(thrown) /\ one' = one
      BY <1>1, <2>2 DEF IInv, Carried
    <3>2. result # NotMatched /\ result \in Forms(one)
      BY <1>1, <1>6, <3>1, CaughtForms
    <3> QED
      BY <1>1, <3>1, <3>2 DEF CodeOf
  <2> QED
    BY <2>1, <2>2
<1>7. (Catchable(one) => two \in Forms(one))'
  BY <1>1, <1>6 DEF Catchable, Forms, SystemError
<1>8. Carried'
  BY <1>1, <1>2, <1>3, <1>7 DEF Carried
<1> QED
  BY <1>1, <1>5, <1>8 DEF IInv, Mapped

LEMMA StutterKeeps == IInv /\ UNCHANGED allVars => IInv'
<1> SUFFICES ASSUME IInv, UNCHANGED allVars
             PROVE  IInv'
  OBVIOUS
<1>1. /\ platform' = platform /\ one' = one /\ two' = two
      /\ thrown' = thrown /\ ep' = ep /\ pc' = pc /\ result' = result
  BY DEF allVars, vars, catchVars
<1>2. Typed'
  BY <1>1 DEF IInv, Typed, IsCode, IsException, Flat
<1>3. Mapped'
  BY <1>1 DEF IInv, Mapped, Refused, SystemError
<1>4. Carried'
  BY <1>1 DEF IInv, Carried, Catchable, Forms, SystemError
<1> QED
  BY <1>2, <1>3, <1>4 DEF IInv

(* What is true in every state of the program that compares, throws and    *)
(* catches: the exceptions it can meet, what the call returns, and which   *)
(* code travels.                                                           *)
THEOREM Invariance == CatchSpec => []IInv
<1>1. IInv /\ [CatchNext]_allVars => IInv'
  <2> SUFFICES ASSUME IInv, [CatchNext]_allVars
               PROVE  IInv'
    OBVIOUS
  <2>1. CASE \E e \in Foreign \cup {NoException} : Meet(e)
    BY <2>1, MeetKeeps
  <2>2. CASE Call
    BY <2>2, CallKeeps
  <2> QED
    BY <2>1, <2>2, PassOnKeeps, ThrowKeeps, InnerKeeps, OuterKeeps, ReceiveKeeps, StutterKeeps
       DEF CatchNext
<1> QED
  BY <1>1, InitIsInvariant, PTL DEF CatchSpec

-------------------------------------------------------------------------------
(* What follows for the properties the runs check.                         *)
LEMMA SymmetricAlways == ComparisonIsSymmetric
BY DEF ComparisonIsSymmetric, Equivalent, EquivalentBy

LEMMA ErrcAlways == EqualToItsErrc
BY EqualsErrc DEF EqualToItsErrc

LEMMA NestingFollows == IInv => NestingIsInvisible
<1> SUFFICES ASSUME IInv, one \in FlatCodes(platform), two \in Nestable, Known(one), Known(two)
             PROVE  Equivalent(one, two) <=> Equivalent(one, Nested(two))
  BY DEF NestingIsInvisible
<1>1. platform \in Platforms /\ two \in FlatCodes(platform) /\ two.dom \notin Wrapping
  BY DEF IInv, Typed, Nestable
<1>2. Flat(one) /\ Flat(two)
  BY <1>1, FlatCodes_Flat
<1>3. Plain(two)
  BY <1>1, <1>2, FlatFacts DEF Plain
<1> QED
  BY <1>1, <1>2, <1>3, NestingIsNotSeen

LEMMA FailureFollows == IInv => EqualCodesAgreeOnFailure
<1> SUFFICES ASSUME IInv, Equivalent(one, two), ~Ambiguous(one), ~Ambiguous(two)
             PROVE  Succeeding(one) <=> Succeeding(two)
  BY DEF EqualCodesAgreeOnFailure
<1>1. platform \in Platforms /\ IsCode(one) /\ IsCode(two)
  BY DEF IInv, Typed
<1>2. one = Empty <=> two = Empty
  BY DEF Equivalent, EquivalentBy
<1> QED
  BY <1>1, <1>2, EqualCodesAgree DEF Succeeding

LEMMA FaithfulFollows == IInv => ExactCodesAreFaithful
<1> SUFFICES ASSUME IInv
             PROVE  ExactCodesAreFaithful
  OBVIOUS
<1>1. platform \in Platforms /\ IsCode(one) /\ IsCode(two)
  BY DEF IInv, Typed
<1> DEFINE C == {c \in {one, two} : Exact(c)}
<1>2. \A c \in C : IsCode(c) /\ Exact(c)
  BY <1>1
<1>3. ExactCodesAreFaithful <=> Faithful(C \cup {GenericCode(c) : c \in C})
  BY DEF ExactCodesAreFaithful
<1> HIDE DEF C
<1> QED
  BY <1>1, <1>2, <1>3, ExactAreFaithful

(* What a call that returned made of an exception: status_error's code,    *)
(* nothing, or what the clause of the nearest class says.                  *)
LEMMA ReturnedFacts ==
  ASSUME IInv, Returned
  PROVE  /\ platform \in Platforms /\ IsException(thrown) /\ thrown # NoException
         /\ thrown.class \in Classes
         /\ \/ thrown.class = "status_error" /\ result = thrown.code /\ Matching(thrown.class) = {}
            \/ Matching(thrown.class) = {} /\ result = NotMatched /\ ep = "held"
            \/ /\ Matching(thrown.class) # {} /\ ep = "null"
               /\ result = IF thrown.class \in {"system_error", "ios_failure"}
                           THEN SystemError(thrown.code)
                           ELSE Generic(Clauses[Nearest(thrown.class)].errc)
<1>1. /\ platform \in Platforms /\ IsException(thrown) /\ thrown # NoException
      /\ pc = "done"
  BY DEF Returned, IInv, Typed
<1>2. thrown.class \in Classes
  BY <1>1, ExceptionFacts
<1>3. Matching(thrown.class) # {} =>
        /\ Caught(thrown.class) = Clauses[Nearest(thrown.class)]
        /\ Caught(thrown.class).class = "system_error" <=>
             thrown.class \in {"system_error", "ios_failure"}
  BY <1>2, CaughtIsNearest, SystemIsSixth
<1>4. thrown.class = "status_error" => Matching(thrown.class) = {}
  BY MatchingFacts
<1>5. \/ thrown.class = "status_error" /\ result = thrown.code
      \/ Matching(thrown.class) = {} /\ result = NotMatched /\ ep = "held"
      \/ /\ Matching(thrown.class) # {} /\ ep = "null"
         /\ result = IF Caught(thrown.class).class = "system_error" THEN SystemError(thrown.code)
                     ELSE Generic(Caught(thrown.class).errc)
  BY <1>1 DEF IInv, Mapped
<1> QED
  BY <1>1, <1>2, <1>3, <1>4, <1>5

LEMMA NearestFollows == IInv => NearestClassWins
<1> SUFFICES ASSUME IInv, Returned, ~IsA(thrown.class, "system_error"),
                    Matching(thrown.class) # {}
             PROVE  result = Generic(Clauses[Nearest(thrown.class)].errc)
  BY DEF NearestClassWins
<1>1. thrown.class \notin {"system_error", "ios_failure"}
  BY ParentFacts DEF IsA
<1> QED
  BY <1>1, ReturnedFacts

LEMMA KeepsFollows == IInv => KeepsWhatItCannotMap
<1> SUFFICES ASSUME IInv, Returned, result = NotMatched
             PROVE  ep = "held" <=> ~UnknownCategory(thrown)
  BY DEF KeepsWhatItCannotMap
<1>1. /\ platform \in Platforms /\ IsException(thrown) /\ thrown # NoException
      /\ thrown.class \in Classes
  BY ReturnedFacts
<1>2. ASSUME thrown.class = "status_error"
      PROVE  result # thrown.code
  <2>1. Flat(thrown.code)
    BY <1>1, <1>2, ExceptionFacts
  <2> QED
    BY <2>1 DEF Flat, IsFlatCode, NotMatched, Wrapping
<1>3. ASSUME thrown.class \in {"system_error", "ios_failure"}, ~UnknownCategory(thrown)
      PROVE  result # SystemError(thrown.code)
  <2>1. HasCode(thrown) /\ Flat(thrown.code) /\ thrown.code.dom = "std"
    BY <1>1, <1>3, ExceptionFacts
  <2>2. thrown.code.cat \in {"generic", "system"}
    BY <1>3, <2>1 DEF UnknownCategory
  <2>3. SystemError(thrown.code).dom \in {"generic", "posix", "win32"}
    BY <1>1, <2>1, <2>2, SystemErrorFacts
  <2> QED
    BY <2>3 DEF NotMatched
<1>4. \A e : result # Generic(e)
  BY DEF Generic, NotMatched
<1>5. CASE ~UnknownCategory(thrown)
  BY <1>2, <1>3, <1>4, <1>5, ReturnedFacts
<1>6. CASE UnknownCategory(thrown)
  <2>1. HasCode(thrown) /\ thrown.code.dom = "std"
    BY <1>6 DEF UnknownCategory
  <2>2. thrown.class \in {"system_error", "ios_failure"}
    BY <1>1, <2>1, ExceptionFacts DEF Wrapping
  <2>3. Matching(thrown.class) # {}
    BY <1>1, <2>2, MatchingFacts
  <2>4. ep = "null"
    BY <2>2, <2>3, ReturnedFacts
  <2> QED
    BY <1>6, <2>4
<1> QED
  BY <1>5, <1>6

LEMMA ThrownFollows == IInv => ThrownMeansFailure
<1> SUFFICES ASSUME IInv, Returned, result # NotMatched, Succeeding(result)
             PROVE  HasCode(thrown) /\ Succeeding(thrown.code)
  BY DEF ThrownMeansFailure
<1>1. /\ platform \in Platforms /\ IsException(thrown) /\ thrown # NoException
      /\ thrown.class \in Classes
  BY ReturnedFacts
<1>2. CASE thrown.class = "status_error" /\ result = thrown.code
  BY <1>1, <1>2, ExceptionFacts
<1>3. CASE thrown.class \in {"system_error", "ios_failure"} /\ result = SystemError(thrown.code)
  <2>1. HasCode(thrown) /\ Flat(thrown.code) /\ thrown.code.dom = "std"
    BY <1>1, <1>3, ExceptionFacts
  <2>2. thrown.code.cat \in {"generic", "system"}
    BY <1>3, <2>1, RefusedSystemError
  <2>3. Failure(result) <=> Failure(thrown.code)
    BY <1>1, <1>3, <2>1, <2>2, SystemErrorFacts
  <2> QED
    BY <2>1, <2>3, FlatFacts DEF Succeeding
<1>4. ASSUME Matching(thrown.class) # {},
             result = Generic(Clauses[Nearest(thrown.class)].errc)
      PROVE  FALSE
  <2>1. Clauses[Nearest(thrown.class)].errc # "success"
    BY <1>1, <1>4, CaughtIsNearest, ClauseFacts
  <2>2. Failure(result)
    BY <1>4, <2>1, GenericFacts DEF Failure, Fails
  <2> QED
    BY <2>2 DEF Succeeding
<1> QED
  BY <1>2, <1>3, <1>4, ReturnedFacts

LEMMA CaughtFollows == IInv => CaughtEqualsThrown
<1> SUFFICES ASSUME IInv, pc # "compare", two # one,
                    one.dom # "boost", one.dom = "std" => one.cat \in {"generic", "system"},
                    Innermost(one).dom \notin Large
             PROVE  Equivalent(one, two)
  BY DEF CaughtEqualsThrown
<1>1. platform \in Platforms /\ IsCode(one)
  BY DEF IInv, Typed
<1>2. one # Empty
  BY DEF IInv, Typed, Carried
<1>3. Catchable(one) /\ two \in Forms(one)
  BY <1>2 DEF IInv, Carried, Catchable
<1> QED
  BY <1>1, <1>3, FormsAreEqual

(* == and != give the same answer whichever operand comes first, whatever  *)
(* the domains, in every state of the program.                             *)
THEOREM SymmetryHolds == CatchSpec => []ComparisonIsSymmetric
BY SymmetricAlways, PTL

(* Any code equals the generic code its domain maps it to, unless that is  *)
(* errc::unknown: the generic domain is always asked.                      *)
THEOREM ErrcHolds == CatchSpec => []EqualToItsErrc
BY ErrcAlways, PTL

(* Wrapping a code with make_nested_status_code() changes the answer of no *)
(* comparison of codes of known errcs, whatever their values.              *)
THEOREM NestingHolds == CatchSpec => []NestingIsInvisible
BY Invariance, NestingFollows, PTL

(* Codes that compare equal are both failures or both successes, unless    *)
(* one of them has an errc that says otherwise than it does.               *)
THEOREM FailureHolds == CatchSpec => []EqualCodesAgreeOnFailure
BY Invariance, FailureFollows, PTL

(* The codes that compare with generic codes by one errc answer for that   *)
(* errc only, which is all FaithfulCodesMeanTheirErrc asks for.            *)
THEOREM FaithfulnessHolds == CatchSpec => []ExactCodesAreFaithful
BY Invariance, FaithfulFollows, PTL

(* system_code_from_exception() reports the nearest class with a clause.   *)
THEOREM NearestHolds == CatchSpec => []NearestClassWins
BY Invariance, NearestFollows, PTL

(* It leaves the exceptions it cannot map in the caller's exception_ptr.   *)
THEOREM KeepsHolds == CatchSpec => []KeepsWhatItCannotMap
BY Invariance, KeepsFollows, PTL

(* It makes a success of no exception that did not carry one.              *)
THEOREM ThrownHolds == CatchSpec => []ThrownMeansFailure
BY Invariance, ThrownFollows, PTL

(* A code that is thrown and caught, any number of times, comes back as    *)
(* one that compares equal.                                                *)
THEOREM CaughtHolds == CatchSpec => []CaughtEqualsThrown
BY Invariance, CaughtFollows, PTL
===============================================================================
