# Verification of status-code

TLA+ specifications of the parts of this library whose state and control are
worth checking, the TLC runs that check them on small instances, and theorems
about them proved with TLAPS. Paths below are relative to
`src/include/status-code/` unless they start with another directory.

## 1. The system

The library replaces `std::error_code`. A *status code* is a domain pointer and
a value; a *domain* is a stateless singleton whose virtual functions say whether
a value is a failure, what it means, how to print, copy and destroy it.

| Component | State | Operations | Talks to | What is hard |
|---|---|---|---|---|
| Domain table (`std_error_code.hpp:137-223`; same in `boost_error_code.hpp`) | a spin lock, an array of 64 slots, a count | `add`, its lock and unlock, static destruction, `get` | the user's `std::error_category` (called under the lock), `abort` | threads, overflow, throwing constructor, exit |
| Erased codes and nested payloads (`status_code.hpp`, `nested_status_code.hpp`) | domain pointer and value of each code, heap payloads | constructors, `clone`, `in_place`/`nothrow` copies, moves, `clear`, destructor, `make_nested_status_code`, `get_if` | the domain's `_do_erased_copy` and `_do_erased_destroy`, an allocator | ownership through bitwise moves, throwing copies, sizes |
| Message strings (`status_code_domain.hpp:157-425`) | a pointer range, a thunk, three words; a malloc()ed block with an atomic count | construct, copy, move, assign, destroy | the thunk, other threads' objects | interleaved counting, failing copies, memory order |
| Semantic comparison (`generic_code.hpp:436-476`) | none | `equivalent`, `==` | two domains, up to four questions | the domains know different things of each other |
| Coding domains: generic, posix, win32, nt, com, getaddrinfo, http, quick enums, std, boost, nested | mapping tables | `_do_failure`, `_do_equivalent`, `_do_generic_code`, names, messages | each other | many-to-one tables, nesting, wrapping |
| `errored_status_code`, `error` | a code | constructors that terminate on success, moves, `clear` | erased codes | moved-from and assigned codes escape the check |
| `system_code_from_exception` | an `exception_ptr` | one function of nested handlers | `status_error`, std exceptions | order of the handlers, when the pointer is reset |
| `result<T>` | a variant of error and value | constructors, accessors, moves, `clone`, `swap` | `error` | moved-from errors, throwing moves |
| `bit_cast`, `erasure_cast` (`config.hpp:270-461`) | none | casts between sizes | erased codes | padding and sign |
| Message retrieval (`win32_code.hpp:120-164`, `nt_code.hpp`, `com_code.hpp`, `posix_code.hpp`, `std_error_code.hpp`) | a growing buffer | one loop, `message()` | the system, message strings | termination of the growth, errors of a `noexcept` function |
| Domain ids (`status_code_domain.hpp:60-125`) | none | compile-time UUID parse | - | collisions |
| `src/example/thrown_exception.cpp` | a mutex, a ring of 16 exception pointers | `add`, `operator[]` | a domain | wrap-around of index and ring |
| `status_error`, `iostream_support.hpp`, `.ipp` tables, single header, generator | - | - | - | none of its own |

What makes each component correct: a category has one domain for the life of
the process, and the lock is neither shared nor kept; a payload has one owner, a
code is a value, failures leak nothing; a message block lives as long as its
last reference, and is freed once, after every use of it; `==` does not depend
on the order of its operands or on nesting, and agrees with the mapping to
`errc`; a failure that is moved, cloned, stored in a result, thrown or caught is
neither lost nor doubled nor turned into a success; a domain reads from an erased
code the value it was made with; `message()` ends and returns a whole text. The
hazards, one by one and at their lines, are in `PROJECT.json`.

## 2. Modules

| Module | What it is |
|---|---|
| `CategoryInterning` | what a domain table promises: interning, atomically |
| `DomainTable` | the spin-locked array, one step per loop turn or atomic access |
| `DomainTableRefinement` | the refinement mapping between the two |
| `DomainTableProofs` | TLAPS proofs: the invariants, the release of the lock, and the refinement |
| `CodeValues` | what erased codes promise: they are values |
| `ErasedCode` | erased codes and heap payloads; states the refinement of `CodeValues` |
| `ErasedCodeProofs` | TLAPS proofs |
| `MessageValues` | what `string_ref` promises: every object shows a text of its own |
| `StringRef` | `string_ref` and the atomic counter; states the refinement of `MessageValues` |
| `StringRefOrder` | the same with the happens-before relation of the memory orders used |
| `StringRefProofs` | TLAPS proofs about both |
| `GenericCodes` | the generic code, `errc::unknown` and the empty code |
| `Equivalence` | `equivalent()` over any two domains, given by what they answer |
| `StatusDomains` | the answers of the library's eleven domains, given the mapping tables; `==` over them |
| `MappingTables` | the generated tables of win32 and nt codes |
| `EquivalenceProofs` | TLAPS proofs about these, and about `ExceptionMap` |
| `ErasureCast` | the casts between value types, on bytes |
| `CodeStorage` | a code erased, moved, copied, cloned and unerased over `ErasureCast` |
| `CodeStorageProofs` | TLAPS proofs |
| `ErroredCode`, `Result` | errored codes, and results over them |
| `ResultProofs` | TLAPS proofs |
| `SystemMessage`, `SystemMessageProofs` | one call of `message()`, and TLAPS proofs |
| `ExceptionClasses` | the exception hierarchy and the catch clauses |
| `ExceptionMap` | `throw_exception` and `system_code_from_exception`: `StatusDomains` and `ExceptionClasses` composed |
| `ThrownException` | the exception storage of the worked example, over `ExceptionClasses` |
| `ThrownExceptionProofs` | TLAPS proofs |
| `MC...` | instances for TLC, one per state machine; `MCExceptionMap` instantiates `StatusDomains` and what is built on it |

Definitions whose comment starts with "Mutant:"
stand beside the action they alter: they are the plausible bugs against which
every property is tried.

### DomainTable

`lock`, `items`, `count` are the members of `storage_t`; a slot holds `Raw`
memory, a domain (named by its category: the domain's id is computed from the
category's address) or `Gone` after its destructor. `pc`, `arg`, `idx`, `ret` are
a thread in the middle of `add()`; `handed` remembers the pairs of category and
slot that status codes hold. The C++ order is kept: `count++` comes before the
placement new, which may throw in a `noexcept` constructor and so terminate the
process. `get()` aborts on a null result. `Exit` is the static destructor; no
call is in progress or made afterwards, which the language demands of programs.
The user's `category.name()`, called under the lock, is taken to return or throw:
one that wraps an error code of a new category itself would deadlock, and is
listed as an uncovered hazard.

### ErasedCode

Every variable of erased type has a `domain` ("unborn" where there is no object,
"null" when empty, "plain" and "wide" for domains with the default, memcpy-ing
copy whose value does or does not fit into smaller storage, "nested" for an
indirecting domain) and a `value`. The two sizes of storage stand for
`status_code<erased<T>>` of two `T`. Allocation and construction of a payload
are two steps (`pending`), because the second may throw: `make_nested_status_code`
and the `in_place` constructor then throw on, `clone()` reaches
`SYSTEM_ERROR2_FATAL`, the `nothrow` constructor makes an empty code. An
allocator that throws does so outside the `try` of a `noexcept` function and
terminates. Move assignment is the code's: a trivial destructor of the storage,
then a move construction in place, self-assignment included. The history
variable `overwritten` remembers payloads whose owner was assigned to or cleared.
One thread is modelled: codes are not shared objects.
Here a caller never copies or inspects an empty code through `status_code<void>`;
such a call goes through a null pointer (section 5).

### StringRef and StringRefOrder

`ref` is thunk and `_state[0]` of each object, `text` and `count` the blocks, `op`
what each thread is in the middle of. `fetch_add`, `fetch_sub` and `free` are
steps of their own; between them other threads run. The thunk "counted" is
`_refcounted_string_thunk`; "custom" is a thunk of a user's domain that shares
blocks the same way and whose copies may fail, which `string_ref` allows
("Copies can fail. Nothing else can."). The guards `MayRead` and `MayWrite` are
the C++ rule that one object is not written while another thread uses it; the
blocks behind them are shared freely. A malloc() that fails gives the literal
"failed to get message from system", which is `Literal`.

`StringRefOrder` adds what each thread's next action is ordered after. Use of one
object by two threads in turn is ordered by the program (it must be). The counter
contributes no edge: `fetch_add` is relaxed and the releases of `fetch_sub` are
read by no acquire.

### Equivalence and StatusDomains

`EquivalentBy` is `status_code<void>::equivalent()`; the two domain functions it calls
are CONSTANT operators. `StatusDomains` instantiates them with those of the
domains of the library: a code is a record of its domain and a value; numbers are
named by the constant they are, or in hexadecimal. The mapping tables are
constants, of which `TablesAssumption` says what the rest relies on; `MappingTables` has
the tables of the repository, but for the rows of `nt_code_to_win32_code.ipp` with no `errc` on
either side, and `MCStatusDomains` one for an enumeration. `GetAddrInfoErrno` and `HttpErrno` are
complete. `IsFlatCode`, an assumption on the constant `FlatCodes`, says what a code of a
build is. A domain is recognised by its id, so each `std::error_category` is a
domain of its own, and an indirecting domain is one per inner domain. `platform` is
what the program was built for and is chosen at the start: POSIX, Windows, or neither of
them, where the system codes of the standard library have no domain to convert to. Domains
without a default constructor (std) cannot be nested. A `com_code` is what it
wraps (an NT status, a Win32 code or nothing) and its severity; of those that wrap
nothing `S_OK` alone maps to `errc::success`, any other (`S_FALSE`, `E_FAIL`) to `errc::unknown`.

In the code the comparison is recursive: the domain of a `std::error_category` starts it over
with a generic, POSIX or Win32 code, whose domains ask nobody. So it starts over at most once
for each operand, and the modules say it without recursion: `DoEquivalent` may ask
`EquivalentAgain`, that asks `EquivalentLast`, and after that nobody is left to ask. The lemma
`StartsOver` of `EquivalenceProofs` is that nothing is lost by it: the domain answers as
`Equivalent` itself does for the converted code.

The state machine is a program that keeps one code and goes on replacing another
by codes that compare equal to it: what a caller does who passes a code through
layers that translate it.

### ErasureCast and CodeStorage

Values are sequences of bytes in the order of their addresses, and a type is a size
and a kind (signed, unsigned, object). `Cast` joins the overloads of `erasure_cast`;
what `bit_cast` does to bytes of the same size is nothing. `CodeStorage` keeps what
follows the domain pointer in one code object: the value and, up to the alignment
of the pointer, padding that holds anything after a construction. The byte order of the
machine, `littleEndian`, is chosen at the start. The default
`_do_erased_copy()` is a `memcpy` of the domain's own size; domains that override it
are in `ErasedCode`.

`DomainReadsItsValue` looks at the bytes a domain's `static_cast` to its own code type reads.
A conversion to a smaller type cuts a value off wherever both fit the same padded slot, and a
conversion or move carries nothing that is in the padding, so a domain can only be promised what
all the types on the way had room for: the history variable `kept` is exactly that, computed from the
sizes of the types alone. `kinds` remembers what the value was stored as, for the sign of
a number.

### ErroredCode and Result

`err` is the code each variable of an errored type holds. Failures are made once
(`made`) and the history variables `copied` and `dropped` say which were duplicated
or given up on purpose, so that a failure in two places or in none is a
mistake of the library. `Checked` is `_check()`; the operations that do not use it are
those that the code leaves defaulted. `throughBase`, chosen at the start, says whether
the program assigns through a reference to the public base class. `Result` is the variant, `res`, and the moves
between it and error variables; `thrown` is what the last call threw. T is a value
whose moves and copies may throw, which is when the variant becomes valueless.
Converting results of different T act as moves and copies do. `assume_value()` and
`assume_error()` are undefined where `value()` and `error()` throw.

### SystemMessage

A text is a sequence of units by their length in UTF-8. `Fetch` to `Copy` are the loop
of the Windows domains, one step per call to the system. `allocation` is the variable that
`malloc()` and the converter are told, at different times and in different rounds; `buffer` is what
the block in use really holds, so the two can disagree. `PosixMessage`
and `StdMessage` are a single step, as they keep nothing between calls. `ret`, `errcode`
and `outcome` follow `args.ret`, the returned `int` and how the `noexcept`
`message()` ended. Texts of nothing but line ends, before which `end[-1]` would run,
and an empty narrow COM text are taken not to exist: they are the system's.

### ExceptionClasses and ExceptionMap

`Clauses` is the list of catch clauses in the order of the source, of which the first
that fits is entered. `ExceptionMap` extends the program of `StatusDomains`: it compares
codes (`PassOn`), then throws the one it has (`ThrowException`) or meets an exception of
another library, of any standard class, or none (`Meet`); makes a code of it, and throws
that one in turn. The call is three steps: the inner `try`, its handlers (`InnerHandlers`),
the outer handlers (`OuterHandlers`). `ep` is the caller's `exception_ptr`. A
`std::system_error` carries a `std` code, a `status_error` the code thrown. Codes of a `Large` domain are
those whose copy into a `system_code` is refused, such as enumerations wider than a
pointer; generic, POSIX and Win32 codes, for which `system_code` is made, are not
(`LargeAssumption`).

### ThrownException

The array, the next index and the exceptions, numbered as they were thrown; an
exception is alive while the array or a local `exception_ptr` refers to it. Storing is
one step, under the mutex; using a code is two, the copy of the pointer under the mutex
and the use of it. The model goes up to and with a full array, ends where the code writes
outside it, and so never reaches the wrap-around of the index.

## 3. Runs

| Run | Shows |
|---|---|
| `domain_table` | in every interleaving of three threads and three categories over two slots: handed-out domains stay live, scans read only built domains, `abort` only on a full table, exit destroys exactly what was built, no slot is ever moved; the array implements `CategoryInterning`; the lock is released by every path, and waiting threads are never all locked out |
| `erased_code` | three codes of two sizes, three cells, two values: one owner per payload, raw memory belongs to the operation in progress, only overwriting loses payloads, codes refine `CodeValues` |
| `erased_code_leak` | *violated*: assignment and `clear()` leak the payload |
| `string_ref` | two threads, four objects, two blocks, failing copies: counts are exact, nothing dangles, one thread frees, nothing leaks, objects refine `MessageValues` |
| `string_ref_order` | *violated*: a block is freed while another thread's use of it is not ordered before |
| `semantic_equality` | over every pair of codes of each of three builds: symmetry, equality with the mapped errc, invisibility of nesting, agreement on failure, and the hypotheses (`Faithful`) under which, by the theorem, `==` among codes with one errc is having the same errc; and over every code thrown and every exception met: the nearest class decides, the caller keeps what was not mapped, only a success becomes a success, and through any number of rounds a code stays equal to the first (but for unknown categories, those of boost and codes too large) |
| `equality_transitive` | *violated*: `==` is not transitive |
| `same_domain_values` | *violated*: a nested code need not equal itself |
| `system_message` | every source, every text of up to five units, any call failing: the buffer is freed once, the converter's limit is never more than the block, the text is whole, the call ends but for the texts of `NeverFits`, and for those never returns |
| `thrown_exception` | two threads, an array of three: codes name their exceptions, messages stay valid, and the overrun and the early expiry of the oldest code occur at a full array and nowhere else |
| `result` | three results, two error variables, two failures: errors are failures (unless assigned through the base), none is doubled, none lost |
| `code_storage` | types of one, two and four bytes, the smallest half a slot, on machines of either byte order: after any sequence of conversions, moves, copies and clones the domain reads all of its value that every type had room for, and (little endian, nothing cut off, no sign lost) the erased number is the code |

Bounds. The table needs one category more than slots to overflow, two threads to
interleave and a third to see the effects of both; slots beyond three repeat the
third. Three codes allow a payload to be cloned, moved and overwritten at once,
and one of them is larger; a copy involves two codes and one new cell, so a
third cell is only ever waiting. A copy assignment touches two objects and two
blocks, and another thread can do the same to the other two at each of its steps.
The equality runs are exhaustive over pairs, which is all that `==` looks at; each
kind of table row (one-to-one, many-to-one, absent, success) is compared, and nesting is one deep. Nesting an
already erased nested code does not compile. Three platforms are three choices of
codes, and each step of a round trip is taken once per code: what comes back from the
second round is what went into it. A byte of four values has
a sign and a rest, a pointer of two bytes can be half, exactly and twice filled, which are
all the comparisons the casts make: the half is `erased_status_code<int>` on a machine of 64
bits, the only kind of erased type with padding. Two results exchange, a third receives; two failures
tell a swap from a copy. A wide text of three units is the first whose buffer grows at
all, and one of five needs three rounds; longer texts grow in larger steps. An array of
three has a first, an inner and a last slot. No counter is cut off: all variables
range over finite sets by themselves. Deadlock is checked wherever a program may go
on; the processes that stop (`dead`, `Stopped`) say so by stuttering. It is off
where the end is part of the model: one call (`SystemMessage`), a
terminated process (`Result`), an overrun array (`ThrownException`).

Fairness is assumed in `domain_table`: weak fairness of each thread inside
`add()` and of the thread that runs static destructors, which is what an operating
system's scheduler gives a runnable thread; and in `system_message`:
weak fairness of the one thread in the call, which waits for nobody. The test-and-set lock itself is not
fair and no thread is promised to enter; `SomeoneEnters` is the strongest promise
the code makes.

## 4. Proofs

All proved for any number of threads, categories, slots, codes, cells, objects,
blocks, failures and values, for types of any size and texts of any length. In each of
these modules `IInv` is the inductive invariant, which TLC has checked on the module's
instance; every safety theorem follows from `Invariance`, the statement `Spec => []IInv`.
The step that preserves it has one lemma or named step per action.

* `DomainTableProofs`: `IInv` joins to the safety properties what the code relies
  on between its steps: whoever is inside the critical section implies the lock is
  taken (`LockInv`); what a thread has scanned so far does not hold its category
  (`CallInv`); slots below `count` are built but for the one a thread is
  constructing (`FillInv`); what the destructor loop has done (`ExitInv`); why the
  process aborted (`AbortInv`). Uniqueness alone is not inductive: that a thread
  about to build has scanned *every* slot, and no slot has changed since, is needed.
  From it follow every safety property of the run `domain_table` and the action
  property `SlotStable`, and three that no run needs to check again: `TypeOK`,
  `MutualExclusion` and `UniqueDomains`. `TableInterns` is the refinement: each step
  maps to a step of `CategoryInterning` or stutters; the linearization point of an
  insertion is the construction of the domain. What the liveness of the lock rests on is
  proved too, fairness apart: a taken lock has a holder (`LockIsNeverOrphaned`), each step of the holder
  brings it nearer to `unlock()`, from at most `MaxItems + 3` steps away, and nobody else's
  takes it further (`HolderFinishes`), and the destructor never spins (`ExitNeverWaits`).
* `ErasedCodeProofs`: `IInv` is the conjunction of the checked invariants and `OwnedIsBuilt` with
  `PendingIsExclusive` (the cell of an unfinished operation is raw and no code
  refers to it, its source still owns a payload). `OneOwner` needs `OwnedIsBuilt`:
  a newly built payload has no owner because its cell was not built before.
  `CodesImplementValues` is the whole refinement of `CodeValues`.
* `StringRefProofs`: `CountIsExact` says what the counter is between two atomic
  accesses, but not that it stays so: that needs `OperationInv` (what a thread in the
  middle of an operation relies on about its source, its destination and the block it gives
  back), `Exclusive` (nobody writes an object another thread uses), and `BlockInv` (a block holds a text exactly while its count is
  positive or one thread is about to free it). A reference that is copied cannot be to a
  freed block, because the source of the copy still holds its own: this is the argument for
  the relaxed `fetch_add`. `NoLeak` is the other half of `FreedOnce`: the thread that
  finds the count at one is the last holder, as the count is exact.
  `StringRefImplementsValues` has one refinement lemma per action; a copy takes effect at
  the `fetch_add`, a move at its start, and everything else stutters. Of `StringRefOrder`:
  recording who used what changes no behaviour (`OrderRefines`), so all of this holds of it too,
  and the uses `free()` may overtake are never the freeing thread's own (`OwnUsesPrecede`):
  what the run `string_ref_order` refutes is true of one thread (`OneThreadFreesSafely`).
* `ResultProofs`: that no failure is doubled is stated in `IInv` without counting: an
  unduplicated failure held here is held nowhere else (`Alone`). It is inductive because a
  failure is made once, and because each move, also one that throws halfway, leaves its source
  empty or its destination unchanged. `WellTyped` says that nothing but the empty code,
  a success and failures made so far is ever held; `OneHolder` then follows.
* `ThrownExceptionProofs`: slots are used once and in order, so slot *s* holds the exception of
  number *s* from its `Add` to the end (`SlotsInOrder`); `OldestExpires` adds what threads and
  verdicts may have seen of the one lookup that fails. The three properties follow. It is also
  why the index overruns: nothing ever frees a slot.
* `CodeStorageProofs`: `IInv` is `TypeOK` with "the domain's value fits the slot of the
  object's type", the slot being the type with the padding after it: all that the code's comparisons
  of sizes establish. `DomainReadsItsValue` is inductive beside it, without any assumption on the
  types: a step either converts, and then keeps the bytes that both types have (`CastIsBytes`), or is
  a `memcpy` of all that the domain reads. `ErasedNumbersAreTheCodes`, about the number an erased
  integer shows, needs `PaddingFollows` besides: as long as the number is safe (`NumberIsSafe`), the
  bytes after the domain's repeat its sign. That zeros, or the
  sign, above a number do not change it (`SignedDigits`) is an
  induction over the digits, from the top one down: made with sets, as a set of natural numbers that
  holds 0 and the successor of each member is all of them (`SetInduction`). The same lemma gives
  `WideningKeepsTheNumber` for one cast of any integer; `CastingBackIsIdentity` is about any
  value, on machines of either byte order.
* `SystemMessageProofs`: `Sized` (whenever the converter runs the block has the size it is told,
  and the narrow COM buffer that of the text and its terminator) is what each round
  of the loop restores, since `Grow` frees the block before it changes the size; it gives `FitsTheBuffer`. `TextReady` (from the
  trimming on the text is whole) gives `TextIsWhole`, for any limit `MaxLen` on the texts. That
  trimming stops at the first of the trailing line ends uses that a set of numbers has a least
  one. `EveryStepGetsFurther` is the variant of the loop: all steps but a retry move on, and a
  retry finds a larger buffer than the one that was too small, unless the text `NeverFits`. It
  needs `SizeInv`, that the buffer never gets smaller than the first one. For the texts that
  `NeverFits` the same invariant shows that the call does not return (`WhatNeverFitsIsNotShown`),
  which is half of `MessageEnds`.
* `EquivalenceProofs`, the comparison: `equivalent()` is symmetric whatever the domains
  answer, and among codes whose domains are `Faithful` it is having the same errc
  (`FaithfulCodesMeanTheirErrc`). That the library's domains are faithful to the codes with
  one errc, and what failure and nesting do to a comparison, is then proved for any set of
  codes. Two lemmas carry it. `EqualCodesShare`: what a code shares with its errc and with what it
  is converted to, and no plain code's domain mixes up, is the same for codes that
  compare equal; it is used with the errc (`EqualExactCodes`) and with failure
  (`EqualCodesAgree`). `OtherQuestions`: what a domain refuses because the other code is nested is
  found by one of the other three questions of `equivalent()`, if both errcs are known.
  `ExactCodesAreTheirErrc` puts it together.
* `EquivalenceProofs`, the exceptions: `IInv` is `Typed` (an exception's class goes with the
  code in it), `Mapped` (what each handler leaves to the next, and returns) and `Carried`: a
  code that can be caught is, after any number of rounds, the first code, its payload or what
  its `std::system_error` is caught as (`Forms`). `CaughtEqualsThrown` alone is not
  inductive, as `==` is not transitive: that the forms are closed under throwing and catching is
  needed, and all of them equal the first code (`FormsAreEqual`). `CaughtIsNearest` compares
  the order of the clauses with the hierarchy of the classes. `KeepsWhatItCannotMap` says which
  exceptions are consumed unmapped exactly, so `Mapped` follows `ep` through every handler.

Assumptions are those the modules name: the constants are disjoint where
the C++ types are, `MaxItems` is a positive natural number, sizes and limits are natural,
codes are codes of the build (`FlatCodesAssumption`) and what `system_code` is made for fits into
it (`LargeAssumption`). The mapping tables may be any that map nothing but a success to success
and agree on the `errc` of an NT status (`TablesAssumption`): a row that maps a failure to success
would make `EqualCodesAgreeOnFailure` false, and an NT status whose Win32 code has another
`errc` would equal a code of another `errc`. TLC evaluates that on the generated tables. The table of
an enumeration may be any (`QuickAssumption`).

Only model-checked:

* Liveness (`MessageEnds`, `SomeoneEnters` and `LockIsReleased`) and the fairness it rests on.
  The variants above are proved; that a step that is always possible is taken at last is not.
* Which properties are violated: each of those runs has a counterexample.

## 5. What the runs found

* Move assignment and `clear()` of an erased code never call `_do_erased_destroy`
  (`status_code.hpp:434-439, 821`): the payload of a nested code is leaked.
  `errored_status_code<erased<T>>` and `result<T>` inherit it. Everything else in
  the life of a payload is sound (`LostOnlyByOverwrite`, proved).
* `fetch_sub(1, memory_order_release)` followed by `free()` lacks the acquire that
  would order other threads' uses before it (`status_code_domain.hpp:386`).
* `==` is not transitive, because it does not compare the generic codes, against its
  documentation (`status_code.hpp:348-350`): domains that do not recognise generic
  codes in `_do_equivalent` (getaddrinfo, HTTP) equal an `errc` by its own
  mapping but not each other.
* A nested code of a domain and value without a known `errc` does not equal itself:
  `indirecting_domain::_do_equivalent` hands the inner domain a code that is
  still wrapped (`nested_status_code.hpp:105-112`).

These are findings of violated runs, against a sentence of the documentation each. Met
while modelling, and modelled as the code has them:

* `message()` is `noexcept` and throws when a domain could not get its text, so the
  fallback text the domain also returns is never seen (`status_code_domain.hpp:606`;
  `CheckThrow`). A code thrown asks for its message too.
* A Windows message of one unit, or of two with one outside ASCII, never ends: a quarter of
  a buffer of less than four bytes is nothing (`win32_code.hpp:158` and its two copies;
  `NeverFits`).
* An erased code of less than a pointer, such as `erased_status_code<int>`, accepts codes too large
  for it, because the sizes compared include padding (`status_code.hpp:467`; `ErasureIsSafe`), and
  cuts their values off; the documentation says that only a code which "would fit into our storage"
  (`status_code.hpp:721-722`) is. Two bytes of the run's small machine become one this way, which is
  why `DomainReadsItsValue` speaks of `kept`. The test erases an enumeration over `size_t` to it
  (`src/test/main.cpp:69, 878`) with values that survive.
* On big-endian machines the number of an erased code is not the code
  (`config.hpp:458`), and a clone of a negative code shows another number
  (`status_code_domain.hpp:590`; `Memcpy`).
* `get_if()`, `get_id()`, the copies through `status_code<void>`, and `==` on a code whose
  domain leaves its errc empty, call through the null domain of an empty code.
* An errored code can be a success by assignment through its base
  (`AssignThroughBase`), and the error of a result can be one that never was a failure;
  `value()` of a valueless result throws `std::bad_variant_access` (`GetValue`).
* `system_code_from_exception` consumes a `std::system_error` of an unknown category and
  reports nothing of it (`UnknownCategory`); the comment there says "fall through".
* A thrown `boost_error_code` loses its code: `boost::system::system_error` is to the handlers
  a `std::runtime_error`, so the code caught is `errc::resource_unavailable_try_again`
  (`boost_error_code.hpp:318`, `system_code_from_exception.hpp`; excluded from
  `CaughtEqualsThrown`).
* Some codes equal an `errc` that disagrees with them about failure (`Ambiguous`): the HTTP
  statuses 102 and 202, which succeed, equal `errc::operation_in_progress`; an HRESULT is
  what the Win32 error or NT status in it is, whatever its severity; and a value of an
  enumeration whose row lists success among others succeeds and equals the others.
  `EqualCodesAgreeOnFailure` leaves them out.
* The worked example writes past its array at the exception after the last slot (`Add`),
  expires the first one code early (`Lookup`), and terminates for the message of an object that
  is no `std::exception` (`Message`).

## 6. Not modelled, and the plan

Every part of the library that keeps state or decides anything at run time is
modelled. Left out, and why:

* Domain ids: parsing a UUID is a compile-time computation on a literal, a table of
  digit offsets that one literal of each form tests completely.
* Names and constant messages of the domains, stream output and the debugger's printer:
  formatting. `FormatMessage`, `strerror` and the converter are the system's.
* The rows of `nt_code_to_win32_code.ipp` without an `errc`: generated data that only decides
  which Win32 number a status equals. The two single headers are generated too; the generator is a build
  tool.
* The branch of boost's `make_status_code` for interoperating categories: it only forwards to
  std's. The rest of `boost_error_code.hpp` is `std_error_code.hpp` with another category
  type: its table is the one of `DomainTable`, its answers are in `StatusDomains`.
* A category whose `name()` calls back into the library while the table is locked: it
  would spin for ever, but nothing in the repository says whether it may.
* Typed codes whose value type owns something: the casts to erased types do not compile
  for them, and without erasure they are ordinary values.

Next, proofs: the refinements are stated for one object of each kind at a time, and could be
composed (results over errored codes over erased ones).
